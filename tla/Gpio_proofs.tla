----------------------------- MODULE Gpio_proofs -----------------------------
(***************************************************************************)
(* Proofs about Gpio for any pins, files, callbacks and threads: no        *)
(* registered callback is deaf, and the variables keep their types.        *)
(* Nothing is said of the order in which a change's callbacks are called.  *)
(***************************************************************************)
EXTENDS Gpio, FiniteSetTheorems, TLAPS

LineRecord == [fd : Fds \cup {NoFd}, mode : {"input", "output"}, edges : SUBSET Changes]
CallbackRecord == [id : Nat, pin : Pins, types : SUBSET Changes]
ThreadRecord == [pc : {"idle", "waiting", "closing"}, pin : Pins \cup {0},
                 types : SUBSET Changes, happened : Changes \cup {None}, timed : BOOLEAN]

\* The types that the steps rely on: all of TypeOK's but those of the queues.
PartTypes ==
  /\ lines \in [Pins -> LineRecord]
  /\ callbacks \subseteq CallbackRecord
  /\ nextId \in Nat
  /\ thread \in [Threads -> ThreadRecord]
  /\ \A t \in Threads : thread[t].pc = "waiting" => thread[t].pin \in Pins
  /\ wake \in BOOLEAN
  /\ watcher \in [pc : WatcherPc, watched : SUBSET (Pins \X (Fds \cup {NoFd})),
                  attached : SUBSET (Fds \cup {NoFd}), ready : {watcher.ready},
                  woken : {watcher.woken}, calls : {watcher.calls}]

\* An open line has a file, and no two have the same one.
FilesOK ==
  /\ \A p \in Pins : lines[p].fd = NoFd => lines[p] = Closed
  /\ \A p, q \in Pins : p # q /\ lines[p].fd = lines[q].fd => lines[p].fd = NoFd

\* A callback's pin is open, with a watcher, and an input reports its changes.
AskedFor ==
  control # "disposed" => \A c \in callbacks :
    /\ lines[c.pin] # Closed
    /\ watcher.pc # "none"
    /\ lines[c.pin].mode # "output" => c.types \subseteq lines[c.pin].edges

\* A watcher that was not woken polls every line that reports changes: those of
\* its snapshot, and in poll itself those files that it is attached to.
PolledOK ==
  ~wake => \A p \in Pins : lines[p].edges # {} =>
    /\ watcher.pc = "enter" => <<p, lines[p].fd>> \in watcher.watched
    /\ watcher.pc = "poll" => lines[p].fd \in watcher.attached

GpioInv == PartTypes /\ FilesOK /\ AskedFor /\ PolledOK

\* The invariant is what CallbacksHeard needs.
LEMMA HeardFollows == GpioInv => CallbacksHeard
BY DEF GpioInv, PartTypes, AskedFor, PolledOK, CallbacksHeard, CallbackHeard, CallbackRecord

\* No line is open and no callback is registered at first.
LEMMA InitGpio == Init => GpioInv
<1> SUFFICES ASSUME Init PROVE GpioInv
  OBVIOUS
<1>1. PartTypes
  BY DEF Init, PartTypes, LineRecord, ThreadRecord, Closed, Idle, NoWatcher, WatcherPc
<1>2. FilesOK /\ AskedFor /\ PolledOK
  BY DEF Init, FilesOK, AskedFor, PolledOK, Closed
<1> QED BY <1>1, <1>2 DEF GpioInv

\* What is wanted of a pin is a set of changes, and contains what each of its
\* callbacks asks for.
LEMMA Wanted ==
  ASSUME NEW p \in Pins, NEW cbs \in SUBSET CallbackRecord,
         NEW thr \in [Threads -> ThreadRecord]
  PROVE  /\ WantedEdges(p, cbs, thr) \subseteq Changes
         /\ \A c \in cbs : c.pin = p => c.types \subseteq WantedEdges(p, cbs, thr)
<1>1. ASSUME NEW x \in WantedEdges(p, cbs, thr) PROVE x \in Changes
  <2>1. CASE \E c \in cbs : c.pin = p /\ x \in c.types
    BY <2>1 DEF CallbackRecord
  <2>2. CASE \E t \in Threads : x \in thr[t].types
    BY <2>2 DEF ThreadRecord
  <2> QED BY <1>1, <2>1, <2>2 DEF WantedEdges
<1>2. ASSUME NEW c \in cbs, c.pin = p, NEW x \in c.types
      PROVE  x \in WantedEdges(p, cbs, thr)
  BY <1>2 DEF WantedEdges
<1> QED BY <1>1, <1>2

\* A line that is set up wakes the watcher, and the line is another one only in
\* its mode and edges.
LEMMA ConfigureKeeps ==
  ASSUME GpioInv, NEW p \in Pins, NEW mode \in {"input", "output"}, NEW edges \in SUBSET Changes,
         Configure(p, mode, edges), lines[p] # Closed
  PROVE  /\ lines' \in [Pins -> LineRecord] /\ wake' = TRUE /\ FilesOK'
         /\ lines'[p] # Closed /\ lines'[p].mode = mode
         /\ mode # "output" => lines'[p].edges = edges
         /\ \A q \in Pins \ {p} : lines'[q] = lines[q]
<1> PICK set : set = IF mode = "output" THEN {} ELSE edges
  OBVIOUS
<1>1. lines \in [Pins -> LineRecord] /\ set \in SUBSET Changes
  BY DEF GpioInv, PartTypes
<1>2. lines' = [lines EXCEPT ![p].mode = mode, ![p].edges = set]
  BY DEF Configure
<1>8. lines'[p] = [fd |-> lines[p].fd, mode |-> mode, edges |-> set]
  BY <1>1, <1>2 DEF LineRecord
<1>3. lines[p].fd \in Fds
  BY <1>1 DEF GpioInv, FilesOK, LineRecord
<1>4. lines' \in [Pins -> LineRecord]
  BY <1>1, <1>2 DEF LineRecord
<1>5. \A q \in Pins : lines'[q].fd = lines[q].fd /\ (q # p => lines'[q] = lines[q])
  BY <1>1, <1>2, <1>8
<1>6. FilesOK'
  BY <1>3, <1>5, NamesAssumption DEF GpioInv, FilesOK
<1>7. lines'[p] # Closed /\ lines'[p].mode = mode /\ (mode # "output" => lines'[p].edges = edges)
  BY <1>3, <1>8, NamesAssumption DEF Closed
<1> QED BY <1>4, <1>5, <1>6, <1>7 DEF Configure

\* UpdateEdges, when it does not throw, leaves an input with the edges wanted,
\* and has woken the watcher if it changed anything.
LEMMA UpdateKeeps ==
  ASSUME GpioInv, NEW p \in Pins, NEW wanted \in SUBSET Changes, UpdateEdges(p, wanted)
  PROVE  /\ lines' \in [Pins -> LineRecord] /\ wake' \in BOOLEAN /\ FilesOK'
         /\ \A q \in Pins : lines'[q] # Closed <=> lines[q] # Closed
         /\ lines'[p].mode = lines[p].mode
         /\ \A q \in Pins \ {p} : lines'[q] = lines[q]
         /\ lines[p] # Closed /\ lines[p].mode # "output" => lines'[p].edges = wanted
         /\ wake' \/ UNCHANGED <<lines, wake>>
<1>1. CASE ~IsOpen(p) \/ wanted = lines[p].edges
  BY <1>1 DEF GpioInv, PartTypes, FilesOK, UpdateEdges, IsOpen
<1>2. CASE IsOpen(p) /\ wanted # lines[p].edges
  <2>1. lines[p] # Closed /\ Configure(p, lines[p].mode, wanted)
    BY <1>2 DEF UpdateEdges, IsOpen
  <2>2. lines[p].mode \in {"input", "output"}
    BY <2>1 DEF GpioInv, PartTypes, LineRecord
  <2> QED BY <2>1, <2>2, ConfigureKeeps
<1> QED BY <1>1, <1>2

\* A step of the watcher, or of the kernel, that changes no line.
LEMMA WatcherKeeps ==
  ASSUME GpioInv, PartTypes', UNCHANGED <<lines, callbacks>>,
         control = "disposed" => control' = "disposed",
         watcher.pc # "none" => watcher'.pc # "none",
         PolledOK'
  PROVE  GpioInv'
BY DEF GpioInv, FilesOK, AskedFor

\* A line's edges change only with a wake, so what is polled stays complete.
LEMMA WokenPolls == ASSUME wake' = TRUE PROVE PolledOK'
BY DEF PolledOK

\* Calls of the program that set up a pin's line for other callbacks or waiters.
LEMMA CallKeeps ==
  ASSUME GpioInv, control' = control, NEW p \in Pins,
         NEW cbs \in SUBSET CallbackRecord, NEW thr \in [Threads -> ThreadRecord],
         \A c \in cbs : c \in callbacks \/ (c.pin = p /\ lines[p] # Closed),
         \A t \in Threads : thr[t].pc = "waiting" => thr[t].pin \in Pins,
         \/ ~UpdateThrows(p, WantedEdges(p, cbs, thr)) /\ UpdateEdges(p, WantedEdges(p, cbs, thr))
         \/ cbs \subseteq callbacks /\ UNCHANGED <<lines, wake>>,
         callbacks' = cbs, thread' = thr, nextId' \in Nat,
         watcher' = watcher \/ StartWatcher,
         cbs \subseteq callbacks \/ StartWatcher
  PROVE  GpioInv'
<1> PICK wanted : wanted = WantedEdges(p, cbs, thr)
  OBVIOUS
<1>1. wanted \in SUBSET Changes /\ \A c \in cbs : c.pin = p => c.types \subseteq wanted
  BY Wanted
<1>2. /\ watcher'.pc \in WatcherPc
      /\ watcher'.pc = watcher.pc \/ watcher'.pc = "snapshot"
      /\ watcher'.watched = watcher.watched /\ watcher'.attached = watcher.attached
      /\ watcher.pc # "none" \/ StartWatcher => watcher'.pc # "none"
      /\ watcher' \in [pc : WatcherPc, watched : SUBSET (Pins \X (Fds \cup {NoFd})),
                  attached : SUBSET (Fds \cup {NoFd}), ready : {watcher'.ready},
                  woken : {watcher'.woken}, calls : {watcher'.calls}]
  BY DEF GpioInv, PartTypes, StartWatcher, WatcherPc
<1>3. CASE UpdateEdges(p, wanted)
  <2>1. /\ lines' \in [Pins -> LineRecord] /\ wake' \in BOOLEAN /\ FilesOK'
        /\ \A q \in Pins : lines'[q] # Closed <=> lines[q] # Closed
        /\ lines'[p].mode = lines[p].mode
        /\ \A q \in Pins \ {p} : lines'[q] = lines[q]
        /\ lines[p] # Closed /\ lines[p].mode # "output" => lines'[p].edges = wanted
        /\ wake' \/ UNCHANGED <<lines, wake>>
    BY <1>1, <1>3, UpdateKeeps
  <2>2. PartTypes'
    BY <1>2, <2>1 DEF GpioInv, PartTypes
  <2>3. AskedFor'
    <3> SUFFICES ASSUME control # "disposed", NEW c \in cbs
                 PROVE  /\ lines'[c.pin] # Closed
                        /\ watcher'.pc # "none"
                        /\ lines'[c.pin].mode # "output" => c.types \subseteq lines'[c.pin].edges
      BY DEF AskedFor
    <3>1. c.pin \in Pins /\ lines[c.pin] # Closed
      BY DEF GpioInv, AskedFor, CallbackRecord
    <3>2. watcher'.pc # "none"
      BY <1>2 DEF GpioInv, AskedFor
    <3>3. CASE c.pin = p
      BY <1>1, <2>1, <3>1, <3>2, <3>3
    <3>4. CASE c.pin # p
      <4>1. c \in callbacks /\ lines'[c.pin] = lines[c.pin]
        BY <2>1, <3>1, <3>4
      <4> QED BY <3>1, <3>2, <4>1 DEF GpioInv, AskedFor
    <3> QED BY <3>3, <3>4
  <2>4. PolledOK'
    BY <1>2, <2>1, WokenPolls DEF GpioInv, PolledOK
  <2> QED BY <2>1, <2>2, <2>3, <2>4 DEF GpioInv
<1>4. CASE cbs \subseteq callbacks /\ UNCHANGED <<lines, wake>>
  <2>1. PartTypes' /\ FilesOK'
    BY <1>2, <1>4 DEF GpioInv, PartTypes, FilesOK
  <2>2. AskedFor'
    BY <1>2, <1>4 DEF GpioInv, AskedFor
  <2>3. PolledOK'
    BY <1>2, <1>4 DEF GpioInv, PolledOK
  <2> QED BY <2>1, <2>2, <2>3 DEF GpioInv
<1> QED BY <1>3, <1>4

\* Lines that are closed, or opened with a file nobody has, leave the others as
\* they are, and what the watcher polls of them.
LEMMA LinesKeep ==
  ASSUME GpioInv, NEW p \in Pins, NEW line \in LineRecord,
         lines' = [lines EXCEPT ![p] = line], line.edges = {},
         line = Closed \/ (line.fd \in Fds /\ \A q \in Pins : lines[q].fd # line.fd),
         UNCHANGED <<nextId, control, wake>>,
         callbacks' \subseteq callbacks, \A c \in callbacks' : c.pin # p,
         thread' \in [Threads -> ThreadRecord],
         \A t \in Threads : thread'[t].pc = "waiting" => thread'[t].pin \in Pins,
         watcher' = [watcher EXCEPT !.attached = @ \ {lines[p].fd}] \/ watcher' = watcher,
         lines[p] = Closed \/ line = Closed
  PROVE  GpioInv'
<1>1. lines \in [Pins -> LineRecord] /\ FilesOK
  BY DEF GpioInv, PartTypes
<1>2. lines'[p] = line /\ \A q \in Pins \ {p} : lines'[q] = lines[q]
  BY <1>1
<1>3. /\ watcher' \in [pc : WatcherPc, watched : SUBSET (Pins \X (Fds \cup {NoFd})),
                  attached : SUBSET (Fds \cup {NoFd}), ready : {watcher'.ready},
                  woken : {watcher'.woken}, calls : {watcher'.calls}]
      /\ watcher'.pc = watcher.pc /\ watcher'.watched = watcher.watched
      /\ watcher.attached \ {lines[p].fd} \subseteq watcher'.attached
  BY DEF GpioInv, PartTypes
<1>4. PartTypes'
  BY <1>1, <1>3 DEF GpioInv, PartTypes
<1>5. FilesOK'
  <2>1. CASE line = Closed
    BY <1>1, <1>2, <2>1 DEF FilesOK, Closed
  <2>2. CASE line.fd \in Fds /\ \A q \in Pins : lines[q].fd # line.fd
    BY <1>1, <1>2, <2>2, NamesAssumption DEF FilesOK
  <2> QED BY <2>1, <2>2
<1>6. AskedFor'
  <2> SUFFICES ASSUME control # "disposed", NEW c \in callbacks'
               PROVE  /\ lines'[c.pin] # Closed
                      /\ watcher'.pc # "none"
                      /\ lines'[c.pin].mode # "output" => c.types \subseteq lines'[c.pin].edges
    BY DEF AskedFor
  <2>1. c \in callbacks /\ c.pin \in Pins \ {p}
    BY DEF GpioInv, PartTypes, CallbackRecord
  <2> QED BY <1>2, <1>3, <2>1 DEF GpioInv, AskedFor
<1>7. PolledOK'
  <2> SUFFICES ASSUME ~wake, NEW q \in Pins, lines'[q].edges # {}
               PROVE  /\ watcher'.pc = "enter" => <<q, lines'[q].fd>> \in watcher'.watched
                      /\ watcher'.pc = "poll" => lines'[q].fd \in watcher'.attached
    BY DEF PolledOK
  <2>1. q # p /\ lines'[q] = lines[q]
    BY <1>2
  <2>2. lines[q] # Closed
    BY <2>1 DEF Closed
  <2>3. lines[q].fd # lines[p].fd
    BY <1>1, <2>1, <2>2 DEF FilesOK
  <2> QED BY <1>3, <2>1, <2>3 DEF GpioInv, PolledOK
<1> QED BY <1>4, <1>5, <1>6, <1>7 DEF GpioInv

\* Every step keeps the invariant.
LEMMA NextGpio == GpioInv /\ [Next]_vars => GpioInv'
<1> SUFFICES ASSUME GpioInv, [Next]_vars PROVE GpioInv'
  OBVIOUS
<1>0. PartTypes /\ FilesOK /\ AskedFor /\ PolledOK
  BY DEF GpioInv
<1>1. ASSUME NEW c \in callbacks, RemoveCallback(c)
      PROVE GpioInv'
  <2> PICK p : p = c.pin
    OBVIOUS
  <2> PICK cbs : cbs = callbacks \ {c}
    OBVIOUS
  <2>1. p \in Pins /\ cbs \in SUBSET CallbackRecord /\ cbs \subseteq callbacks
    BY <1>0 DEF PartTypes, CallbackRecord
  <2>2. /\ control' = control /\ callbacks' = cbs /\ thread' = thread /\ nextId' = nextId
        /\ watcher' = watcher
        /\ \/ /\ ~UpdateThrows(p, WantedEdges(p, cbs, thread))
              /\ UpdateEdges(p, WantedEdges(p, cbs, thread))
           \/ UNCHANGED <<lines, wake>>
    BY <1>1 DEF RemoveCallback, MayCall
  <2>3. thread \in [Threads -> ThreadRecord] /\ nextId' \in Nat
        /\ \A t \in Threads : thread[t].pc = "waiting" => thread[t].pin \in Pins
    BY <1>0, <2>2 DEF PartTypes
  <2>4. \A d \in cbs : d \in callbacks \/ (d.pin = p /\ lines[p] # Closed)
    BY <2>1
  <2> QED BY <2>1, <2>2, <2>3, <2>4, CallKeeps, Zenon
<1>2. ASSUME NEW p \in Pins, OpenPin(p)
      PROVE GpioInv'
  <2>1. PICK f \in FreeFds : lines' = [lines EXCEPT ![p] = [fd |-> f, mode |-> "input", edges |-> {}]]
    BY <1>2 DEF OpenPin
  <2>2. f \in Fds /\ \A q \in Pins : lines[q].fd # f
    BY DEF FreeFds
  <2>3. [fd |-> f, mode |-> "input", edges |-> {}] \in LineRecord
    BY <2>2 DEF LineRecord
  <2>4. /\ UNCHANGED <<nextId, control, wake, callbacks, thread, watcher>>
        /\ lines[p] = Closed /\ control = "running"
    BY <1>2 DEF OpenPin, IsOpen, MayCall
  <2>5. \A c \in callbacks : c.pin # p
    BY <1>0, <2>4 DEF AskedFor
  <2> QED BY <1>0, <2>1, <2>2, <2>3, <2>4, <2>5, LinesKeep DEF PartTypes
<1>3. ASSUME NEW p \in Pins, NEW mode \in {"input", "output"}, SetPinMode(p, mode)
      PROVE GpioInv'
  <2> PICK wanted : wanted = WantedEdges(p, callbacks, thread)
    OBVIOUS
  <2>1. wanted \in SUBSET Changes /\ \A c \in callbacks : c.pin = p => c.types \subseteq wanted
    BY <1>0, Wanted DEF PartTypes
  <2>2. /\ UNCHANGED <<callbacks, nextId, thread, control, watcher>>
        /\ Configure(p, mode, wanted) /\ lines[p] # Closed
    BY <1>3 DEF SetPinMode, IsOpen
  <2>3. /\ lines' \in [Pins -> LineRecord] /\ wake' = TRUE /\ FilesOK'
        /\ lines'[p] # Closed /\ lines'[p].mode = mode
        /\ mode # "output" => lines'[p].edges = wanted
        /\ \A q \in Pins \ {p} : lines'[q] = lines[q]
    BY <2>1, <2>2, ConfigureKeeps
  <2>4. PartTypes'
    BY <1>0, <2>2, <2>3 DEF PartTypes
  <2>5. AskedFor'
    BY <1>0, <2>1, <2>2, <2>3 DEF PartTypes, CallbackRecord, AskedFor
  <2> QED BY <2>3, <2>4, <2>5, WokenPolls DEF GpioInv
<1>4. ASSUME NEW p \in Pins, NEW types \in Types, AddCallback(p, types)
      PROVE GpioInv'
  <2> PICK c : c = [id |-> nextId, pin |-> p, types |-> types]
    OBVIOUS
  <2> PICK cbs : cbs = callbacks \cup {c}
    OBVIOUS
  <2>1. cbs \in SUBSET CallbackRecord /\ c.pin = p
    BY <1>0 DEF PartTypes, CallbackRecord, Types
  <2>2. /\ control' = control /\ callbacks' = cbs /\ thread' = thread /\ nextId' = nextId + 1
        /\ StartWatcher /\ lines[p] # Closed
        /\ ~UpdateThrows(p, WantedEdges(p, cbs, thread))
        /\ UpdateEdges(p, WantedEdges(p, cbs, thread))
    BY <1>4 DEF AddCallback, MayCall, IsOpen
  <2>3. nextId' \in Nat
    BY <1>0, <2>2 DEF PartTypes
  <2> QED BY <1>0, <2>1, <2>2, <2>3, CallKeeps DEF PartTypes
<1>5. ASSUME NEW p \in Pins, NEW t \in Threads, ClosePin(t, p)
      PROVE GpioInv'
  <2>1. Closed \in LineRecord /\ Closed.edges = {}
    BY DEF Closed, LineRecord
  <2>2. /\ UNCHANGED <<nextId, control, wake>> /\ lines' = [lines EXCEPT ![p] = Closed]
        /\ callbacks' \subseteq callbacks /\ \A c \in callbacks' : c.pin # p
        /\ watcher' = [watcher EXCEPT !.attached = @ \ {lines[p].fd}]
        /\ thread' = [thread EXCEPT ![t] = [Idle EXCEPT !.pc = "closing"]]
    BY <1>5 DEF ClosePin, CloseLine
  <2>3. thread' \in [Threads -> ThreadRecord]
    BY <1>0, <2>2 DEF PartTypes, Idle, ThreadRecord
  <2>4. \A u \in Threads : thread'[u].pc = "waiting" => thread'[u].pin \in Pins
    BY <1>0, <2>2 DEF PartTypes, Idle
  <2> PICK line : line = Closed
    OBVIOUS
  <2>5. line \in LineRecord /\ line.edges = {} /\ lines' = [lines EXCEPT ![p] = line]
    BY <2>1, <2>2
  <2> QED BY <2>2, <2>3, <2>4, <2>5, LinesKeep
<1>6. ASSUME NEW p \in Pins, NEW t \in Threads, NEW types \in Types, NEW timed \in BOOLEAN,
             WaitBegin(t, p, types, timed)
      PROVE GpioInv'
  <2> PICK thr : thr = [thread EXCEPT ![t] =
        [pc |-> "waiting", pin |-> p, types |-> types, happened |-> None, timed |-> timed]]
    OBVIOUS
  <2>1. thr \in [Threads -> ThreadRecord]
    BY <1>0 DEF PartTypes, ThreadRecord, Types
  <2>2. \A u \in Threads : thr[u].pc = "waiting" => thr[u].pin \in Pins
    BY <1>0 DEF PartTypes
  <2>3. /\ control' = control /\ callbacks' = callbacks /\ thread' = thr /\ nextId' = nextId
        /\ StartWatcher
        /\ ~UpdateThrows(p, WantedEdges(p, callbacks, thr))
        /\ UpdateEdges(p, WantedEdges(p, callbacks, thr))
    BY <1>6 DEF WaitBegin, MayCall
  <2>4. callbacks \in SUBSET CallbackRecord /\ nextId' \in Nat
    BY <1>0, <2>3 DEF PartTypes
  <2> QED BY <2>1, <2>2, <2>3, <2>4, CallKeeps
<1>7. ASSUME NEW t \in Threads, WaitEnd(t)
      PROVE GpioInv'
  <2> PICK p : p = thread[t].pin
    OBVIOUS
  <2> PICK thr : thr = [thread EXCEPT ![t] = Idle]
    OBVIOUS
  <2>1. p \in Pins /\ thr \in [Threads -> ThreadRecord]
    BY <1>0, <1>7 DEF WaitEnd, PartTypes, ThreadRecord, Idle
  <2>2. \A u \in Threads : thr[u].pc = "waiting" => thr[u].pin \in Pins
    BY <1>0 DEF PartTypes, Idle
  <2>3. /\ UNCHANGED <<callbacks, nextId, control, watcher>> /\ thread' = thr
        /\ \/ /\ ~UpdateThrows(p, WantedEdges(p, callbacks, thr))
              /\ UpdateEdges(p, WantedEdges(p, callbacks, thr))
           \/ UNCHANGED <<lines, wake>>
    BY <1>7 DEF WaitEnd
  <2>4. callbacks \in SUBSET CallbackRecord /\ nextId' \in Nat
    BY <1>0, <2>3 DEF PartTypes
  <2> QED BY <2>1, <2>2, <2>3, <2>4, CallKeeps
<1>8. ASSUME NEW t \in Threads, ClosePinWakes(t)
      PROVE GpioInv'
  <2>1. /\ UNCHANGED <<lines, callbacks, nextId, control, watcher>> /\ wake' = TRUE
        /\ thread' = [thread EXCEPT ![t] = Idle]
    BY <1>8 DEF ClosePinWakes
  <2>2. PartTypes'
    BY <1>0, <2>1 DEF PartTypes, ThreadRecord, Idle
  <2> QED BY <1>0, <2>1, <2>2, WokenPolls DEF GpioInv, FilesOK, AskedFor
<1>9. ASSUME Dispose
      PROVE GpioInv'
  <2>1. /\ UNCHANGED <<lines, callbacks, nextId, thread, wake, watcher>>
        /\ control # "disposed"
    BY <1>9 DEF Dispose, MayCall
  <2> QED BY <1>0, <2>1 DEF GpioInv, PartTypes, FilesOK, AskedFor, PolledOK
<1>10. ASSUME DisposeWakes
       PROVE GpioInv'
  <2>1. /\ UNCHANGED <<lines, callbacks, nextId, thread, watcher>> /\ wake' = TRUE
        /\ control # "disposed"
    BY <1>10 DEF DisposeWakes
  <2> QED BY <1>0, <2>1, WokenPolls DEF GpioInv, PartTypes, FilesOK, AskedFor
<1>11. ASSUME DisposeJoined
       PROVE GpioInv'
  <2>1. /\ UNCHANGED <<callbacks, nextId, thread, wake, watcher>> /\ control' = "disposed"
        /\ lines' = [p \in Pins |-> Closed]
    BY <1>11 DEF DisposeJoined
  <2>2. PartTypes'
    BY <1>0, <2>1 DEF PartTypes, LineRecord, Closed
  <2>3. FilesOK' /\ PolledOK'
    BY <2>1 DEF FilesOK, PolledOK, Closed
  <2> QED BY <2>1, <2>2, <2>3 DEF GpioInv, AskedFor
<1>12. ASSUME Snapshot
       PROVE GpioInv'
  <2>1. UNCHANGED <<lines, callbacks, nextId, thread, wake, control>> /\ watcher.pc = "snapshot"
    BY <1>12 DEF Snapshot
  <2>2. CASE control \in {"stopping", "joining"}
    <3>1. watcher' = [NoWatcher EXCEPT !.pc = "exited"]
      BY <1>12, <2>2 DEF Snapshot
    <3>2. PartTypes' /\ watcher'.pc = "exited"
      BY <1>0, <2>1, <3>1 DEF PartTypes, NoWatcher, WatcherPc
    <3> QED BY <1>0, <2>1, <3>2, WatcherKeeps DEF PolledOK
  <2>3. CASE control \notin {"stopping", "joining"}
    <3>1. PICK watched : watched = {<<p, lines[p].fd>> : p \in {q \in Pins : lines[q].edges # {}}}
      OBVIOUS
    <3>2. watched \subseteq Pins \X (Fds \cup {NoFd})
      BY <1>0, <3>1 DEF PartTypes, LineRecord
    <3>3. watcher' = [watcher EXCEPT !.pc = "enter", !.watched = watched]
      BY <1>12, <2>3, <3>1 DEF Snapshot
    <3>4. PartTypes' /\ watcher'.pc = "enter" /\ watcher'.watched = watched
      BY <1>0, <2>1, <3>2, <3>3 DEF PartTypes, WatcherPc
    <3>5. PolledOK'
      BY <2>1, <3>1, <3>4 DEF PolledOK
    <3> QED BY <2>1, <3>4, <3>5, WatcherKeeps
  <2> QED BY <2>2, <2>3
<1>13. ASSUME PollReports, UNCHANGED <<lines, callbacks, nextId, thread, control, wake>>,
              watcher.pc # "none"
       PROVE GpioInv'
  <2>1. watcher' = [watcher EXCEPT !.pc = "drain", !.ready = Readable, !.woken = wake,
                                   !.watched = {}, !.attached = {}]
    BY <1>13 DEF PollReports
  <2>2. PartTypes' /\ watcher'.pc = "drain"
    BY <1>0, <1>13, <2>1 DEF PartTypes, WatcherPc
  <2> QED BY <1>0, <1>13, <2>2, WatcherKeeps DEF PolledOK
<1>14. ASSUME PollEnter
       PROVE GpioInv'
  <2>1. UNCHANGED <<lines, callbacks, nextId, thread, control, wake>> /\ watcher.pc = "enter"
    BY <1>14 DEF PollEnter
  <2>2. CASE PollReports
    BY <1>13, <2>1, <2>2
  <2>3. CASE ~PollReports
    <3>1. PICK attached : attached = {x[2] : x \in watcher.watched}
      OBVIOUS
    <3>2. watcher' = [watcher EXCEPT !.pc = "poll", !.attached = attached]
      BY <1>14, <2>3, <3>1 DEF PollEnter
    <3>3. attached \subseteq Fds \cup {NoFd}
      BY <1>0, <3>1 DEF PartTypes
    <3>4. PartTypes' /\ watcher'.pc = "poll" /\ watcher'.attached = attached
      BY <1>0, <2>1, <3>2, <3>3 DEF PartTypes, WatcherPc
    <3>5. \A p \in Pins : <<p, lines[p].fd>> \in watcher.watched => lines[p].fd \in attached
      BY <3>1
    <3>6. PolledOK'
      BY <1>0, <2>1, <3>4, <3>5 DEF PolledOK
    <3> QED BY <2>1, <3>4, <3>6, WatcherKeeps
  <2> QED BY <2>2, <2>3
<1>15. ASSUME PollReturns
       PROVE GpioInv'
  BY <1>13, <1>15 DEF PollReturns
<1>16. ASSUME NEW pc \in WatcherPc \ {"none", "enter", "poll"}, UNCHANGED <<lines, callbacks, nextId>>,
              control' = control, watcher.pc # "none", wake' \in BOOLEAN, PartTypes',
              watcher'.pc = pc
       PROVE GpioInv'
  BY <1>16, WatcherKeeps DEF PolledOK
<1>17. ASSUME Drain
       PROVE GpioInv'
  <2>1. /\ UNCHANGED <<lines, callbacks, nextId, thread, control>> /\ watcher.pc = "drain"
        /\ watcher' = [watcher EXCEPT !.pc = "lock", !.woken = FALSE]
    BY <1>17 DEF Drain
  <2>2. wake' \in BOOLEAN
    BY <1>17 DEF Drain
  <2>3. PartTypes' /\ watcher'.pc = "lock" /\ "lock" \in WatcherPc
    BY <1>0, <2>1, <2>2 DEF PartTypes, WatcherPc
  <2> QED BY <1>16, <2>1, <2>2, <2>3
<1>18. ASSUME LoopBegin \/ LoopEnd \/ CallNext \/ CallsDone \/ LoopSkip
       PROVE GpioInv'
  <2>1. UNCHANGED <<lines, callbacks, nextId, thread, control, wake>> /\ watcher.pc # "none"
    BY <1>18 DEF LoopBegin, LoopEnd, CallNext, CallsDone, LoopSkip
  <2>2. PartTypes' /\ watcher'.pc \in {"loop", "call", "snapshot"}
    BY <1>0, <1>18, <2>1 DEF PartTypes, WatcherPc, LoopBegin, LoopEnd, CallNext, CallsDone, LoopSkip
  <2>3. watcher'.pc \in WatcherPc \ {"none", "enter", "poll"} /\ wake' \in BOOLEAN
    BY <1>0, <2>1, <2>2 DEF WatcherPc, PartTypes
  <2> QED BY <1>16, <2>1, <2>2, <2>3
<1>19. ASSUME LoopRead
       PROVE GpioInv'
  <2>1. UNCHANGED <<lines, callbacks, nextId, control, wake>> /\ watcher.pc = "loop"
    BY <1>19 DEF LoopRead
  <2>2. PICK p \in Matching : LET f == NextReady[2]
                                  change == Head(events[f])
                              IN  /\ \E calls : watcher' = [watcher EXCEPT
                                       !.ready = @ \ {NextReady}, !.calls = @ \o calls]
                                  /\ thread' = [t \in Threads |->
                                       IF /\ thread[t].pc = "waiting" /\ thread[t].pin = p
                                          /\ change \in thread[t].types /\ thread[t].happened = None
                                       THEN [thread[t] EXCEPT !.happened = change] ELSE thread[t]]
    BY <1>19 DEF LoopRead
  <2>3. PICK change : thread' = [t \in Threads |->
                         IF /\ thread[t].pc = "waiting" /\ thread[t].pin = p
                            /\ change \in thread[t].types /\ thread[t].happened = None
                         THEN [thread[t] EXCEPT !.happened = change] ELSE thread[t]]
    BY <2>2
  <2>4. /\ thread' \in [Threads -> ThreadRecord]
        /\ \A t \in Threads : thread'[t].pc = "waiting" => thread'[t].pin \in Pins
    BY <1>0, <2>3 DEF PartTypes, ThreadRecord
  <2>5. PICK ready, calls : watcher' = [watcher EXCEPT !.ready = ready, !.calls = calls]
    BY <2>2
  <2>6. PartTypes' /\ watcher'.pc = "loop"
    BY <1>0, <2>1, <2>4, <2>5 DEF PartTypes
  <2>7. "loop" \in WatcherPc \ {"none", "enter", "poll"} /\ wake' \in BOOLEAN
    BY <1>0, <2>1 DEF WatcherPc, PartTypes
  <2> QED BY <1>16, <2>1, <2>6, <2>7
<1>20. ASSUME NEW p \in Pins, NEW change \in Changes, PinChanges(p, change)
       PROVE GpioInv'
  <2>1. UNCHANGED <<lines, callbacks, nextId, thread, control, wake, watcher>>
    BY <1>20 DEF PinChanges
  <2> QED BY <1>0, <2>1 DEF GpioInv, PartTypes, FilesOK, AskedFor, PolledOK
<1>21. CASE UNCHANGED vars
  BY <1>0, <1>21 DEF vars, GpioInv, PartTypes, FilesOK, AskedFor, PolledOK
<1> QED BY <1>1, <1>2, <1>3, <1>4, <1>5, <1>6, <1>7, <1>8, <1>9, <1>10, <1>11, <1>12, <1>14,
           <1>15, <1>17, <1>18, <1>19, <1>20, <1>21 DEF Next, Calls, DisposeNext, WatchNext

\* Whatever is opened, closed, reconfigured or removed around it, and whatever
\* the watcher is at, a registered callback has an open pin, a watcher, the edges
\* it asked for, and is polled.
THEOREM CallbacksAreHeard == Spec => []CallbacksHeard
BY InitGpio, NextGpio, HeardFollows, PTL DEF Spec

-----------------------------------------------------------------------------
\* The types of what the controller, the kernel and the watcher have queued: the
\* part of TypeOK that GpioInv leaves open.
QueueTypes ==
  /\ events \in [Fds -> Seq(Changes)]
  /\ callbacks \subseteq CallbackType /\ IsFiniteSet(callbacks)
  /\ nextId \in 1..(MaxId + 1)
  /\ control \in {"running", "stopping", "joining", "disposed"}
  /\ watcher.watched \subseteq Pins \X Fds /\ watcher.attached \subseteq Fds
  /\ watcher.ready \subseteq Pins \X Fds /\ watcher.woken \in BOOLEAN
  /\ watcher.calls \in Seq(CallbackType)
  /\ changed \in Nat

\* A line that is open has a file of the kernel's.
LEMMA OpenHasFile ==
  ASSUME GpioInv, NEW p \in Pins
  PROVE  lines[p] \in Line /\ (lines[p].edges # {} => lines[p].fd \in Fds)
BY DEF GpioInv, PartTypes, FilesOK, LineRecord, Line, Closed

\* The two together are the types.
LEMMA GpioTypesFollow == GpioInv /\ QueueTypes => TypeOK
<1> SUFFICES ASSUME GpioInv, QueueTypes PROVE TypeOK
  OBVIOUS
<1>1. lines \in [Pins -> Line]
  BY OpenHasFile DEF GpioInv, PartTypes
<1>2. watcher \in [pc : WatcherPc, watched : SUBSET (Pins \X Fds), attached : SUBSET Fds,
                   ready : SUBSET (Pins \X Fds), woken : BOOLEAN, calls : Seq(CallbackType)]
  BY DEF GpioInv, PartTypes, QueueTypes
<1> QED BY <1>1, <1>2 DEF GpioInv, PartTypes, ThreadRecord, QueueTypes, TypeOK

\* Nothing is queued at first, and every step keeps what is queued in its types.
LEMMA InitQueues == Init => QueueTypes
BY BoundsAssumption, FS_EmptySet DEF Init, QueueTypes, NoWatcher

\* Most steps leave the queues alone: at most the watcher's pc is another one.
LEMMA QueuesStay ==
  ASSUME QueueTypes, events' = events \/ events' = [f \in Fds |-> <<>>],
         callbacks' \subseteq callbacks, nextId' = nextId,
         control' \in {"running", "stopping", "joining", "disposed"},
         watcher'.watched = watcher.watched, watcher'.attached \subseteq watcher.attached,
         watcher'.ready \subseteq watcher.ready,
         watcher'.woken = watcher.woken, watcher'.calls = watcher.calls, changed' = changed
  PROVE  QueueTypes'
<1>1. IsFiniteSet(callbacks')
  BY FS_Subset DEF QueueTypes
<1>2. events' \in [Fds -> Seq(Changes)]
  <2>1. <<>> \in Seq(Changes)
    OBVIOUS
  <2> QED BY <2>1 DEF QueueTypes
<1> QED BY <1>1, <1>2 DEF QueueTypes

\* A queue of changes put in place of another one, and one of no file's.
LEMMA EventsKeep ==
  ASSUME events \in [Fds -> Seq(Changes)], NEW g, NEW queue \in Seq(Changes)
  PROVE  [events EXCEPT ![g] = queue] \in [Fds -> Seq(Changes)]
<1> PICK Queues : Queues = Seq(Changes)
  OBVIOUS
<1>1. events \in [Fds -> Queues] /\ queue \in Queues
  OBVIOUS
<1>2. [events EXCEPT ![g] = queue] \in [Fds -> Queues]
  BY <1>1
<1> QED BY <1>2

LEMMA EventsStay ==
  ASSUME events \in [Fds -> Seq(Changes)], NEW g, g \notin Fds, NEW queue
  PROVE  [events EXCEPT ![g] = queue] \in [Fds -> Seq(Changes)]
<1> PICK Queues : Queues = Seq(Changes)
  OBVIOUS
<1>1. events \in [Fds -> Queues]
  OBVIOUS
<1>2. [events EXCEPT ![g] = queue] \in [Fds -> Queues]
  BY <1>1
<1> QED BY <1>2

LEMMA NextQueues == GpioInv /\ QueueTypes /\ [Next]_vars => QueueTypes'
<1> SUFFICES ASSUME GpioInv, QueueTypes, [Next]_vars PROVE QueueTypes'
  OBVIOUS
<1>0. /\ watcher \in [pc : WatcherPc, watched : SUBSET (Pins \X (Fds \cup {NoFd})),
                      attached : SUBSET (Fds \cup {NoFd}), ready : {watcher.ready},
                      woken : {watcher.woken}, calls : {watcher.calls}]
      /\ wake \in BOOLEAN
  BY DEF GpioInv, PartTypes
<1>1. ASSUME NEW c \in callbacks, RemoveCallback(c)
      PROVE QueueTypes'
  BY <1>1, QueuesStay DEF RemoveCallback, QueueTypes
<1>2. ASSUME NEW p \in Pins, OpenPin(p) \/ (\E mode \in {"input", "output"} : SetPinMode(p, mode))
      PROVE QueueTypes'
  BY <1>2, QueuesStay DEF OpenPin, SetPinMode, QueueTypes
<1>3. ASSUME NEW p \in Pins, NEW types \in Types, AddCallback(p, types)
      PROVE QueueTypes'
  <2>1. /\ callbacks' = callbacks \cup {[id |-> nextId, pin |-> p, types |-> types]}
        /\ nextId' = nextId + 1 /\ nextId <= MaxId
        /\ UNCHANGED <<events, control, changed>> /\ StartWatcher
    BY <1>3 DEF AddCallback
  <2>2. nextId \in 1..MaxId /\ nextId' \in 1..(MaxId + 1)
    BY <2>1, BoundsAssumption DEF QueueTypes
  <2>3. callbacks' \subseteq CallbackType
    BY <2>1, <2>2 DEF QueueTypes, CallbackType, Types
  <2>4. IsFiniteSet(callbacks')
    BY <2>1, FS_AddElement DEF QueueTypes
  <2>5. /\ watcher'.watched = watcher.watched /\ watcher'.attached = watcher.attached
        /\ watcher'.ready = watcher.ready /\ watcher'.woken = watcher.woken
        /\ watcher'.calls = watcher.calls
    BY <1>0, <2>1 DEF StartWatcher
  <2> QED BY <2>1, <2>2, <2>3, <2>4, <2>5 DEF QueueTypes
<1>4. ASSUME NEW p \in Pins, NEW t \in Threads, ClosePin(t, p)
      PROVE QueueTypes'
  <2>1. /\ events' = [events EXCEPT ![lines[p].fd] = <<>>]
        /\ watcher' = [watcher EXCEPT !.attached = @ \ {lines[p].fd}]
        /\ callbacks' \subseteq callbacks /\ UNCHANGED <<nextId, control, changed>>
    BY <1>4 DEF ClosePin
  <2>2. /\ watcher'.watched = watcher.watched /\ watcher'.attached \subseteq watcher.attached
        /\ watcher'.ready = watcher.ready /\ watcher'.woken = watcher.woken
        /\ watcher'.calls = watcher.calls
    BY <1>0, <2>1
  <2>3. events' \in [Fds -> Seq(Changes)]
    <3>1. <<>> \in Seq(Changes) /\ events \in [Fds -> Seq(Changes)]
      BY DEF QueueTypes
    <3>2. [events EXCEPT ![lines[p].fd] = <<>>] \in [Fds -> Seq(Changes)]
      BY <3>1, EventsKeep
    <3> QED BY <2>1, <3>2
  <2>4. IsFiniteSet(callbacks')
    BY <2>1, FS_Subset DEF QueueTypes
  <2> QED BY <2>1, <2>2, <2>3, <2>4 DEF QueueTypes
<1>5. ASSUME NEW p \in Pins, NEW t \in Threads, NEW types \in Types, NEW timed \in BOOLEAN,
             WaitBegin(t, p, types, timed)
      PROVE QueueTypes'
  <2>1. UNCHANGED <<events, callbacks, nextId, control, changed>> /\ StartWatcher
    BY <1>5 DEF WaitBegin
  <2>2. /\ watcher'.watched = watcher.watched /\ watcher'.attached = watcher.attached
        /\ watcher'.ready = watcher.ready /\ watcher'.woken = watcher.woken
        /\ watcher'.calls = watcher.calls
    BY <1>0, <2>1 DEF StartWatcher
  <2> QED BY <2>1, <2>2, QueuesStay DEF QueueTypes
<1>6. ASSUME NEW t \in Threads, WaitEnd(t) \/ ClosePinWakes(t)
      PROVE QueueTypes'
  BY <1>6, QueuesStay DEF WaitEnd, ClosePinWakes, QueueTypes
<1>7. ASSUME Dispose \/ DisposeWakes \/ DisposeJoined
      PROVE QueueTypes'
  BY <1>7, QueuesStay DEF Dispose, DisposeWakes, DisposeJoined
<1>8. ASSUME Snapshot
      PROVE QueueTypes'
  <2>1. UNCHANGED <<events, callbacks, nextId, control, changed>>
    BY <1>8 DEF Snapshot
  <2>2. CASE control \in {"stopping", "joining"}
    <3>1. watcher' = [NoWatcher EXCEPT !.pc = "exited"]
      BY <1>8, <2>2 DEF Snapshot
    <3> QED BY <2>1, <3>1 DEF QueueTypes, NoWatcher
  <2>3. CASE control \notin {"stopping", "joining"}
    <3>1. PICK watched : watched = {<<p, lines[p].fd>> : p \in {q \in Pins : lines[q].edges # {}}}
      OBVIOUS
    <3>2. watched \subseteq Pins \X Fds
      BY <3>1, OpenHasFile
    <3>3. watcher' = [watcher EXCEPT !.pc = "enter", !.watched = watched]
      BY <1>8, <2>3, <3>1 DEF Snapshot
    <3>4. /\ watcher'.watched = watched /\ watcher'.attached = watcher.attached
          /\ watcher'.ready = watcher.ready /\ watcher'.woken = watcher.woken
          /\ watcher'.calls = watcher.calls
      BY <1>0, <3>3
    <3> QED BY <2>1, <3>2, <3>4 DEF QueueTypes
  <2> QED BY <2>2, <2>3
<1>9. ASSUME PollReports, UNCHANGED <<events, callbacks, nextId, control, changed>>
      PROVE QueueTypes'
  <2>1. PICK ready : ready = Readable
    OBVIOUS
  <2>2. ready \subseteq Pins \X Fds
    BY <2>1 DEF Readable, QueueTypes
  <2>3. watcher' = [watcher EXCEPT !.pc = "drain", !.ready = ready, !.woken = wake,
                                   !.watched = {}, !.attached = {}]
    BY <1>9, <2>1 DEF PollReports
  <2>4. /\ watcher'.watched = {} /\ watcher'.attached = {} /\ watcher'.ready = ready
        /\ watcher'.woken = wake /\ watcher'.calls = watcher.calls
    BY <1>0, <2>3
  <2> QED BY <1>0, <1>9, <2>2, <2>4 DEF QueueTypes
<1>10. ASSUME PollEnter
       PROVE QueueTypes'
  <2>1. UNCHANGED <<events, callbacks, nextId, control, changed>>
    BY <1>10 DEF PollEnter
  <2>2. CASE PollReports
    BY <1>9, <2>1, <2>2
  <2>3. CASE ~PollReports
    <3>1. PICK attached : attached = {x[2] : x \in watcher.watched}
      OBVIOUS
    <3>2. attached \subseteq Fds
      BY <3>1 DEF QueueTypes
    <3>3. watcher' = [watcher EXCEPT !.pc = "poll", !.attached = attached]
      BY <1>10, <2>3, <3>1 DEF PollEnter
    <3>4. /\ watcher'.watched = watcher.watched /\ watcher'.attached = attached
          /\ watcher'.ready = watcher.ready /\ watcher'.woken = watcher.woken
          /\ watcher'.calls = watcher.calls
      BY <1>0, <3>3
    <3> QED BY <2>1, <3>2, <3>4 DEF QueueTypes
  <2> QED BY <2>2, <2>3
<1>11. ASSUME PollReturns
       PROVE QueueTypes'
  BY <1>9, <1>11 DEF PollReturns
<1>12. ASSUME Drain
       PROVE QueueTypes'
  <2>1. /\ UNCHANGED <<events, callbacks, nextId, control, changed>>
        /\ watcher' = [watcher EXCEPT !.pc = "lock", !.woken = FALSE]
    BY <1>12 DEF Drain
  <2>2. /\ watcher'.watched = watcher.watched /\ watcher'.attached = watcher.attached
        /\ watcher'.ready = watcher.ready /\ watcher'.woken = FALSE
        /\ watcher'.calls = watcher.calls
    BY <1>0, <2>1
  <2> QED BY <2>1, <2>2 DEF QueueTypes
<1>13. ASSUME LoopBegin \/ LoopEnd \/ CallsDone \/ LoopSkip
       PROVE QueueTypes'
  <2>1. UNCHANGED <<events, callbacks, nextId, control, changed>>
    BY <1>13 DEF LoopBegin, LoopEnd, CallsDone, LoopSkip
  <2>2. /\ watcher'.watched = watcher.watched /\ watcher'.attached = watcher.attached
        /\ watcher'.ready \subseteq watcher.ready /\ watcher'.woken = watcher.woken
        /\ watcher'.calls = watcher.calls
    BY <1>0, <1>13 DEF LoopBegin, LoopEnd, CallsDone, LoopSkip
  <2> QED BY <2>1, <2>2, QueuesStay DEF QueueTypes
<1>14. ASSUME CallNext
       PROVE QueueTypes'
  <2>1. /\ UNCHANGED <<events, callbacks, nextId, control, changed>>
        /\ watcher' = [watcher EXCEPT !.calls = Tail(@)] /\ watcher.calls # <<>>
    BY <1>14 DEF CallNext
  <2>2. /\ watcher'.watched = watcher.watched /\ watcher'.attached = watcher.attached
        /\ watcher'.ready = watcher.ready /\ watcher'.woken = watcher.woken
        /\ watcher'.calls = Tail(watcher.calls)
    BY <1>0, <2>1
  <2>3. watcher'.calls \in Seq(CallbackType)
    BY <2>1, <2>2 DEF QueueTypes
  <2> QED BY <2>1, <2>2, <2>3 DEF QueueTypes
<1>15. ASSUME LoopRead
       PROVE QueueTypes'
  <2>1. UNCHANGED <<callbacks, nextId, control, changed>>
    BY <1>15 DEF LoopRead
  <2> PICK f : f = NextReady[2]
    OBVIOUS
  <2>2. PICK p, change, calls :
          /\ p \in Pins /\ calls \in CallsFor(p, change)
          /\ events[f] # <<>> /\ events' = [events EXCEPT ![f] = Tail(@)]
          /\ watcher' = [watcher EXCEPT !.ready = @ \ {NextReady}, !.calls = @ \o calls]
    <3>1. PICK p \in Matching : 
            /\ events[f] # <<>> /\ events' = [events EXCEPT ![f] = Tail(@)]
            /\ \E calls \in CallsFor(p, Head(events[f])) :
                 watcher' = [watcher EXCEPT !.ready = @ \ {NextReady}, !.calls = @ \o calls]
      BY <1>15 DEF LoopRead
    <3>2. p \in Pins
      BY DEF Matching
    <3> QED BY <3>1, <3>2
  <2>3. events' \in [Fds -> Seq(Changes)]
    <3>1. CASE f \in Fds
      <4>1. Tail(events[f]) \in Seq(Changes)
        BY <2>2, <3>1 DEF QueueTypes
      <4> QED BY <2>2, <4>1, EventsKeep DEF QueueTypes
    <3>2. CASE f \notin Fds
      BY <2>2, <3>2, EventsStay DEF QueueTypes
    <3> QED BY <3>1, <3>2
  <2>4. calls \in Seq(CallbackType)
    <3>1. PICK heard : /\ heard = {c \in callbacks : c.pin = p /\ change \in c.types}
                       /\ calls \in [1..Cardinality(heard) -> heard]
      BY <2>2 DEF CallsFor
    <3>2. IsFiniteSet(heard)
      <4>1. heard \subseteq callbacks
        BY <3>1
      <4> QED BY <4>1, FS_Subset DEF QueueTypes
    <3>3. Cardinality(heard) \in Nat /\ heard \subseteq CallbackType
      BY <3>1, <3>2, FS_CardinalityType DEF QueueTypes
    <3> PICK n \in Nat : n = Cardinality(heard)
      BY <3>3
    <3>4. calls \in [1..n -> CallbackType]
      BY <3>1, <3>3
    <3> QED BY <3>4
  <2>5. /\ watcher'.watched = watcher.watched /\ watcher'.attached = watcher.attached
        /\ watcher'.ready \subseteq watcher.ready /\ watcher'.woken = watcher.woken
        /\ watcher'.calls = watcher.calls \o calls
    BY <1>0, <2>2
  <2>6. watcher'.calls \in Seq(CallbackType)
    BY <2>4, <2>5 DEF QueueTypes
  <2> QED BY <2>1, <2>3, <2>5, <2>6 DEF QueueTypes
<1>16. ASSUME NEW p \in Pins, NEW change \in Changes, PinChanges(p, change)
       PROVE QueueTypes'
  <2>1. /\ UNCHANGED <<callbacks, nextId, control, watcher>> /\ changed' = changed + 1
        /\ change \in lines[p].edges
    BY <1>16 DEF PinChanges
  <2>2. PICK queue : /\ queue = Append(events[lines[p].fd], change)
                     /\ events' = [events EXCEPT ![lines[p].fd] =
                                     IF Len(queue) > MaxQueue THEN Tail(queue) ELSE queue]
    BY <1>16 DEF PinChanges
  <2>3. lines[p].fd \in Fds
    BY <2>1, OpenHasFile
  <2>4. queue \in Seq(Changes) /\ queue # <<>>
    BY <2>2, <2>3 DEF QueueTypes
  <2>5. events' \in [Fds -> Seq(Changes)]
    <3>1. (IF Len(queue) > MaxQueue THEN Tail(queue) ELSE queue) \in Seq(Changes)
      BY <2>4
    <3> QED BY <2>2, <3>1, EventsKeep DEF QueueTypes
  <2> QED BY <2>1, <2>5 DEF QueueTypes
<1>17. CASE UNCHANGED vars
  BY <1>17 DEF vars, QueueTypes
<1> QED BY <1>1, <1>2, <1>3, <1>4, <1>5, <1>6, <1>7, <1>8, <1>10, <1>11, <1>12, <1>13, <1>14,
           <1>15, <1>16, <1>17 DEF Next, Calls, DisposeNext, WatchNext

\* Lines, queues, callbacks, threads and the watcher keep their types: in
\* particular what the watcher polls and reads are files of the kernel's, never
\* the one of a closed line, and no callback's id passes the bound.
THEOREM GpioTypes == Spec => []TypeOK
BY InitGpio, NextGpio, InitQueues, NextQueues, GpioTypesFollow, PTL DEF Spec

=============================================================================

------------------------------- MODULE Camera -------------------------------
(***************************************************************************)
(* Camera.cpp: a webcam's pictures.  A worker thread takes the frames and  *)
(* calls the frame event; Capture starts it and waits for a frame;         *)
(* SetResolution and the destructor halt it; without use it ends by        *)
(* itself.  All of it is guarded by one mutex, which Capture's wait, the   *)
(* join in Halt and the frame event let go of - and Run's join does not.   *)
(*                                                                         *)
(* A worker's turn (from poll to the end of the loop) is one step.  The    *)
(* 3 s of KeepRunning may pass at any time, as may a Capture's timeout.    *)
(* Camera controls, formats and the JPEG conversion are left out.          *)
(***************************************************************************)
EXTENDS Integers, FiniteSets

CONSTANTS
  Threads,       \* the program's
  ThreadCalls,   \* thread -> what it calls
  HandlerCalls,  \* what the frame event's handler calls
  MaxStarts,     \* bound: how often the camera starts
  MaxFrames,     \* bound: the frames it sends
  None           \* no worker, nobody

Workers == 1..MaxStarts
Callers == Threads \cup Workers
Operations == {"capture", "start", "stop", "set", "destroy"}

ASSUME CallsAssumption ==
  /\ ThreadCalls \in [Threads -> SUBSET Operations] /\ HandlerCalls \subseteq Operations
ASSUME BoundsAssumption ==
  MaxStarts \in Nat /\ MaxFrames \in Nat /\ Workers \cap Threads = {} /\ None \notin Callers

VARIABLES
  mutex,         \* who holds it between two steps
  running,       \* the camera sends pictures
  events,        \* StartStreaming
  stopping,
  failed,
  session,       \* how often the camera was started; its worker has that number
  settled,       \* the last session whose WarmUp has passed
  latestNumber,
  latest,        \* the newest frame: its number, and session and settled at its time
  worker,        \* the std::thread that can be joined
  workers,       \* worker -> where it is
  call,          \* caller -> its call
  sent,          \* frames that the camera has sent
  gone,          \* unplugged
  threw,         \* the last start of the camera failed (history)
  hurt,          \* what spoilt the session: "broken", "crossed" (history)
  destroyed      \* who has destroyed the camera

vars == <<mutex, running, events, stopping, failed, session, settled, latestNumber, latest,
          worker, workers, call, sent, gone, threw, hurt, destroyed>>

-----------------------------------------------------------------------------
NoCall == [op |-> "none", pc |-> "none", after |-> 0, ready |-> 0, from |-> 0,
           joining |-> None, again |-> FALSE]

Init ==
  /\ mutex = None
  /\ running = FALSE /\ events = FALSE /\ stopping = FALSE /\ failed = FALSE
  /\ session = 0 /\ settled = 0
  /\ latestNumber = 0 /\ latest = [number |-> 0, session |-> 0, settled |-> 0]
  /\ worker = None
  /\ workers = [w \in Workers |-> "new"]
  /\ call = [c \in Callers |-> NoCall]
  /\ sent = 0 /\ gone = FALSE /\ threw = FALSE /\ hurt = "no"
  /\ destroyed = None

\* A program's thread calls what it likes until somebody destroys the camera;
\* a handler calls while its frame event goes on.
MayCall(c, op) ==
  /\ mutex = None /\ destroyed = None /\ call[c] = NoCall
  /\ IF c \in Workers
     THEN op \in HandlerCalls /\ workers[c] = "frame"
     ELSE op \in ThreadCalls[c] /\ \A t \in Threads : call[t].op # "destroy"

Returns(c) == call' = [call EXCEPT ![c] = NoCall]

-----------------------------------------------------------------------------
\* Run, with the mutex held: begun by Capture, StartStreaming, SetResolution
BeginRun(c, record) ==
  /\ mutex' = c
  /\ call' = [call EXCEPT ![c] = [record EXCEPT !.pc = "run"]]

\* What each caller does when Run has come back
AfterRun(c, sess) ==
  /\ mutex' = None
  /\ IF call[c].op # "capture" THEN Returns(c)
     ELSE call' = [call EXCEPT
            ![c].pc = "wait",
            ![c].after = IF call[c].again THEN @ ELSE latestNumber,
            ![c].ready = sess]

\* Somebody waits in Halt, without the mutex
Halts == \E d \in Callers : call[d].pc = "halting"

RunningAlready(c) ==
  /\ call[c].pc = "run"
  /\ running
  /\ AfterRun(c, session)
  /\ hurt' = IF call[c].op = "start" /\ Halts THEN "crossed" ELSE hurt
  /\ UNCHANGED <<running, events, stopping, failed, session, settled, latestNumber, latest,
                 worker, workers, sent, gone, threw, destroyed>>

\* worker.join() has come back, or there was nobody to join
Joined == worker # None => workers[worker] = "ended"

RunStarts(c) ==
  /\ call[c].pc = "run"
  /\ ~running /\ Joined /\ ~gone
  /\ session < MaxStarts
  /\ running' = TRUE /\ failed' = FALSE /\ stopping' = FALSE
  /\ session' = session + 1
  /\ worker' = session + 1
  /\ workers' = [workers EXCEPT ![session + 1] = "poll"]
  /\ AfterRun(c, session + 1)
  /\ threw' = FALSE
  /\ hurt' = IF Halts THEN "crossed" ELSE "no"
  /\ UNCHANGED <<events, settled, latestNumber, latest, sent, gone, destroyed>>

\* Start throws; or the handler's worker would join itself
RunThrows(c) ==
  /\ call[c].pc = "run"
  /\ ~running
  /\ Joined \/ worker = c
  /\ worker' = IF worker = c THEN worker ELSE None
  /\ mutex' = None
  /\ Returns(c)
  /\ threw' = TRUE
  /\ UNCHANGED <<running, events, stopping, failed, session, settled, latestNumber, latest,
                 workers, sent, gone, hurt, destroyed>>

-----------------------------------------------------------------------------
Capture(c) ==
  /\ MayCall(c, "capture") /\ ~gone
  /\ BeginRun(c, [NoCall EXCEPT !.op = "capture", !.from = sent])
  /\ UNCHANGED <<running, events, stopping, failed, session, settled, latestNumber, latest,
                 worker, workers, sent, gone, threw, hurt, destroyed>>

\* Mutant: the frame before the call will do.
HasOldPicture(c) == latestNumber > 0 /\ latest.settled >= call[c].ready

\* latestNumber > after && latestTime >= ready
HasPicture(c) == latestNumber > call[c].after /\ latest.settled >= call[c].ready

Waiting(c) == call[c].pc = "wait"

CaptureReturns(c) ==
  /\ Waiting(c) /\ mutex = None
  /\ HasPicture(c)
  /\ Returns(c)
  /\ UNCHANGED <<mutex, running, events, stopping, failed, session, settled, latestNumber,
                 latest, worker, workers, sent, gone, threw, hurt, destroyed>>

\* Unplugged, or the time is up
CaptureThrows(c) ==
  /\ Waiting(c) /\ mutex = None
  /\ ~HasPicture(c)
  /\ Returns(c)
  /\ UNCHANGED <<mutex, running, events, stopping, failed, session, settled, latestNumber,
                 latest, worker, workers, sent, gone, threw, hurt, destroyed>>

\* The camera stopped (idle) while this waited
CaptureRunsAgain(c) ==
  /\ Waiting(c) /\ mutex = None
  /\ ~HasPicture(c)
  /\ ~failed /\ ~gone /\ ~running
  /\ BeginRun(c, [call[c] EXCEPT !.again = TRUE])
  /\ UNCHANGED <<running, events, stopping, failed, session, settled, latestNumber, latest,
                 worker, workers, sent, gone, threw, hurt, destroyed>>

-----------------------------------------------------------------------------
StartStreaming(c) ==
  /\ MayCall(c, "start") /\ ~gone
  /\ events' = TRUE
  /\ BeginRun(c, [NoCall EXCEPT !.op = "start"])
  /\ UNCHANGED <<running, stopping, failed, session, settled, latestNumber, latest,
                 worker, workers, sent, gone, threw, hurt, destroyed>>

StopStreaming(c) ==
  /\ MayCall(c, "stop")
  /\ events' = FALSE
  /\ UNCHANGED <<mutex, running, stopping, failed, session, settled, latestNumber, latest,
                 worker, workers, call, sent, gone, threw, hurt, destroyed>>

-----------------------------------------------------------------------------
\* Mutants: Halt does not tell the worker, or does not wait for it.
HaltQuietly(c, op) ==
  /\ stopping' = stopping
  /\ worker' = None
  /\ IF worker \in {None, c}
     THEN mutex' = c /\ call' = [call EXCEPT ![c] = [NoCall EXCEPT !.op = op, !.pc = "halted"]]
     ELSE mutex' = None /\ call' = [call EXCEPT ![c] =
            [NoCall EXCEPT !.op = op, !.pc = "halting", !.joining = worker]]

HaltDetaches(c, op) ==
  /\ stopping' = TRUE
  /\ worker' = None
  /\ mutex' = c
  /\ call' = [call EXCEPT ![c] = [NoCall EXCEPT !.op = op, !.pc = "halted"]]

\* Halt: the worker that called it is detached; another one is joined, without
\* the mutex.
Halt(c, op) ==
  /\ stopping' = TRUE
  /\ worker' = None
  /\ IF worker \in {None, c}
     THEN mutex' = c /\ call' = [call EXCEPT ![c] = [NoCall EXCEPT !.op = op, !.pc = "halted"]]
     ELSE mutex' = None /\ call' = [call EXCEPT ![c] =
            [NoCall EXCEPT !.op = op, !.pc = "halting", !.joining = worker]]

\* Mutant: the lock is not taken again after the join.
HaltJoinsUnlocked(c) ==
  /\ call[c].pc = "halting" /\ mutex = None
  /\ workers[call[c].joining] = "ended"
  /\ mutex' = None
  /\ call' = [call EXCEPT ![c].pc = "halted"]
  /\ UNCHANGED <<running, events, stopping, failed, session, settled, latestNumber, latest,
                 worker, workers, sent, gone, threw, hurt, destroyed>>

HaltJoins(c) ==
  /\ call[c].pc = "halting" /\ mutex = None
  /\ workers[call[c].joining] = "ended"
  /\ mutex' = c
  /\ call' = [call EXCEPT ![c].pc = "halted"]
  /\ UNCHANGED <<running, events, stopping, failed, session, settled, latestNumber, latest,
                 worker, workers, sent, gone, threw, hurt, destroyed>>

\* SetResolution of a camera that stands still
SetsStill(c) ==
  /\ MayCall(c, "set")
  /\ ~running
  /\ latestNumber' = 0
  /\ UNCHANGED <<mutex, running, events, stopping, failed, session, settled, latest,
                 worker, workers, call, sent, gone, threw, hurt, destroyed>>

SetResolution(c) ==
  /\ MayCall(c, "set")
  /\ running
  /\ Halt(c, IF events THEN "set" ELSE "setOnly")
  /\ UNCHANGED <<running, events, failed, session, settled, latestNumber, latest,
                 workers, sent, gone, threw, hurt, destroyed>>

\* Mutant: the camera that streamed stays still.
ResetsOnly(c) ==
  /\ call[c].pc = "halted" /\ call[c].op # "destroy"
  /\ running' = FALSE
  /\ latestNumber' = 0
  /\ mutex' = None /\ Returns(c)
  /\ UNCHANGED <<events, stopping, failed, session, settled, latest,
                 worker, workers, sent, gone, threw, hurt, destroyed>>

\* ... released if somebody started it meanwhile, and started if it streamed
Resets(c) ==
  /\ call[c].pc = "halted" /\ call[c].op # "destroy"
  /\ running' = FALSE
  /\ latestNumber' = 0
  /\ IF call[c].op = "set" THEN BeginRun(c, call[c]) ELSE mutex' = None /\ Returns(c)
  /\ UNCHANGED <<events, stopping, failed, session, settled, latest,
                 worker, workers, sent, gone, threw, hurt, destroyed>>

\* The destructor.  The program destroys a camera that no other thread of its
\* own is in.
Destroy(c) ==
  /\ MayCall(c, "destroy")
  /\ \A t \in Threads : call[t] = NoCall
  /\ events' = FALSE
  /\ Halt(c, "destroy")
  /\ UNCHANGED <<running, failed, session, settled, latestNumber, latest,
                 workers, sent, gone, threw, hurt, destroyed>>

Destroyed(c) ==
  /\ call[c].pc = "halted" /\ call[c].op = "destroy"
  /\ running' = FALSE
  /\ mutex' = None /\ Returns(c)
  /\ destroyed' = c
  /\ UNCHANGED <<events, stopping, failed, session, settled, latestNumber, latest,
                 worker, workers, sent, gone, threw, hurt>>

-----------------------------------------------------------------------------
\* Work: one turn of the loop, with the mutex held
Turns(w) == workers[w] = "poll" /\ mutex = None

Release(w) ==
  /\ running' = FALSE
  /\ workers' = [workers EXCEPT ![w] = "ended"]

\* Stopped; or idle for longer than KeepRunning
WorkerStops(w) ==
  /\ Turns(w)
  /\ stopping \/ ~events
  /\ Release(w)
  /\ UNCHANGED <<mutex, events, stopping, failed, session, settled, latestNumber, latest,
                 worker, call, sent, gone, threw, hurt, destroyed>>

\* VIDIOC_DQBUF fails: unplugged, no camera that runs, or one that is broken
WorkerFails(w) ==
  /\ Turns(w)
  /\ ~stopping
  /\ failed' = TRUE
  /\ hurt' = IF running /\ ~gone THEN "broken" ELSE hurt
  /\ Release(w)
  /\ UNCHANGED <<mutex, events, stopping, session, settled, latestNumber, latest,
                 worker, call, sent, gone, threw, destroyed>>

\* A good frame.  While streaming the frame event is called without the mutex.
WorkerTakes(w) ==
  /\ Turns(w)
  /\ ~stopping /\ running /\ ~gone
  /\ sent < MaxFrames
  /\ sent' = sent + 1
  /\ latestNumber' = latestNumber + 1
  /\ latest' = [number |-> sent + 1, session |-> session, settled |-> settled]
  /\ workers' = [workers EXCEPT ![w] = IF events THEN "frame" ELSE "poll"]
  /\ UNCHANGED <<mutex, running, events, stopping, failed, session, settled,
                 worker, call, gone, threw, hurt, destroyed>>

HandlerReturns(w) ==
  /\ workers[w] = "frame"
  /\ call[w] = NoCall
  /\ workers' = [workers EXCEPT ![w] = "poll"]
  /\ UNCHANGED <<mutex, running, events, stopping, failed, session, settled, latestNumber,
                 latest, worker, call, sent, gone, threw, hurt, destroyed>>

WarmUpPasses ==
  /\ settled < session
  /\ settled' = settled + 1
  /\ UNCHANGED <<mutex, running, events, stopping, failed, session, latestNumber,
                 latest, worker, workers, call, sent, gone, threw, hurt, destroyed>>

Unplug ==
  /\ ~gone
  /\ gone' = TRUE
  /\ UNCHANGED <<mutex, running, events, stopping, failed, session, settled, latestNumber,
                 latest, worker, workers, call, sent, threw, hurt, destroyed>>

-----------------------------------------------------------------------------
Calls(c) ==
  \/ Capture(c) \/ StartStreaming(c) \/ StopStreaming(c)
  \/ SetsStill(c) \/ SetResolution(c) \/ Destroy(c)

GoesOn(c) ==
  \/ RunningAlready(c) \/ RunStarts(c) \/ RunThrows(c)
  \/ CaptureReturns(c) \/ CaptureThrows(c) \/ CaptureRunsAgain(c)
  \/ HaltJoins(c) \/ Resets(c) \/ Destroyed(c)

Work(w) == WorkerStops(w) \/ WorkerFails(w) \/ WorkerTakes(w) \/ HandlerReturns(w)

Next ==
  \/ \E c \in Callers : Calls(c) \/ GoesOn(c)
  \/ \E w \in Workers : Work(w)
  \/ WarmUpPasses \/ Unplug

\* Whoever waits for the mutex gets it, a Capture's time passes, a handler
\* comes back however many calls it makes.  A camera need not break.
Fairness ==
  /\ \A c \in Callers : SF_vars(GoesOn(c))
  /\ \A w \in Workers :
       /\ SF_vars(WorkerStops(w)) /\ SF_vars(HandlerReturns(w))
       /\ SF_vars(WorkerFails(w) /\ (gone \/ ~running))

Spec == Init /\ [][Next]_vars /\ Fairness

-----------------------------------------------------------------------------
TypeOK ==
  /\ mutex \in Callers \cup {None}
  /\ running \in BOOLEAN /\ events \in BOOLEAN /\ stopping \in BOOLEAN /\ failed \in BOOLEAN
  /\ session \in 0..MaxStarts /\ settled \in 0..session
  /\ sent \in 0..MaxFrames /\ latestNumber \in 0..latest.number
  /\ latest \in [number : 0..sent, session : 0..session, settled : 0..session]
  /\ worker \in Workers \cup {None}
  /\ workers \in [Workers -> {"new", "poll", "frame", "ended"}]
  /\ \A w \in Workers : workers[w] = "new" <=> w > session
  /\ call \in [Callers -> [op : Operations \cup {"none", "setOnly"},
                           pc : {"none", "run", "wait", "halting", "halted"},
                           after : 0..MaxFrames, ready : 0..session, from : 0..sent,
                           joining : Workers \cup {None}, again : BOOLEAN]]
  /\ \A c \in Callers : mutex = c <=> call[c].pc \in {"run", "halted"}
  /\ gone \in BOOLEAN /\ hurt \in {"no", "broken", "crossed"}
  /\ destroyed \in Callers \cup {None}

\* "Stops the camera (a frame being delivered finishes first)" (Camera.h:49):
\* after the destructor no frame event is called or goes on, but for the one
\* that destroyed the camera.
FrameFinishesFirst ==
  destroyed # None => \A w \in Workers \ {destroyed} : workers[w] # "frame"

\* "A new frame, after the auto exposure settled" (Camera.cpp:576): what Capture
\* returns came after the call, and after its session's WarmUp.
GoodPicture ==
  [][\A c \in Callers : CaptureReturns(c) =>
       latest.number > call[c].from /\ latest.settled >= latest.session]_vars

\* While it streams the camera runs and a worker takes its frames, through
\* changes of the resolution and idle stops (Camera.cpp:331, 550): unless it is
\* unplugged or broken (346), a call is under way that stops or starts it, Start
\* threw an error, or it was started while SetResolution waited in Halt, which
\* then stops it (541).
StreamingRuns ==
  (/\ events /\ ~gone /\ destroyed = None /\ ~threw /\ hurt = "no"
   /\ \A c \in Callers : call[c].pc \notin {"run", "halting", "halted"})
    => running /\ \E w \in Workers : workers[w] \in {"poll", "frame"}

\* Every call of the program's threads comes back: nobody waits for a thread that
\* waits for the mutex, or that was not told to stop (Camera.cpp:298, 317).
CallsReturn == \A t \in Threads : (call[t] # NoCall) ~> (call[t] = NoCall)

\* "ended by itself (idle)" (Camera.cpp:298): the worker that Run joins, with the
\* mutex held, does not need the mutex any more.
RunJoinsEnded ==
  \A c \in Callers : call[c].pc = "run" /\ ~running => Joined

=============================================================================

---------------------------- MODULE Camera_proofs ----------------------------
(***************************************************************************)
(* Proofs about Camera for any threads, calls, starts and frames: its      *)
(* types, that the destructor waits for the frame event, that a streaming  *)
(* camera runs, and that Capture's picture is new.                         *)
(***************************************************************************)
EXTENDS Camera, TLAPS

-----------------------------------------------------------------------------
\* "A handler may take a picture, or stop" (Camera.cpp:369): stop the stream, or
\* destroy the camera.
HandlerTakesOrStops == HandlerCalls \subseteq {"capture", "stop", "destroy"}

Live(w) == workers[w] \in {"poll", "frame"}

\* A thread is in a call of its own, at a step of that call.
Called(c) == IF call[c].op = "setOnly" THEN "set" ELSE call[c].op
CallOK(c) ==
  /\ call[c].pc = "none" <=> call[c].op = "none"
  /\ call[c].op = "none" => call[c] = NoCall
  /\ call[c].pc = "run" => call[c].op \in {"capture", "start", "set"}
  /\ call[c].pc = "wait" => call[c].op = "capture"
  /\ call[c].pc \in {"halting", "halted"} => call[c].op \in {"set", "setOnly", "destroy"}
  /\ call[c].op \in {"setOnly", "destroy"} => call[c].pc \in {"halting", "halted"}
  /\ c \in Workers => Called(c) \in HandlerCalls \cup {"none"}
  /\ c \in Workers /\ call[c].op # "none" => workers[c] = "frame"
  /\ c \in Threads => Called(c) \in ThreadCalls[c] \cup {"none"}
CallsOK == \A c \in Callers : CallOK(c)

\* A picture that came during the call is counted above the call's first one.
PictureIsNew ==
  \A c \in Callers :
    call[c].pc = "wait" \/ (call[c].pc = "run" /\ call[c].again) =>
      latest.number > call[c].from \/ latestNumber <= call[c].after

\* A worker that runs is one that Halt will wait for, or a thread waits for it,
\* or it destroys the camera itself.
Placed ==
  destroyed = None => \A w \in Workers : Live(w) =>
    \/ worker = w
    \/ \E t \in Threads : call[t].pc = "halting" /\ call[t].joining = w
    \/ call[w].pc = "halted"

\* One caller destroys the camera, after the last call of the others and with
\* the events off; it waits for the one frame event that goes on.
Destroying ==
  \A c \in Callers : call[c].op = "destroy" =>
    /\ destroyed = None /\ ~events
    /\ \A t \in Threads \ {c} : call[t] = NoCall
    /\ \A d \in Callers : call[d].op = "destroy" => d = c
    /\ \A w \in Workers \ {c} : workers[w] = "frame" =>
         call[c].pc = "halting" /\ call[c].joining = w

WorkersHold == \A w \in Workers : call[w].pc # "halting"

AfterDestroy ==
  destroyed # None =>
    ~events /\ \A c \in Callers : call[c] = NoCall

FrameInv == /\ TypeOK /\ CallsOK /\ Placed /\ Destroying /\ WorkersHold /\ AfterDestroy
            /\ FrameFinishesFirst

Starts(c) == call[c].pc = "run" /\ call[c].op = "start"
WillRun(c) == call[c].pc = "run" \/ (call[c].pc \in {"halting", "halted"} /\ call[c].op = "set")

\* While nothing has spoilt the session: it has its worker as long as the camera
\* runs; somebody who stops the worker is still there; whoever lets the camera
\* stand still found it not streaming, and who starts it meanwhile spoils the
\* session; a camera that streams runs, or somebody is about to run it.
StreamOK ==
  /\ running => session \in Workers /\ Live(session)
  /\ running /\ stopping => \E c \in Callers : call[c].pc \in {"halting", "halted"}
  /\ \A c \in Callers : call[c].op \in {"setOnly", "destroy"} =>
       ~events \/ threw \/ \E d \in Callers : Starts(d)
  /\ events /\ ~gone /\ ~threw => running \/ \E c \in Callers : WillRun(c)
StreamInv == destroyed = None /\ hurt = "no" => StreamOK

-----------------------------------------------------------------------------
CallRecords ==
  [op : Operations \cup {"none", "setOnly"}, pc : {"none", "run", "wait", "halting", "halted"},
   after : 0..MaxFrames, ready : 0..session, from : 0..sent,
   joining : Workers \cup {None}, again : BOOLEAN]

\* The types of all but the calls
Flags ==
  /\ running \in BOOLEAN /\ events \in BOOLEAN /\ stopping \in BOOLEAN /\ failed \in BOOLEAN
  /\ session \in 0..MaxStarts /\ settled \in 0..session
  /\ sent \in 0..MaxFrames /\ latestNumber \in 0..latest.number
  /\ latest \in [number : 0..sent, session : 0..session, settled : 0..session]
  /\ worker \in Workers \cup {None}
  /\ workers \in [Workers -> {"new", "poll", "frame", "ended"}]
  /\ \A w \in Workers : workers[w] = "new" <=> w > session
  /\ gone \in BOOLEAN /\ hurt \in {"no", "broken", "crossed"}
  /\ destroyed \in Callers \cup {None}

\* Whoever is at a step under the mutex holds it.
Holds == mutex \in Callers \cup {None} /\ \A c \in Callers : mutex = c <=> call[c].pc \in {"run", "halted"}

LEMMA Types == TypeOK <=> Flags /\ Holds /\ call \in [Callers -> CallRecords]
BY DEF TypeOK, Flags, Holds, CallRecords

LEMMA TypesNext == TypeOK' <=> Flags' /\ Holds' /\ call' \in [Callers -> CallRecords']
BY DEF TypeOK, Flags, Holds, CallRecords

LEMMA NoCallIs ==
  /\ NoCall.op = "none" /\ NoCall.pc = "none" /\ NoCall.after = 0 /\ NoCall.ready = 0
  /\ NoCall.from = 0 /\ NoCall.joining = None /\ NoCall.again = FALSE
BY DEF NoCall

LEMMA Inside ==
  ASSUME TypeOK
  PROVE  /\ NoCall \in CallRecords /\ call \in [Callers -> CallRecords] /\ Holds /\ Flags
         /\ session \in 0..MaxStarts /\ MaxStarts \in Nat /\ sent \in 0..MaxFrames /\ MaxFrames \in Nat
         /\ latestNumber \in 0..sent /\ latestNumber \in 0..MaxFrames
         /\ None \notin Callers /\ Workers \subseteq Callers /\ Workers \cap Threads = {}
         /\ Threads \subseteq Callers
<1>1. Flags /\ call \in [Callers -> CallRecords] /\ Holds
  BY Types
<1>2. NoCall \in CallRecords
  BY <1>1, BoundsAssumption DEF Flags, CallRecords, NoCall
<1> QED BY <1>1, <1>2, BoundsAssumption DEF Flags, Callers

LEMMA ZeroNumber == ASSUME TypeOK PROVE 0 \in 0..latest.number
<1>1. latest.number \in 0..sent /\ sent \in 0..MaxFrames /\ MaxFrames \in Nat
  BY Inside DEF Flags
<1> QED BY <1>1

LEMMA Growing ==
  ASSUME TypeOK, session' >= session, sent' >= sent, session' \in 0..MaxStarts, sent' \in 0..MaxFrames
  PROVE  CallRecords \subseteq CallRecords' /\ NoCall \in CallRecords'
<1>1. CallRecords \subseteq CallRecords'
  BY Inside DEF CallRecords
<1> QED BY <1>1, Inside

\* The call of c is r now, and c, if anybody, held the mutex and holds it.
Moves(c, r) ==
  /\ mutex \in {None, c} /\ mutex' = IF r.pc \in {"run", "halted"} THEN c ELSE None
  /\ call' \in [Callers -> CallRecords'] /\ call'[c] = r
  /\ \A d \in Callers \ {c} : call'[d] = call[d]

LEMMA MovesIs ==
  ASSUME TypeOK, NEW c \in Callers, NEW r \in CallRecords', call' = [call EXCEPT ![c] = r],
         CallRecords \subseteq CallRecords', mutex \in {None, c},
         mutex' = IF r.pc \in {"run", "halted"} THEN c ELSE None
  PROVE  Moves(c, r) /\ Holds'
<1>1. call \in [Callers -> CallRecords] /\ Holds /\ None \notin Callers
  BY Inside
<1>2. Moves(c, r)
  BY <1>1 DEF Moves
<1>3. Holds'
  <2> SUFFICES ASSUME NEW d \in Callers PROVE mutex' = d <=> call'[d].pc \in {"run", "halted"}
    BY <1>1 DEF Holds
  <2>1. CASE d = c
    BY <2>1, <1>1, <1>2 DEF Moves
  <2>2. CASE d # c
    BY <2>2, <1>1, <1>2 DEF Moves, Holds
  <2> QED BY <2>1, <2>2
<1> QED BY <1>2, <1>3

-----------------------------------------------------------------------------
\* What the parts of a call do to it.
LEMMA ReturnsIs ==
  ASSUME TypeOK, NEW c \in Callers, Returns(c), mutex \in {None, c}, mutex' = None,
         UNCHANGED <<session, sent>>
  PROVE  Moves(c, NoCall) /\ Holds'
<1>1. CallRecords \subseteq CallRecords' /\ NoCall \in CallRecords'
  BY Inside, Growing
<1> QED BY <1>1, MovesIs, NoCallIs DEF Returns

\* A call that waits, or runs, from the record r.
Waits(r, sess) ==
  [r EXCEPT !.pc = "wait", !.after = IF r.again THEN r.after ELSE latestNumber, !.ready = sess]
Runs(r) == [r EXCEPT !.pc = "run"]
Halting(op, w) == [NoCall EXCEPT !.op = op, !.pc = "halting", !.joining = w]
Halted(op) == [NoCall EXCEPT !.op = op, !.pc = "halted"]
Joins(r) == [r EXCEPT !.pc = "halted"]

LEMMA Fields ==
  ASSUME TypeOK, NEW r \in CallRecords, NEW sess, NEW op, NEW w
  PROVE  /\ Waits(r, sess).pc = "wait" /\ Waits(r, sess).op = r.op /\ Waits(r, sess).from = r.from
         /\ Waits(r, sess).again = r.again /\ Waits(r, sess).ready = sess
         /\ Waits(r, sess).after = IF r.again THEN r.after ELSE latestNumber
         /\ Runs(r).pc = "run" /\ Runs(r).op = r.op /\ Runs(r).from = r.from /\ Runs(r).again = r.again
         /\ Runs(r).after = r.after
         /\ Halting(op, w).pc = "halting" /\ Halting(op, w).op = op /\ Halting(op, w).joining = w
         /\ Halted(op).pc = "halted" /\ Halted(op).op = op
         /\ Joins(r).pc = "halted" /\ Joins(r).op = r.op /\ Joins(r).joining = r.joining
BY DEF CallRecords, Waits, Runs, Halting, Halted, Joins, NoCall

LEMMA Typed ==
  ASSUME TypeOK, NEW r \in CallRecords
  PROVE  /\ Runs(r) \in CallRecords /\ Joins(r) \in CallRecords
         /\ \A sess \in 0..session : Waits(r, sess) \in CallRecords
         /\ \A op \in {"set", "setOnly", "destroy"} : Halted(op) \in CallRecords
         /\ \A op \in {"set", "setOnly", "destroy"}, w \in Workers : Halting(op, w) \in CallRecords
<1>1. /\ Runs(r) \in CallRecords /\ Joins(r) \in CallRecords
      /\ \A sess \in 0..session : Waits(r, sess) \in CallRecords
  BY Inside DEF CallRecords, Runs, Joins, Waits
<1>2. NoCall \in CallRecords
  BY Inside
<1>3. \A op \in {"set", "setOnly", "destroy"} : Halted(op) \in CallRecords
  BY <1>2 DEF CallRecords, Halted, Operations
<1>4. \A op \in {"set", "setOnly", "destroy"}, w \in Workers : Halting(op, w) \in CallRecords
  BY <1>2 DEF CallRecords, Halting, Operations
<1> QED BY <1>1, <1>3, <1>4

-----------------------------------------------------------------------------
\* What every step does to its caller's call.
LEMMA AfterRunIs ==
  ASSUME TypeOK, NEW c \in Callers, call[c].pc = "run", NEW sess \in 0..session', AfterRun(c, sess),
         session' >= session, session' \in 0..MaxStarts, UNCHANGED sent
  PROVE  /\ call[c] \in CallRecords /\ mutex = c /\ Holds'
         /\ call[c].op # "capture" => Moves(c, NoCall)
         /\ call[c].op = "capture" => Moves(c, Waits(call[c], sess))
<1>1. /\ call[c] \in CallRecords /\ call \in [Callers -> CallRecords] /\ mutex = c /\ NoCall \in CallRecords'
      /\ CallRecords \subseteq CallRecords' /\ latestNumber \in 0..MaxFrames
  BY Inside, Growing DEF Holds
<1>2. mutex' = None
  BY DEF AfterRun
<1>3. CASE call[c].op # "capture"
  <2>1. call' = [call EXCEPT ![c] = NoCall]
    BY <1>3 DEF AfterRun, Returns
  <2> QED BY <1>1, <1>2, <1>3, <2>1, MovesIs, NoCallIs
<1>4. CASE call[c].op = "capture"
  <2>1. call' = [call EXCEPT ![c] = Waits(call[c], sess)]
    BY <1>1, <1>4 DEF AfterRun, Waits, CallRecords
  <2>2. Waits(call[c], sess) \in CallRecords' /\ Waits(call[c], sess).pc = "wait"
    BY <1>1 DEF CallRecords, Waits
  <2> QED BY <1>1, <1>2, <1>4, <2>1, <2>2, MovesIs
<1> QED BY <1>1, <1>3, <1>4

LEMMA BeginRunIs ==
  ASSUME TypeOK, NEW c \in Callers, NEW r \in CallRecords, BeginRun(c, r), mutex \in {None, c},
         UNCHANGED <<session, sent>>
  PROVE  Moves(c, Runs(r)) /\ Holds'
<1>1. CallRecords \subseteq CallRecords' /\ call \in [Callers -> CallRecords] /\ Runs(r) \in CallRecords
  BY Inside, Growing, Typed
<1>2. call' = [call EXCEPT ![c] = Runs(r)] /\ mutex' = c
  BY DEF BeginRun, Runs
<1>3. Runs(r).pc = "run"
  BY Fields
<1> QED BY <1>1, <1>2, <1>3, MovesIs

LEMMA HaltIs ==
  ASSUME TypeOK, NEW c \in Callers, NEW op \in {"set", "setOnly", "destroy"}, Halt(c, op), mutex = None,
         UNCHANGED <<session, sent>>
  PROVE  /\ stopping' = TRUE /\ worker' = None /\ Holds'
         /\ worker \in {None, c} => Moves(c, Halted(op))
         /\ worker \notin {None, c} => Moves(c, Halting(op, worker)) /\ worker \in Workers
<1>1. /\ CallRecords \subseteq CallRecords' /\ call \in [Callers -> CallRecords]
      /\ Halted(op) \in CallRecords /\ worker \in Workers \cup {None}
  <2>1. CallRecords \subseteq CallRecords'
    <3>1. session' = session /\ sent' = sent /\ session \in 0..MaxStarts /\ sent \in 0..MaxFrames
      BY Inside
    <3>2. session' >= session /\ sent' >= sent /\ session' \in 0..MaxStarts /\ sent' \in 0..MaxFrames
      BY <3>1, Inside
    <3> QED BY <3>2, Growing
  <2>2. call \in [Callers -> CallRecords]
    BY Inside
  <2>3. Halted(op) \in CallRecords
    BY Inside, Typed
  <2>4. worker \in Workers \cup {None}
    BY Inside DEF Flags
  <2> QED BY <2>1, <2>2, <2>3, <2>4
<1>2. stopping' = TRUE /\ worker' = None
  BY DEF Halt
<1>3. CASE worker \in {None, c}
  <2>1. call' = [call EXCEPT ![c] = Halted(op)] /\ mutex' = c /\ Halted(op).pc = "halted"
    BY <1>3, Inside, Fields DEF Halt, Halted
  <2> QED BY <1>1, <1>2, <1>3, <2>1, MovesIs
<1>4. CASE worker \notin {None, c}
  <2>1. call' = [call EXCEPT ![c] = Halting(op, worker)] /\ mutex' = None
    BY <1>4 DEF Halt, Halting
  <2>2. Halting(op, worker).pc = "halting" /\ Halting(op, worker) \in CallRecords /\ worker \in Workers
    BY <1>1, <1>4, Inside, Fields, Typed
  <2> QED BY <1>1, <1>2, <1>4, <2>1, <2>2, MovesIs
<1> QED BY <1>2, <1>3, <1>4

LEMMA HaltJoinsIs ==
  ASSUME TypeOK, NEW c \in Callers, HaltJoins(c)
  PROVE  Moves(c, Joins(call[c])) /\ Holds'
<1>1. /\ CallRecords \subseteq CallRecords' /\ call \in [Callers -> CallRecords] /\ call[c] \in CallRecords
  BY Inside, Growing DEF HaltJoins
<1>2. Joins(call[c]) \in CallRecords /\ Joins(call[c]).pc = "halted"
  BY <1>1, Typed, Fields
<1>3. call' = [call EXCEPT ![c] = Joins(call[c])] /\ mutex' = c /\ mutex = None
  BY <1>1 DEF HaltJoins, Joins, CallRecords
<1> QED BY <1>1, <1>2, <1>3, MovesIs

LEMMA TypeKeeps == ASSUME TypeOK, [Next]_vars PROVE TypeOK'
<1>0. /\ NoCall \in CallRecords /\ call \in [Callers -> CallRecords] /\ Holds /\ Flags
      /\ session \in 0..MaxStarts /\ MaxStarts \in Nat /\ sent \in 0..MaxFrames /\ MaxFrames \in Nat
  BY Inside
<1>a. ASSUME NEW c \in Callers, NEW r, Moves(c, r) PROVE call' \in [Callers -> CallRecords']
  BY <1>a DEF Moves
<1>1. ASSUME NEW c \in Callers, RunningAlready(c) PROVE TypeOK'
  <2>1. Flags'
    BY <1>0, <1>1 DEF RunningAlready, Flags
  <2>2. Holds' /\ call' \in [Callers -> CallRecords']
    BY <1>0, <1>1, <1>a, AfterRunIs DEF RunningAlready
  <2> QED BY <2>1, <2>2, TypesNext
<1>2. ASSUME NEW c \in Callers, RunStarts(c) PROVE TypeOK'
  <2>1. /\ session + 1 \in Workers /\ session' = session + 1 /\ session' \in 0..MaxStarts
    BY <1>0, <1>2 DEF RunStarts, Workers
  <2>2. /\ workers' \in [Workers -> {"new", "poll", "frame", "ended"}]
        /\ \A w \in Workers : workers'[w] = "new" <=> w > session'
    BY <1>0, <1>2, <2>1 DEF RunStarts, Flags, Workers
  <2>3. latest \in [number : 0..sent', session : 0..session', settled : 0..session']
    BY <1>0, <1>2, <2>1 DEF RunStarts, Flags
  <2>a. /\ UNCHANGED <<events, settled, latestNumber, latest, sent, gone, destroyed>>
        /\ running' = TRUE /\ failed' = FALSE /\ stopping' = FALSE /\ worker' = session + 1
        /\ hurt' \in {"no", "crossed"}
    BY <1>2 DEF RunStarts
  <2>b. settled \in 0..session' /\ latestNumber \in 0..latest.number
    BY <1>0, <2>1 DEF Flags
  <2>4. Flags'
    BY <1>0, <2>1, <2>2, <2>3, <2>a, <2>b DEF Flags
  <2>5. Holds' /\ call' \in [Callers -> CallRecords']
    BY <1>0, <1>2, <1>a, <2>1, AfterRunIs DEF RunStarts
  <2> QED BY <2>4, <2>5, TypesNext
<1>3. ASSUME NEW c \in Callers, RunThrows(c) PROVE TypeOK'
  <2>1. Flags'
    BY <1>0, <1>3 DEF RunThrows, Flags
  <2>2. Holds' /\ Moves(c, NoCall)
    BY <1>0, <1>3, ReturnsIs DEF RunThrows, Holds
  <2> QED BY <1>a, <2>1, <2>2, TypesNext
<1>4. ASSUME NEW c \in Callers, Capture(c) PROVE TypeOK'
  <2>1. Flags'
    BY <1>0, <1>4 DEF Capture, Flags
  <2>2. [NoCall EXCEPT !.op = "capture", !.from = sent] \in CallRecords
    <3>1. sent \in 0..sent /\ "capture" \in Operations
      BY <1>0 DEF Operations
    <3> QED BY <1>0, <3>1 DEF CallRecords
  <2>3. Holds' /\ Moves(c, Runs([NoCall EXCEPT !.op = "capture", !.from = sent]))
    BY <1>0, <1>4, <2>2, BeginRunIs DEF Capture, MayCall
  <2> QED BY <1>a, <2>1, <2>3, TypesNext
<1>5. ASSUME NEW c \in Callers, CaptureReturns(c) \/ CaptureThrows(c) PROVE TypeOK'
  <2>1. Flags'
    BY <1>0, <1>5 DEF CaptureReturns, CaptureThrows, Flags
  <2>2. Holds' /\ Moves(c, NoCall)
    BY <1>0, <1>5, ReturnsIs DEF CaptureReturns, CaptureThrows
  <2> QED BY <1>a, <2>1, <2>2, TypesNext
<1>6. ASSUME NEW c \in Callers, CaptureRunsAgain(c) PROVE TypeOK'
  <2>1. Flags'
    BY <1>0, <1>6 DEF CaptureRunsAgain, Flags
  <2>2. [call[c] EXCEPT !.again = TRUE] \in CallRecords
    BY <1>0 DEF CallRecords
  <2>3. Holds' /\ Moves(c, Runs([call[c] EXCEPT !.again = TRUE]))
    BY <1>0, <1>6, <2>2, BeginRunIs DEF CaptureRunsAgain
  <2> QED BY <1>a, <2>1, <2>3, TypesNext
<1>7. ASSUME NEW c \in Callers, StartStreaming(c) PROVE TypeOK'
  <2>1. Flags'
    BY <1>0, <1>7 DEF StartStreaming, Flags
  <2>2. [NoCall EXCEPT !.op = "start"] \in CallRecords
    BY <1>0 DEF CallRecords, Operations
  <2>3. Holds' /\ Moves(c, Runs([NoCall EXCEPT !.op = "start"]))
    BY <1>0, <1>7, <2>2, BeginRunIs DEF StartStreaming, MayCall
  <2> QED BY <1>a, <2>1, <2>3, TypesNext
<1>8. ASSUME NEW c \in Callers, StopStreaming(c) \/ SetsStill(c) PROVE TypeOK'
  <2>0. latestNumber' \in 0..latest'.number /\ events' \in BOOLEAN
    BY <1>0, <1>8, ZeroNumber DEF StopStreaming, SetsStill, Flags
  <2>1. Flags' /\ Holds'
    BY <1>0, <1>8, <2>0 DEF StopStreaming, SetsStill, Flags, Holds
  <2>2. call' \in [Callers -> CallRecords']
    BY <1>0, <1>8 DEF StopStreaming, SetsStill, CallRecords
  <2> QED BY <2>1, <2>2, TypesNext
<1>9. ASSUME NEW c \in Callers, SetResolution(c) \/ Destroy(c) PROVE TypeOK'
  <2>1. PICK op \in {"set", "setOnly", "destroy"} : Halt(c, op)
    BY <1>9 DEF SetResolution, Destroy
  <2>2. mutex = None /\ UNCHANGED <<session, sent, settled, latestNumber, latest, running, failed, workers, gone, hurt, destroyed>>
        /\ events' \in BOOLEAN
    BY <1>0, <1>9 DEF SetResolution, Destroy, MayCall, Flags
  <2>3. /\ stopping' = TRUE /\ worker' = None /\ Holds' /\ call' \in [Callers -> CallRecords']
    BY <2>1, <2>2, <1>a, HaltIs
  <2>4. Flags'
    BY <1>0, <2>2, <2>3 DEF Flags
  <2> QED BY <2>3, <2>4, TypesNext
<1>10. ASSUME NEW c \in Callers, HaltJoins(c) PROVE TypeOK'
  <2>1. Flags'
    BY <1>0, <1>10 DEF HaltJoins, Flags
  <2> QED BY <1>10, <1>a, <2>1, HaltJoinsIs, TypesNext
<1>11. ASSUME NEW c \in Callers, Resets(c) \/ Destroyed(c) PROVE TypeOK'
  <2>0. mutex = c /\ UNCHANGED <<session, sent>>
    BY <1>0, <1>11 DEF Resets, Destroyed, Holds
  <2>a. latestNumber' \in 0..latest'.number /\ UNCHANGED latest /\ destroyed' \in Callers \cup {None}
    BY <1>0, <1>11, ZeroNumber DEF Resets, Destroyed, Flags
  <2>1. Flags'
    BY <1>0, <1>11, <2>a DEF Resets, Destroyed, Flags
  <2>2. CASE BeginRun(c, call[c])
    BY <1>0, <1>a, <2>0, <2>1, <2>2, BeginRunIs, TypesNext
  <2>3. CASE mutex' = None /\ Returns(c)
    BY <1>a, <2>0, <2>1, <2>3, ReturnsIs, TypesNext
  <2> QED BY <1>11, <2>2, <2>3 DEF Resets, Destroyed
<1>12. ASSUME NEW w \in Workers, Work(w) PROVE TypeOK'
  <2>1. UNCHANGED <<mutex, call, session, settled, worker, gone, events, stopping, destroyed>>
    BY <1>12 DEF Work, WorkerStops, WorkerFails, WorkerTakes, HandlerReturns
  <2>2. /\ workers' \in [Workers -> {"new", "poll", "frame", "ended"}]
        /\ \A v \in Workers : workers'[v] = "new" <=> v > session'
    <3>1. \E s \in {"poll", "frame", "ended"} : workers' = [workers EXCEPT ![w] = s]
      BY <1>12 DEF Work, WorkerStops, WorkerFails, WorkerTakes, HandlerReturns, Release
    <3>2. workers[w] \in {"poll", "frame"}
      BY <1>12 DEF Work, WorkerStops, WorkerFails, WorkerTakes, HandlerReturns, Turns
    <3> QED BY <1>0, <2>1, <3>1, <3>2 DEF Flags
  <2>3. running' \in BOOLEAN /\ failed' \in BOOLEAN /\ hurt' \in {"no", "broken", "crossed"}
    BY <1>0, <1>12 DEF Work, WorkerStops, WorkerFails, WorkerTakes, HandlerReturns, Flags, Release
  <2>4. /\ sent' \in 0..MaxFrames /\ sent' >= sent /\ latestNumber' \in 0..latest'.number
        /\ latest' \in [number : 0..sent', session : 0..session, settled : 0..session]
    <3>1. CASE WorkerTakes(w)
      BY <1>0, <3>1 DEF WorkerTakes, Flags
    <3>2. CASE ~WorkerTakes(w)
      <4>1. UNCHANGED <<sent, latest, latestNumber>>
        BY <1>12, <3>2 DEF Work, WorkerStops, WorkerFails, HandlerReturns
      <4> QED BY <1>0, <4>1 DEF Flags
    <3> QED BY <3>1, <3>2
  <2>5. Flags'
    BY <1>0, <2>1, <2>2, <2>3, <2>4 DEF Flags
  <2>6. CallRecords \subseteq CallRecords'
    BY <1>0, <2>1, <2>4, Growing
  <2>7. Holds' /\ call' \in [Callers -> CallRecords']
    BY <1>0, <2>1, <2>6 DEF Holds
  <2> QED BY <2>5, <2>7, TypesNext
<1>13. CASE WarmUpPasses \/ Unplug \/ UNCHANGED vars
  <2>b. session \in Nat /\ settled \in 0..session /\ gone \in BOOLEAN
    BY <1>0 DEF Flags
  <2>a. settled' \in 0..session
    <3>1. settled' = settled \/ (settled < session /\ settled' = settled + 1)
      BY <1>13 DEF WarmUpPasses, Unplug, vars
    <3> QED BY <2>b, <3>1
  <2>c. gone' \in BOOLEAN
    BY <2>b, <1>13 DEF WarmUpPasses, Unplug, vars
  <2>1. Flags'
    BY <1>0, <1>13, <2>a, <2>c DEF WarmUpPasses, Unplug, vars, Flags
  <2>2. Holds' /\ call' \in [Callers -> CallRecords']
    BY <1>0, <1>13 DEF WarmUpPasses, Unplug, vars, Holds, CallRecords
  <2> QED BY <2>1, <2>2, TypesNext
<1> QED BY <1>1, <1>2, <1>3, <1>4, <1>5, <1>6, <1>7, <1>8, <1>9, <1>10, <1>11, <1>12, <1>13
        DEF Next, Calls, GoesOn

-----------------------------------------------------------------------------
\* The call of c is at pc now, of the operation op; nobody else's call has moved.
Now(c, op, pc) ==
  /\ mutex \in {None, c} /\ mutex' = IF pc \in {"run", "halted"} THEN c ELSE None
  /\ call' \in [Callers -> CallRecords'] /\ call'[c].op = op /\ call'[c].pc = pc
  /\ \A d \in Callers \ {c} : call'[d] = call[d]

\* Run has come back: a Capture waits now for a picture of the session sess.
Ran(c, sess) ==
  /\ mutex = c
  /\ call[c].op # "capture" => Now(c, "none", "none") /\ call'[c] = NoCall
  /\ call[c].op = "capture" =>
       /\ Now(c, "capture", "wait")
       /\ call'[c].from = call[c].from /\ call'[c].ready = sess
       /\ call'[c].after = IF call[c].again THEN call[c].after ELSE latestNumber

\* Halt has told the worker, which c waits for unless there is none, or it is c.
HasHalted(c, op) ==
  /\ stopping' = TRUE /\ worker' = None /\ mutex = None
  /\ worker \in {None, c} => Now(c, op, "halted")
  /\ worker \notin {None, c} =>
       Now(c, op, "halting") /\ worker \in Workers /\ call'[c].joining = worker

LEMMA RunSteps ==
  ASSUME TypeOK, NEW c \in Callers
  PROVE  /\ RunningAlready(c) => Ran(c, session)
         /\ RunStarts(c) => Ran(c, session + 1)
         /\ RunThrows(c) => mutex = c /\ Now(c, "none", "none") /\ call'[c] = NoCall
<1>0. /\ Holds /\ session \in 0..MaxStarts /\ MaxStarts \in Nat /\ Workers = 1..MaxStarts
      /\ call[c] \in CallRecords
  BY Inside DEF Workers
<1>1. ASSUME NEW sess, Moves(c, Waits(call[c], sess)), call[c].op = "capture"
      PROVE  /\ Now(c, "capture", "wait")
             /\ call'[c].from = call[c].from /\ call'[c].ready = sess
             /\ call'[c].after = IF call[c].again THEN call[c].after ELSE latestNumber
  <2> DEFINE r == Waits(call[c], sess)
  <2>1. /\ r.pc = "wait" /\ r.op = call[c].op /\ r.from = call[c].from /\ r.ready = sess
        /\ r.after = IF call[c].again THEN call[c].after ELSE latestNumber
    BY <1>0, Fields
  <2> HIDE DEF r
  <2>2. Moves(c, r)
    BY <1>1 DEF r
  <2> QED BY <1>1, <2>1, <2>2 DEF Moves, Now
<1>2. Moves(c, NoCall) => Now(c, "none", "none") /\ call'[c] = NoCall
  BY NoCallIs DEF Moves, Now
<1>3. ASSUME RunningAlready(c) PROVE Ran(c, session)
  <2>1. /\ mutex = c
        /\ call[c].op # "capture" => Moves(c, NoCall)
        /\ call[c].op = "capture" => Moves(c, Waits(call[c], session))
    BY <1>0, <1>3, AfterRunIs DEF RunningAlready
  <2> QED BY <1>1, <1>2, <2>1 DEF Ran
<1>4. ASSUME RunStarts(c) PROVE Ran(c, session + 1)
  <2>0. session + 1 \in 0..session' /\ session' >= session /\ session' \in 0..MaxStarts /\ UNCHANGED sent
        /\ call[c].pc = "run" /\ AfterRun(c, session + 1)
    BY <1>0, <1>4 DEF RunStarts
  <2>1. /\ mutex = c
        /\ call[c].op # "capture" => Moves(c, NoCall)
        /\ call[c].op = "capture" => Moves(c, Waits(call[c], session + 1))
    BY <2>0, AfterRunIs
  <2> QED BY <1>1, <1>2, <2>1 DEF Ran
<1>5. ASSUME RunThrows(c) PROVE mutex = c /\ Now(c, "none", "none") /\ call'[c] = NoCall
  <2>1. mutex = c /\ mutex' = None /\ UNCHANGED <<session, sent>> /\ Returns(c)
    BY <1>0, <1>5 DEF RunThrows, Holds
  <2> QED BY <1>2, <2>1, ReturnsIs
<1> QED BY <1>3, <1>4, <1>5

LEMMA CallSteps ==
  ASSUME TypeOK, NEW c \in Callers
  PROVE  /\ Capture(c) => Now(c, "capture", "run") /\ ~call'[c].again /\ call'[c].from = sent
         /\ CaptureReturns(c) \/ CaptureThrows(c) => Now(c, "none", "none") /\ call'[c] = NoCall
         /\ CaptureRunsAgain(c) =>
              /\ Now(c, call[c].op, "run") /\ call'[c].from = call[c].from
              /\ call'[c].after = call[c].after
         /\ StartStreaming(c) => Now(c, "start", "run") /\ ~call'[c].again
<1>0. /\ call[c] \in CallRecords /\ NoCall \in CallRecords /\ sent \in Nat
  BY Inside
<1>1. Moves(c, NoCall) => Now(c, "none", "none") /\ call'[c] = NoCall
  BY NoCallIs DEF Moves, Now
<1>2. ASSUME Capture(c) PROVE Now(c, "capture", "run") /\ ~call'[c].again /\ call'[c].from = sent
  <2> DEFINE r == [NoCall EXCEPT !.op = "capture", !.from = sent]
  <2>1. r \in CallRecords /\ r.op = "capture" /\ r.from = sent /\ r.again = FALSE
    <3>1. sent \in 0..sent /\ "capture" \in Operations
      BY <1>0 DEF Operations
    <3> QED BY <1>0, <3>1, NoCallIs DEF CallRecords
  <2>2. BeginRun(c, r) /\ mutex = None /\ UNCHANGED <<session, sent>>
    BY <1>2 DEF Capture, MayCall
  <2> HIDE DEF r
  <2>3. Moves(c, Runs(r))
    BY <2>1, <2>2, BeginRunIs
  <2> QED BY <2>1, <2>3, Fields DEF Moves, Now
<1>3. ASSUME CaptureReturns(c) \/ CaptureThrows(c) PROVE Now(c, "none", "none") /\ call'[c] = NoCall
  BY <1>1, <1>3, ReturnsIs DEF CaptureReturns, CaptureThrows
<1>4. ASSUME CaptureRunsAgain(c)
      PROVE /\ Now(c, call[c].op, "run") /\ call'[c].from = call[c].from /\ call'[c].after = call[c].after
  <2> DEFINE r == [call[c] EXCEPT !.again = TRUE]
  <2>1. r \in CallRecords /\ r.op = call[c].op /\ r.from = call[c].from /\ r.after = call[c].after
    BY <1>0 DEF CallRecords
  <2>2. BeginRun(c, r) /\ mutex = None /\ UNCHANGED <<session, sent>>
    BY <1>4 DEF CaptureRunsAgain
  <2> HIDE DEF r
  <2>3. Moves(c, Runs(r))
    BY <2>1, <2>2, BeginRunIs
  <2> QED BY <2>1, <2>3, Fields DEF Moves, Now
<1>5. ASSUME StartStreaming(c) PROVE Now(c, "start", "run") /\ ~call'[c].again
  <2> DEFINE r == [NoCall EXCEPT !.op = "start"]
  <2>1. r \in CallRecords /\ r.op = "start" /\ r.again = FALSE
    BY <1>0, NoCallIs DEF CallRecords, Operations
  <2>2. BeginRun(c, r) /\ mutex = None /\ UNCHANGED <<session, sent>>
    BY <1>5 DEF StartStreaming, MayCall
  <2> HIDE DEF r
  <2>3. Moves(c, Runs(r))
    BY <2>1, <2>2, BeginRunIs
  <2> QED BY <2>1, <2>3, Fields DEF Moves, Now
<1> QED BY <1>2, <1>3, <1>4, <1>5

LEMMA HaltSteps ==
  ASSUME TypeOK, NEW c \in Callers
  PROVE  /\ SetResolution(c) => HasHalted(c, IF events THEN "set" ELSE "setOnly")
         /\ Destroy(c) => HasHalted(c, "destroy")
         /\ HaltJoins(c) => Now(c, call[c].op, "halted")
         /\ Resets(c) => /\ mutex = c
                         /\ call[c].op = "set" =>
                              Now(c, "set", "run") /\ call'[c].again = call[c].again
                         /\ call[c].op # "set" => Now(c, "none", "none") /\ call'[c] = NoCall
         /\ Destroyed(c) => mutex = c /\ Now(c, "none", "none") /\ call'[c] = NoCall
<1>0. call[c] \in CallRecords /\ Holds
  BY Inside
<1>1. Moves(c, NoCall) => Now(c, "none", "none") /\ call'[c] = NoCall
  BY NoCallIs DEF Moves, Now
<1>2. ASSUME NEW op \in {"set", "setOnly", "destroy"}, Halt(c, op), mutex = None, UNCHANGED <<session, sent>>
      PROVE  HasHalted(c, op)
  <2>1. /\ stopping' = TRUE /\ worker' = None
        /\ worker \in {None, c} => Moves(c, Halted(op))
        /\ worker \notin {None, c} => Moves(c, Halting(op, worker)) /\ worker \in Workers
    BY <1>2, HaltIs
  <2>2. Moves(c, Halted(op)) => Now(c, op, "halted")
    BY <1>0, Fields DEF Moves, Now
  <2>3. Moves(c, Halting(op, worker)) => Now(c, op, "halting") /\ call'[c].joining = worker
    BY <1>0, Fields DEF Moves, Now
  <2> QED BY <1>2, <2>1, <2>2, <2>3 DEF HasHalted
<1>3. ASSUME SetResolution(c) PROVE HasHalted(c, IF events THEN "set" ELSE "setOnly")
  BY <1>2, <1>3 DEF SetResolution, MayCall
<1>4. ASSUME Destroy(c) PROVE HasHalted(c, "destroy")
  BY <1>2, <1>4 DEF Destroy, MayCall
<1>5. ASSUME HaltJoins(c) PROVE Now(c, call[c].op, "halted")
  BY <1>0, <1>5, HaltJoinsIs, Fields DEF Moves, Now
<1>6. ASSUME Resets(c)
      PROVE  /\ mutex = c
             /\ call[c].op = "set" => Now(c, "set", "run") /\ call'[c].again = call[c].again
             /\ call[c].op # "set" => Now(c, "none", "none") /\ call'[c] = NoCall
  <2>1. mutex = c /\ UNCHANGED <<session, sent>>
    BY <1>0, <1>6 DEF Resets, Holds
  <2>2. CASE call[c].op = "set"
    <3>1. Moves(c, Runs(call[c]))
      BY <1>0, <1>6, <2>1, <2>2, BeginRunIs DEF Resets
    <3> QED BY <1>0, <2>1, <2>2, <3>1, Fields DEF Moves, Now
  <2>3. CASE call[c].op # "set"
    BY <1>1, <1>6, <2>1, <2>3, ReturnsIs DEF Resets
  <2> QED BY <2>1, <2>2, <2>3
<1>7. ASSUME Destroyed(c) PROVE mutex = c /\ Now(c, "none", "none") /\ call'[c] = NoCall
  BY <1>0, <1>1, <1>7, ReturnsIs DEF Destroyed, Holds
<1> QED BY <1>3, <1>4, <1>5, <1>6, <1>7

-----------------------------------------------------------------------------
LEMMA CallsKeep == ASSUME TypeOK, CallsOK, [Next]_vars PROVE CallsOK'
<1>0. /\ Holds /\ Flags /\ call \in [Callers -> CallRecords] /\ Workers \subseteq Callers
      /\ Threads \subseteq Callers /\ Workers \cap Threads = {} /\ None \notin Callers
      /\ \A c \in Callers : CallOK(c)
  BY Inside DEF CallsOK
<1>1. ASSUME NEW c \in Callers, NEW op, NEW pc, Now(c, op, pc), CallOK(c)',
             \A w \in Workers \ {c} : call[w].op # "none" => workers'[w] = "frame"
      PROVE  CallsOK'
  <2> SUFFICES ASSUME NEW d \in Callers \ {c} PROVE CallOK(d)'
    BY <1>1 DEF CallsOK
  <2>1. call'[d] = call[d] /\ CallOK(d)
    BY <1>0, <1>1 DEF Now
  <2> QED BY <1>1, <2>1 DEF CallOK, Called
\* A call goes on, comes back, or begins.
<1>2. ASSUME NEW c \in Callers, NEW op, NEW pc, Now(c, op, pc), UNCHANGED workers,
             \/ op = "none" /\ pc = "none" /\ call'[c] = NoCall
             \/ /\ call[c].op = op /\ op # "none"
                /\ \/ pc = "wait" /\ op = "capture"
                   \/ pc = "run" /\ op \in {"capture", "start", "set"}
                   \/ pc = "halted" /\ call[c].pc = "halting"
             \/ /\ \E o \in Operations : MayCall(c, o) /\ op \in {o} \cup (IF o = "set" THEN {"setOnly"} ELSE {})
                /\ \/ pc = "run" /\ op \in {"capture", "start"}
                   \/ pc \in {"halting", "halted"} /\ op \in {"set", "setOnly", "destroy"}
      PROVE  CallsOK'
  <2>1. \A w \in Workers \ {c} : call[w].op # "none" => workers'[w] = "frame"
    BY <1>0, <1>2 DEF CallOK
  <2>2. call'[c].op = op /\ call'[c].pc = pc /\ CallOK(c)
    BY <1>0, <1>2 DEF Now
  <2>3. CASE op = "none" /\ pc = "none" /\ call'[c] = NoCall
    BY <1>0, <1>1, <1>2, <2>1, <2>2, <2>3 DEF CallOK, Called
  <2>4. CASE /\ call[c].op = op /\ op # "none"
             /\ \/ pc = "wait" /\ op = "capture"
                \/ pc = "run" /\ op \in {"capture", "start", "set"}
                \/ pc = "halted" /\ call[c].pc = "halting"
    <3>1. CallOK(c)'
      BY <1>0, <1>2, <2>2, <2>4 DEF CallOK, Called
    <3> QED BY <1>1, <1>2, <2>1, <3>1
  <2>5. CASE /\ \E o \in Operations : MayCall(c, o) /\ op \in {o} \cup (IF o = "set" THEN {"setOnly"} ELSE {})
             /\ \/ pc = "run" /\ op \in {"capture", "start"}
                \/ pc \in {"halting", "halted"} /\ op \in {"set", "setOnly", "destroy"}
    <3>1. PICK o \in Operations : MayCall(c, o) /\ op \in {o} \cup (IF o = "set" THEN {"setOnly"} ELSE {})
      BY <2>5
    <3>2. Called(c)' = o /\ o # "none"
      BY <2>2, <2>5, <3>1 DEF Called, Operations
    <3>3. c \in Workers => Called(c)' \in HandlerCalls /\ workers'[c] = "frame"
      BY <1>2, <3>1, <3>2 DEF MayCall
    <3>4. c \in Threads => Called(c)' \in ThreadCalls[c]
      BY <1>0, <3>1, <3>2 DEF MayCall
    <3>5. CallOK(c)'
      BY <2>2, <2>5, <3>3, <3>4 DEF CallOK
    <3> QED BY <1>1, <1>2, <2>1, <3>5
  <2> QED BY <1>2, <2>3, <2>4, <2>5
<1>3. ASSUME NEW c \in Callers, RunningAlready(c) \/ RunThrows(c) PROVE CallsOK'
  <2>1. UNCHANGED workers /\ (Ran(c, session) \/ (Now(c, "none", "none") /\ call'[c] = NoCall))
    BY <1>3, RunSteps DEF RunningAlready, RunThrows
  <2> QED BY <1>2, <2>1 DEF Ran
<1>4. ASSUME NEW c \in Callers, RunStarts(c) PROVE CallsOK'
  <2>1. /\ Ran(c, session + 1) /\ call[c].pc = "run" /\ workers' = [workers EXCEPT ![session + 1] = "poll"]
        /\ session + 1 \in Workers /\ ~(session + 1 <= session)
    <3>1. session \in 0..MaxStarts /\ MaxStarts \in Nat /\ session < MaxStarts
      BY <1>0, <1>4, BoundsAssumption DEF RunStarts, Flags
    <3>2. session + 1 \in Workers /\ ~(session + 1 <= session)
      BY <3>1 DEF Workers
    <3> QED BY <3>2, <1>4, RunSteps DEF RunStarts
  <2>2. \A w \in Workers : call[w].op # "none" => workers'[w] = "frame"
    <3>1. workers[session + 1] = "new"
      BY <1>0, <2>1, BoundsAssumption DEF Flags, Workers
    <3> QED BY <1>0, <2>1, <3>1 DEF CallOK, Flags
  <2>3. call[c].op = "capture" => CallsOK'
    BY <1>0, <1>1, <2>1, <2>2 DEF Ran, Now, CallOK, Called
  <2>4. call[c].op # "capture" => CallsOK'
    BY <1>0, <1>1, <2>1, <2>2, NoCallIs DEF Ran, Now, CallOK, Called
  <2> QED BY <2>3, <2>4
<1>5. ASSUME NEW c \in Callers, Capture(c) \/ StartStreaming(c) PROVE CallsOK'
  <2>1. /\ UNCHANGED workers
        /\ \E o \in {"capture", "start"} : Now(c, o, "run") /\ MayCall(c, o)
    BY <1>5, CallSteps DEF Capture, StartStreaming
  <2>2. {"capture", "start"} \subseteq Operations
    BY DEF Operations
  <2> QED BY <1>2, <2>1, <2>2
<1>6. ASSUME NEW c \in Callers, CaptureReturns(c) \/ CaptureThrows(c) PROVE CallsOK'
  BY <1>2, <1>6, CallSteps DEF CaptureReturns, CaptureThrows
<1>7. ASSUME NEW c \in Callers, CaptureRunsAgain(c) PROVE CallsOK'
  <2>1. Now(c, "capture", "run") /\ call[c].op = "capture" /\ UNCHANGED workers
    BY <1>0, <1>7, CallSteps DEF CaptureRunsAgain, Waiting, CallOK
  <2> QED BY <1>2, <2>1
<1>8. ASSUME NEW c \in Callers, SetResolution(c) \/ Destroy(c) PROVE CallsOK'
  <2>1. /\ UNCHANGED workers
        /\ \E o \in {"set", "destroy"}, op \in {"set", "setOnly", "destroy"} :
             HasHalted(c, op) /\ MayCall(c, o) /\ op \in {o} \cup (IF o = "set" THEN {"setOnly"} ELSE {})
    BY <1>8, HaltSteps DEF SetResolution, Destroy
  <2>2. {"set", "destroy"} \subseteq Operations
    BY DEF Operations
  <2> QED BY <1>2, <2>1, <2>2 DEF HasHalted
<1>9. ASSUME NEW c \in Callers, HaltJoins(c) PROVE CallsOK'
  <2>1. Now(c, call[c].op, "halted") /\ call[c].pc = "halting" /\ call[c].op # "none" /\ UNCHANGED workers
    BY <1>0, <1>9, HaltSteps DEF HaltJoins, CallOK
  <2> QED BY <1>2, <2>1
<1>10. ASSUME NEW c \in Callers, Resets(c) \/ Destroyed(c) PROVE CallsOK'
  <2>1. /\ UNCHANGED workers
        /\ \/ Now(c, "none", "none") /\ call'[c] = NoCall
           \/ call[c].op = "set" /\ Now(c, "set", "run")
    BY <1>10, HaltSteps DEF Resets, Destroyed
  <2> QED BY <1>2, <2>1
<1>11. ASSUME NEW w \in Workers, Work(w) PROVE CallsOK'
  <2>1. UNCHANGED call /\ (workers[w] = "poll" \/ call[w] = NoCall)
    BY <1>11 DEF Work, WorkerStops, WorkerFails, WorkerTakes, HandlerReturns, Turns
  <2>2. \A v \in Workers \ {w} : workers'[v] = workers[v]
    BY <1>0, <1>11 DEF Work, WorkerStops, WorkerFails, WorkerTakes, HandlerReturns, Release, Flags
  <2>3. call[w].op = "none"
    BY <1>0, <2>1, NoCallIs DEF CallOK
  <2> QED BY <1>0, <2>1, <2>2, <2>3 DEF CallsOK, CallOK, Called
<1>12. ASSUME UNCHANGED <<call, workers>> PROVE CallsOK'
  BY <1>0, <1>12 DEF CallsOK, CallOK, Called
<1>13. ASSUME NEW c \in Callers, StopStreaming(c) \/ SetsStill(c) PROVE CallsOK'
  BY <1>12, <1>13 DEF StopStreaming, SetsStill
<1>14. CASE WarmUpPasses \/ Unplug \/ UNCHANGED vars
  BY <1>12, <1>14 DEF WarmUpPasses, Unplug, vars
<1> QED BY <1>3, <1>4, <1>5, <1>6, <1>7, <1>8, <1>9, <1>10, <1>11, <1>13, <1>14
        DEF Next, Calls, GoesOn

-----------------------------------------------------------------------------
LEMMA PictureKeeps == ASSUME TypeOK, CallsOK, PictureIsNew, [Next]_vars PROVE PictureIsNew'
<1>0. /\ Holds /\ Flags /\ call \in [Callers -> CallRecords] /\ Workers \subseteq Callers
      /\ \A c \in Callers : CallOK(c) /\ sent \in Nat
      /\ \A c \in Callers : call[c].from \in 0..sent
  BY Inside DEF CallsOK, CallRecords
<1> DEFINE New(c) == latest.number > call[c].from \/ latestNumber <= call[c].after
\* A caller moves, and the pictures stay.
<1>1. ASSUME NEW c \in Callers, NEW op, NEW pc, Now(c, op, pc), UNCHANGED <<latest, latestNumber>>,
             call'[c].pc = "wait" \/ (call'[c].pc = "run" /\ call'[c].again) => New(c)'
      PROVE  PictureIsNew'
  BY <1>0, <1>1 DEF PictureIsNew, Now
\* A caller moves and there is no picture any more.
<1>2. ASSUME latestNumber' = 0, \A c \in Callers : call'[c].after \in Nat PROVE PictureIsNew'
  BY <1>2 DEF PictureIsNew
<1>3. ASSUME NEW c \in Callers, NEW sess, Ran(c, sess), UNCHANGED <<latest, latestNumber>>, call[c].pc = "run"
      PROVE  PictureIsNew'
  <2>1. CASE call[c].op # "capture"
    BY <1>1, <1>3, <2>1, NoCallIs DEF Ran
  <2>2. CASE call[c].op = "capture"
    <3>1. /\ Now(c, "capture", "wait") /\ call'[c].from = call[c].from
          /\ call'[c].after = IF call[c].again THEN call[c].after ELSE latestNumber
      BY <1>3, <2>2 DEF Ran
    <3>2. CASE call[c].again
      BY <1>1, <1>3, <3>1, <3>2 DEF PictureIsNew
    <3>3. CASE ~call[c].again
      <4>1. latestNumber <= latestNumber
        BY <1>0 DEF Flags
      <4> QED BY <1>1, <1>3, <3>1, <3>3, <4>1
    <3> QED BY <3>2, <3>3
  <2> QED BY <2>1, <2>2
<1>4. ASSUME NEW c \in Callers, RunningAlready(c) \/ RunStarts(c) PROVE PictureIsNew'
  BY <1>3, <1>4, RunSteps DEF RunningAlready, RunStarts
<1>5. ASSUME NEW c \in Callers, RunThrows(c) \/ CaptureReturns(c) \/ CaptureThrows(c) PROVE PictureIsNew'
  <2>1. Now(c, "none", "none") /\ call'[c] = NoCall /\ UNCHANGED <<latest, latestNumber>>
    BY <1>5, RunSteps, CallSteps DEF RunThrows, CaptureReturns, CaptureThrows
  <2> QED BY <1>1, <2>1, NoCallIs
<1>6. ASSUME NEW c \in Callers, Capture(c) \/ StartStreaming(c) PROVE PictureIsNew'
  <2>1. /\ \E o \in {"capture", "start"} : Now(c, o, "run") /\ ~call'[c].again
        /\ UNCHANGED <<latest, latestNumber>>
    BY <1>6, CallSteps DEF Capture, StartStreaming
  <2>2. call'[c].pc = "run"
    BY <2>1 DEF Now
  <2> QED BY <1>1, <2>1, <2>2
<1>7. ASSUME NEW c \in Callers, CaptureRunsAgain(c) PROVE PictureIsNew'
  <2>1. /\ Now(c, call[c].op, "run") /\ call'[c].from = call[c].from /\ call'[c].after = call[c].after
        /\ call[c].pc = "wait" /\ UNCHANGED <<latest, latestNumber>>
    BY <1>7, CallSteps DEF CaptureRunsAgain, Waiting
  <2> QED BY <1>1, <2>1 DEF PictureIsNew
<1>8. ASSUME NEW c \in Callers, SetResolution(c) \/ Destroy(c) \/ HaltJoins(c) PROVE PictureIsNew'
  <2>1. /\ \E op \in {"set", "setOnly", "destroy", call[c].op}, pc \in {"halting", "halted"} : Now(c, op, pc)
        /\ UNCHANGED <<latest, latestNumber>>
    BY <1>8, HaltSteps DEF SetResolution, Destroy, HaltJoins, HasHalted
  <2>2. call'[c].pc \in {"halting", "halted"}
    BY <2>1 DEF Now
  <2> QED BY <1>1, <2>1, <2>2
<1>9. ASSUME NEW c \in Callers, Resets(c) \/ SetsStill(c) PROVE PictureIsNew'
  <2>1. latestNumber' = 0 /\ call' \in [Callers -> CallRecords']
    BY <1>9, TypeKeeps, TypesNext DEF Resets, SetsStill, Next, Calls, GoesOn
  <2>2. \A d \in Callers : call'[d].after \in Nat
    BY <2>1, BoundsAssumption DEF CallRecords
  <2> QED BY <1>2, <2>1, <2>2
<1>10. ASSUME NEW c \in Callers, Destroyed(c) PROVE PictureIsNew'
  <2>1. Now(c, "none", "none") /\ call'[c] = NoCall /\ UNCHANGED <<latest, latestNumber>>
    BY <1>10, HaltSteps DEF Destroyed
  <2> QED BY <1>1, <2>1, NoCallIs
<1>11. ASSUME NEW w \in Workers, WorkerTakes(w) PROVE PictureIsNew'
  <2>1. latest'.number = sent + 1 /\ UNCHANGED call
    BY <1>11 DEF WorkerTakes
  <2>2. \A c \in Callers : latest'.number > call'[c].from
    BY <1>0, <2>1
  <2> QED BY <2>2 DEF PictureIsNew
<1>12. ASSUME UNCHANGED <<call, latest, latestNumber>> PROVE PictureIsNew'
  BY <1>12 DEF PictureIsNew
<1>13. ASSUME NEW w \in Workers, WorkerStops(w) \/ WorkerFails(w) \/ HandlerReturns(w) PROVE PictureIsNew'
  BY <1>12, <1>13 DEF WorkerStops, WorkerFails, HandlerReturns
<1>14. ASSUME NEW c \in Callers, StopStreaming(c) PROVE PictureIsNew'
  BY <1>12, <1>14 DEF StopStreaming
<1>15. CASE WarmUpPasses \/ Unplug \/ UNCHANGED vars
  BY <1>12, <1>15 DEF WarmUpPasses, Unplug, vars
<1> QED BY <1>4, <1>5, <1>6, <1>7, <1>8, <1>9, <1>10, <1>11, <1>13, <1>14, <1>15
        DEF Next, Calls, GoesOn, Work

-----------------------------------------------------------------------------
\* What FrameInv says of a caller: who destroys, and that a handler's call
\* neither starts the camera nor waits for a worker.
LEMMA Who ==
  ASSUME HandlerTakesOrStops, FrameInv
  PROVE  /\ \A w \in Workers : call[w].op \in {"none", "capture", "destroy", "stop"}
         /\ \A w \in Workers : call[w].pc # "halting" /\ (call[w].pc = "halted" => call[w].op = "destroy" /\ mutex = w)
         /\ \A c \in Callers : call[c] # NoCall => destroyed = None
         /\ \A c \in Threads, d \in Callers : call[d].op = "destroy" /\ c # d => call[c] = NoCall
         /\ \A c \in Callers, d \in Callers : call[d].op = "destroy" /\ c # d => call[c].op # "destroy"
<1>1. TypeOK /\ CallsOK /\ WorkersHold /\ Destroying /\ AfterDestroy
  BY DEF FrameInv
<1>2. Holds /\ Workers \subseteq Callers /\ Threads \subseteq Callers
  BY <1>1, Inside
<1>3. \A w \in Workers : call[w].op \in {"none", "capture", "destroy", "stop"}
  BY <1>1, <1>2 DEF HandlerTakesOrStops, CallsOK, CallOK, Called
<1>4. \A w \in Workers : call[w].pc # "halting" /\ (call[w].pc = "halted" => call[w].op = "destroy" /\ mutex = w)
  BY <1>1, <1>2, <1>3 DEF WorkersHold, CallsOK, CallOK, Holds
<1>5. \A c \in Callers : call[c] # NoCall => destroyed = None
  BY <1>1 DEF AfterDestroy
<1>6. \A c \in Threads, d \in Callers : call[d].op = "destroy" /\ c # d => call[c] = NoCall
  BY <1>1 DEF Destroying
<1>7. \A c \in Callers, d \in Callers : call[d].op = "destroy" /\ c # d => call[c].op # "destroy"
  BY <1>1 DEF Destroying
<1> QED BY <1>3, <1>4, <1>5, <1>6, <1>7

\* Whoever may begin a call does so while nobody destroys the camera, but for
\* what the handler of the last frame does.
LEMMA MayCallMeans ==
  ASSUME HandlerTakesOrStops, FrameInv, NEW c \in Callers, NEW o, MayCall(c, o)
  PROVE  /\ call[c] = NoCall /\ destroyed = None /\ mutex = None
         /\ c \in Workers => o \in {"capture", "stop", "destroy"} /\ workers[c] = "frame"
         /\ c \in Threads => \A d \in Callers : call[d].op # "destroy"
         /\ \A d \in Callers : call[d].pc \notin {"run", "halted"}
<1>1. /\ Holds /\ Workers \cap Threads = {} /\ None \notin Callers /\ Callers = Threads \cup Workers
      /\ CallsOK
  BY Inside DEF FrameInv, Callers
<1>2. call[c] = NoCall /\ destroyed = None /\ mutex = None
  BY DEF MayCall
<1>3. \A d \in Callers : call[d].pc \notin {"run", "halted"}
  BY <1>1, <1>2 DEF Holds
<1>4. c \in Workers => o \in {"capture", "stop", "destroy"} /\ workers[c] = "frame"
  BY DEF MayCall, HandlerTakesOrStops
<1>5. \A w \in Workers : call[w].op # "destroy"
  BY <1>1, <1>3, Who DEF CallsOK, CallOK
<1>6. c \in Threads => \A d \in Callers : call[d].op # "destroy"
  BY <1>1, <1>5 DEF MayCall
<1> QED BY <1>2, <1>3, <1>4, <1>6

LEMMA FrameKeeps ==
  ASSUME HandlerTakesOrStops, FrameInv, [Next]_vars PROVE FrameInv'
<1>0. /\ TypeOK /\ CallsOK /\ Placed /\ Destroying /\ WorkersHold /\ AfterDestroy /\ FrameFinishesFirst
      /\ Workers \subseteq Callers /\ Threads \subseteq Callers /\ Workers \cap Threads = {}
      /\ None \notin Callers /\ Holds /\ Flags /\ Callers = Threads \cup Workers
  BY Inside DEF FrameInv, Callers
<1>a. TypeOK' /\ CallsOK'
  BY <1>0, TypeKeeps, CallsKeep
<1>b. \A c \in Callers : CallOK(c)
  BY <1>0 DEF CallsOK
<1>c. UNCHANGED <<Workers, Threads, Callers>>
  BY DEF Workers, Callers
\* A call that neither halts nor destroys begins, goes on or comes back.
<1>1. ASSUME NEW c \in Callers, NEW op, NEW pc, Now(c, op, pc), op # "destroy", pc \notin {"halting", "halted"},
             call[c].op # "destroy", call[c].pc \notin {"halting"}, c \in Workers => call[c].pc # "halted",
             destroyed = None, c \in Threads => \A d \in Callers : call[d].op # "destroy",
             UNCHANGED <<workers, destroyed>>, events' = events \/ c \in Threads,
             worker' = worker \/ (worker' = None /\ Joined)
      PROVE  FrameInv'
  <2>1. /\ \A d \in Callers \ {c} : call'[d] = call[d]
        /\ call'[c].op = op /\ call'[c].pc = pc
    BY <1>1 DEF Now
  <2>2. Placed'
    <3> SUFFICES ASSUME NEW w \in Workers, Live(w)
                 PROVE  (\/ worker = w
                         \/ \E t \in Threads : call[t].pc = "halting" /\ call[t].joining = w
                         \/ call[w].pc = "halted")'
      BY <1>1, <1>c DEF Placed, Live
    <3>1. CASE worker = w
      BY <1>1, <3>1 DEF Joined, Live
    <3>2. CASE \E t \in Threads : call[t].pc = "halting" /\ call[t].joining = w
      BY <1>0, <1>1, <2>1, <3>2
    <3>3. CASE call[w].pc = "halted"
      BY <1>0, <1>1, <2>1, <3>3
    <3> QED BY <1>0, <1>1, <3>1, <3>2, <3>3 DEF Placed
  <2>3. Destroying'
    BY <1>0, <1>1, <1>c, <2>1 DEF Destroying
  <2>4. WorkersHold'
    BY <1>0, <1>1, <1>c, <2>1 DEF WorkersHold
  <2>5. AfterDestroy' /\ FrameFinishesFirst'
    BY <1>1 DEF AfterDestroy, FrameFinishesFirst
  <2> QED BY <1>a, <2>2, <2>3, <2>4, <2>5 DEF FrameInv
<1>2. ASSUME NEW c \in Callers, RunningAlready(c) \/ RunThrows(c) \/ CaptureReturns(c) \/ CaptureThrows(c) \/ CaptureRunsAgain(c)
      PROVE  FrameInv'
  <2>1. /\ call[c].pc \in {"run", "wait"} /\ UNCHANGED <<workers, destroyed, events>>
        /\ worker' = worker \/ (worker' = None /\ Joined)
    BY <1>2 DEF RunningAlready, RunThrows, CaptureReturns, CaptureThrows, CaptureRunsAgain, Waiting
  <2>2. call[c].op # "destroy" /\ call[c] # NoCall
    BY <1>b, <2>1, NoCallIs DEF CallOK
  <2>3. destroyed = None /\ (c \in Threads => \A d \in Callers : call[d].op # "destroy")
    BY <2>2, Who
  <2>4. \E op \in {"none", "capture"}, pc \in {"none", "wait", "run"} : Now(c, op, pc)
    BY <1>0, <1>2, <1>b, RunSteps, CallSteps DEF Ran, CaptureRunsAgain, Waiting, CallOK
  <2> QED BY <1>1, <2>1, <2>2, <2>3, <2>4
<1>3. ASSUME NEW c \in Callers, Capture(c) \/ StartStreaming(c) PROVE FrameInv'
  <2>1. /\ UNCHANGED <<workers, worker, destroyed>> /\ (events' = events \/ StartStreaming(c))
        /\ \E o \in {"capture", "start"} : MayCall(c, o) /\ (o = "start" \/ ~StartStreaming(c))
    BY <1>3 DEF Capture, StartStreaming, MayCall
  <2>2. /\ call[c] = NoCall /\ destroyed = None
        /\ c \in Threads => \A d \in Callers : call[d].op # "destroy"
        /\ c \in Workers => ~StartStreaming(c)
    BY <2>1, MayCallMeans
  <2>3. \E op \in {"capture", "start"} : Now(c, op, "run")
    BY <1>0, <1>3, CallSteps
  <2> QED BY <1>0, <1>1, <2>1, <2>2, <2>3, NoCallIs
<1>4. ASSUME NEW c \in Callers, RunStarts(c) PROVE FrameInv'
  <2>1. /\ call[c].pc = "run" /\ UNCHANGED <<destroyed, events>> /\ worker' = session + 1 /\ Joined
        /\ workers' = [workers EXCEPT ![session + 1] = "poll"] /\ Ran(c, session + 1)
    BY <1>0, <1>4, RunSteps DEF RunStarts
  <2>2. call[c].op # "destroy" /\ call[c] # NoCall
    BY <1>b, <2>1, NoCallIs DEF CallOK
  <2>3. destroyed = None /\ (c \in Threads => \A d \in Callers : call[d].op # "destroy")
    BY <2>2, Who
  <2>4. \E op \in {"none", "capture"}, pc \in {"none", "wait"} : Now(c, op, pc)
    BY <2>1 DEF Ran
  <2>5. /\ \A d \in Callers \ {c} : call'[d] = call[d]
        /\ call'[c].op \in {"none", "capture"} /\ call'[c].pc \in {"none", "wait"}
    BY <2>4 DEF Now
  <2>6. \A w \in Workers : workers'[w] = IF w = session + 1 THEN "poll" ELSE workers[w]
    BY <1>0, <2>1 DEF Flags
  <2>7. Placed'
    <3> SUFFICES ASSUME NEW w \in Workers, w # session + 1, Live(w)
                 PROVE  \/ \E t \in Threads : call'[t].pc = "halting" /\ call'[t].joining = w
                        \/ call'[w].pc = "halted"
      BY <1>c, <2>1, <2>6 DEF Placed, Live
    <3>1. worker # w
      BY <2>1, <1>0 DEF Joined, Live, Flags
    <3> QED BY <1>0, <2>1, <2>3, <2>5, <3>1 DEF Placed
  <2>8. Destroying'
    BY <1>0, <1>c, <2>1, <2>3, <2>5, <2>6 DEF Destroying
  <2>9. WorkersHold' /\ AfterDestroy' /\ FrameFinishesFirst'
    BY <1>0, <1>c, <2>1, <2>3, <2>5 DEF WorkersHold, AfterDestroy, FrameFinishesFirst
  <2> QED BY <1>a, <2>7, <2>8, <2>9 DEF FrameInv
<1>5. ASSUME NEW c \in Callers, SetResolution(c) PROVE FrameInv'
  <2>1. /\ MayCall(c, "set") /\ UNCHANGED <<workers, destroyed, events>>
        /\ \E op \in {"set", "setOnly"} : HasHalted(c, op)
    BY <1>0, <1>5, HaltSteps DEF SetResolution
  <2>2. c \in Threads /\ call[c] = NoCall /\ \A d \in Callers : call[d].op # "destroy"
    BY <1>0, <2>1, MayCallMeans
  <2>3. destroyed = None
    BY <2>1, MayCallMeans
  <2>4. /\ \A d \in Callers \ {c} : call'[d] = call[d]
        /\ call'[c].op \in {"set", "setOnly"} /\ worker' = None
        /\ worker \in Workers => call'[c].pc = "halting" /\ call'[c].joining = worker
    BY <1>0, <2>1, <2>2 DEF HasHalted, Now
  <2>5. Placed'
    BY <1>0, <1>c, <2>1, <2>2, <2>3, <2>4, NoCallIs DEF Placed, Live
  <2>6. Destroying' /\ WorkersHold' /\ AfterDestroy' /\ FrameFinishesFirst'
    BY <1>0, <1>c, <2>1, <2>2, <2>3, <2>4 DEF Destroying, WorkersHold, AfterDestroy, FrameFinishesFirst
  <2> QED BY <1>a, <2>5, <2>6 DEF FrameInv
<1>6. ASSUME NEW c \in Callers, Destroy(c) PROVE FrameInv'
  <2>1. /\ MayCall(c, "destroy") /\ UNCHANGED <<workers, destroyed>> /\ events' = FALSE
        /\ HasHalted(c, "destroy") /\ \A t \in Threads : call[t] = NoCall
    BY <1>0, <1>6, HaltSteps DEF Destroy
  <2>2. /\ destroyed = None /\ call[c] = NoCall /\ (c \in Workers => workers[c] = "frame")
        /\ \A d \in Callers : call[d].pc \notin {"run", "halted"}
    BY <2>1, MayCallMeans
  <2>3. \A d \in Callers : call[d].op # "destroy"
    BY <1>0, <1>b, <2>1, <2>2, Who, NoCallIs DEF CallOK
  <2>4. \A w \in Workers : Live(w) => worker = w
    BY <1>0, <2>1, <2>2, NoCallIs DEF Placed
  <2>5. c \in Workers => worker = c
    BY <2>2, <2>4 DEF Live
  <2>6. /\ \A d \in Callers \ {c} : call'[d] = call[d]
        /\ call'[c].op = "destroy" /\ worker' = None
        /\ call'[c].pc \in {"halting", "halted"}
        /\ c \in Workers => call'[c].pc = "halted"
        /\ \A w \in Workers \ {c} : Live(w) => call'[c].pc = "halting" /\ call'[c].joining = w
    BY <1>0, <2>1, <2>4, <2>5 DEF HasHalted, Now
  <2>7. Placed'
    BY <1>0, <1>c, <2>1, <2>4, <2>5, <2>6 DEF Placed, Live
  <2>8. Destroying'
    <3>1. ASSUME NEW d \in Callers, call'[d].op = "destroy" PROVE d = c
      BY <2>3, <2>6, <3>1
    <3>2. \A w \in Workers \ {c} : workers'[w] = "frame" => call'[c].pc = "halting" /\ call'[c].joining = w
      BY <2>1, <2>6 DEF Live
    <3>3. \A t \in Threads \ {c} : call'[t] = NoCall
      BY <1>0, <2>1, <2>6
    <3> QED BY <1>c, <2>1, <2>2, <3>1, <3>2, <3>3 DEF Destroying
  <2>9. WorkersHold' /\ AfterDestroy' /\ FrameFinishesFirst'
    BY <1>0, <1>c, <2>1, <2>2, <2>6 DEF WorkersHold, AfterDestroy, FrameFinishesFirst
  <2> QED BY <1>a, <2>7, <2>8, <2>9 DEF FrameInv
<1>7. ASSUME NEW c \in Callers, HaltJoins(c) PROVE FrameInv'
  <2>1. /\ call[c].pc = "halting" /\ workers[call[c].joining] = "ended"
        /\ UNCHANGED <<workers, worker, events, destroyed>> /\ Now(c, call[c].op, "halted")
    BY <1>0, <1>7, HaltSteps DEF HaltJoins
  <2>2. c \in Threads /\ c \notin Workers /\ call[c] # NoCall
    BY <1>0, <2>1, NoCallIs DEF WorkersHold
  <2>3. destroyed = None
    BY <2>2, Who
  <2>4. /\ \A d \in Callers \ {c} : call'[d] = call[d]
        /\ call'[c].op = call[c].op /\ call'[c].pc = "halted"
    BY <2>1 DEF Now
  <2>5. Placed'
    <3> SUFFICES ASSUME NEW w \in Workers, Live(w)
                 PROVE  \/ worker' = w
                        \/ \E t \in Threads : call'[t].pc = "halting" /\ call'[t].joining = w
                        \/ call'[w].pc = "halted"
      BY <1>c, <2>1 DEF Placed, Live
    <3>1. ASSUME NEW t \in Threads, call[t].pc = "halting", call[t].joining = w PROVE t # c
      BY <2>1, <3>1 DEF Live
    <3> QED BY <1>0, <2>1, <2>2, <2>3, <2>4, <3>1 DEF Placed
  <2>6. Destroying'
    <3> SUFFICES ASSUME NEW d \in Callers, call'[d].op = "destroy"
                 PROVE  (/\ destroyed = None /\ ~events
                         /\ \A t \in Threads \ {d} : call[t] = NoCall
                         /\ \A e \in Callers : call[e].op = "destroy" => e = d
                         /\ \A w \in Workers \ {d} : workers[w] = "frame" =>
                              call[d].pc = "halting" /\ call[d].joining = w)'
      BY <1>c DEF Destroying
    <3>1. call[d].op = "destroy"
      BY <2>4
    <3>2. d = c
      BY <2>2, <3>1, Who
    <3>3. \A w \in Workers : workers[w] # "frame"
      BY <1>0, <2>1, <2>2, <3>1, <3>2 DEF Destroying
    <3> QED BY <1>0, <2>1, <2>4, <3>1, <3>2, <3>3 DEF Destroying
  <2>7. WorkersHold' /\ AfterDestroy' /\ FrameFinishesFirst'
    BY <1>0, <1>c, <2>1, <2>2, <2>3, <2>4 DEF WorkersHold, AfterDestroy, FrameFinishesFirst
  <2> QED BY <1>a, <2>5, <2>6, <2>7 DEF FrameInv
<1>8. ASSUME NEW c \in Callers, Resets(c) PROVE FrameInv'
  <2>1. /\ call[c].pc = "halted" /\ call[c].op # "destroy"
        /\ UNCHANGED <<workers, worker, events, destroyed>>
    BY <1>8 DEF Resets
  <2>2. c \in Threads /\ c \notin Workers /\ call[c] # NoCall
    BY <1>0, <2>1, Who, NoCallIs
  <2>3. destroyed = None /\ \A d \in Callers : call[d].op # "destroy"
    BY <2>1, <2>2, Who
  <2>4. \E op \in {"set", "none"}, pc \in {"run", "none"} : Now(c, op, pc)
    BY <1>0, <1>8, HaltSteps
  <2> QED BY <1>1, <2>1, <2>2, <2>3, <2>4
<1>9. ASSUME NEW c \in Callers, Destroyed(c) PROVE FrameInv'
  <2>1. /\ call[c].pc = "halted" /\ call[c].op = "destroy" /\ UNCHANGED <<workers, worker, events>>
        /\ destroyed' = c /\ Now(c, "none", "none") /\ call'[c] = NoCall
    BY <1>0, <1>9, HaltSteps DEF Destroyed
  <2>2. /\ \A t \in Threads \ {c} : call[t] = NoCall
        /\ ~events /\ \A d \in Callers \ {c} : call[d].op # "destroy"
        /\ \A w \in Workers \ {c} : workers[w] # "frame"
    BY <1>0, <2>1 DEF Destroying
  <2>3. \A d \in Callers : call'[d] = NoCall
    BY <1>0, <1>b, <2>1, <2>2 DEF CallOK, Now
  <2>4. destroyed' # None
    BY <1>0, <2>1
  <2>5. Placed' /\ Destroying' /\ WorkersHold'
    BY <1>0, <1>c, <2>3, <2>4, NoCallIs DEF Placed, Destroying, WorkersHold
  <2>6. AfterDestroy' /\ FrameFinishesFirst'
    BY <1>0, <1>c, <2>1, <2>2, <2>3 DEF AfterDestroy, FrameFinishesFirst
  <2> QED BY <1>a, <2>5, <2>6 DEF FrameInv
<1>10. ASSUME NEW w \in Workers, Work(w) PROVE FrameInv'
  <2>1. /\ UNCHANGED <<call, worker, events, destroyed>> /\ Live(w)
        /\ workers' \in [Workers -> {"new", "poll", "frame", "ended"}]
        /\ \A v \in Workers \ {w} : workers'[v] = workers[v]
        /\ workers'[w] = "frame" => events
    BY <1>0, <1>10 DEF Work, WorkerStops, WorkerFails, WorkerTakes, HandlerReturns, Turns, Release, Live, Flags
  <2>2. \A v \in Workers : Live(v)' => Live(v)
    BY <2>1 DEF Live
  <2>3. Placed'
    BY <1>0, <1>c, <2>1, <2>2 DEF Placed
  <2>4. Destroying'
    BY <1>0, <1>c, <2>1 DEF Destroying
  <2>5. WorkersHold' /\ AfterDestroy' /\ FrameFinishesFirst'
    BY <1>0, <1>c, <2>1 DEF WorkersHold, AfterDestroy, FrameFinishesFirst
  <2> QED BY <1>a, <2>3, <2>4, <2>5 DEF FrameInv
<1>11. ASSUME UNCHANGED <<call, worker, workers, destroyed>>, events' = events \/ events' = FALSE PROVE FrameInv'
  <2>1. Placed' /\ Destroying' /\ WorkersHold'
    BY <1>0, <1>c, <1>11 DEF Placed, Live, Destroying, WorkersHold
  <2>2. AfterDestroy' /\ FrameFinishesFirst'
    BY <1>0, <1>c, <1>11 DEF AfterDestroy, FrameFinishesFirst
  <2> QED BY <1>a, <2>1, <2>2 DEF FrameInv
<1>12. ASSUME NEW c \in Callers, StopStreaming(c) \/ SetsStill(c) PROVE FrameInv'
  BY <1>11, <1>12 DEF StopStreaming, SetsStill
<1>13. CASE WarmUpPasses \/ Unplug \/ UNCHANGED vars
  BY <1>11, <1>13 DEF WarmUpPasses, Unplug, vars
<1> QED BY <1>2, <1>3, <1>4, <1>5, <1>6, <1>7, <1>8, <1>9, <1>10, <1>12, <1>13
        DEF Next, Calls, GoesOn

-----------------------------------------------------------------------------
\* What every step does to the session: it stays as it is, or somebody starts
\* the next one and whoever waits in Halt has spoilt it.
LEMMA StreamKeeps ==
  ASSUME TypeOK, CallsOK, StreamInv, [Next]_vars PROVE StreamInv'
<1>0. /\ Holds /\ Flags /\ None \notin Callers /\ session \in Nat
      /\ Workers \subseteq Callers /\ Threads \subseteq Callers
  BY Inside
<1>b. \A c \in Callers : CallOK(c)
  BY DEF CallsOK
<1>c. UNCHANGED <<Workers, Threads, Callers>>
  BY DEF Workers, Callers
<1> SUFFICES ASSUME destroyed' = None, hurt' = "no" PROVE StreamOK'
  BY DEF StreamInv
<1>1. ASSUME NEW c \in Callers, RunStarts(c) PROVE StreamOK'
  <2>1. /\ call[c].pc = "run" /\ ~Halts /\ running' = TRUE /\ stopping' = FALSE
        /\ session' = session + 1 /\ workers' = [workers EXCEPT ![session + 1] = "poll"]
        /\ session + 1 \in Workers /\ Ran(c, session + 1)
    <3>1. session + 1 \in Workers
      BY <1>0, <1>1, Inside DEF RunStarts, Workers
    <3>2. Ran(c, session + 1) /\ ~Halts
      BY <1>1, RunSteps DEF RunStarts
    <3> QED BY <1>1, <3>1, <3>2 DEF RunStarts
  <2>2. \A d \in Callers \ {c} : call[d].pc \notin {"halting", "halted"}
    BY <1>0, <2>1 DEF Halts, Holds
  <2>3. \A d \in Callers : call'[d].op \notin {"setOnly", "destroy"}
    <3>1. call'[c].op \in {"none", "capture"} /\ \A d \in Callers \ {c} : call'[d] = call[d]
      BY <2>1 DEF Ran, Now
    <3> QED BY <1>b, <2>2, <3>1 DEF CallOK
  <2>4. session' \in Workers' /\ Live(session)'
    BY <1>0, <1>c, <2>1 DEF Flags, Live
  <2> QED BY <1>c, <2>1, <2>3, <2>4 DEF StreamOK
<1>d. ASSUME ~(\E c \in Callers : RunStarts(c)) PROVE destroyed = None /\ hurt = "no"
  BY <1>0, <1>d DEF Next, Calls, GoesOn, Work, RunningAlready, RunThrows, Capture, CaptureReturns, CaptureThrows,
     CaptureRunsAgain, StartStreaming, StopStreaming, HaltJoins, SetsStill, SetResolution, Resets, Destroy,
     Destroyed, WorkerStops, WorkerFails, WorkerTakes, HandlerReturns, WarmUpPasses, Unplug, vars
<1> SUFFICES ASSUME ~(\E c \in Callers : RunStarts(c)) PROVE StreamOK'
  BY <1>1
<1>e. /\ running => session \in Workers /\ Live(session)
      /\ running /\ stopping => \E c \in Callers : call[c].pc \in {"halting", "halted"}
      /\ \A c \in Callers : call[c].op \in {"setOnly", "destroy"} =>
           ~events \/ threw \/ \E d \in Callers : Starts(d)
      /\ events /\ ~gone /\ ~threw => running \/ \E c \in Callers : WillRun(c)
  BY <1>d DEF StreamInv, StreamOK
\* A call goes on outside of Run and Halt, and nothing else changes.
<1>2. ASSUME NEW c \in Callers, NEW op, NEW pc, Now(c, op, pc), pc \in {"none", "run"},
             op \notin {"setOnly", "destroy"}, call[c].pc \in {"none", "wait"},
             UNCHANGED <<running, stopping, session, workers, gone, threw>>,
             events' = events \/ (pc = "run" /\ op = "start")
      PROVE  StreamOK'
  <2>1. call'[c].pc = pc /\ call'[c].op = op /\ \A d \in Callers \ {c} : call'[d] = call[d]
    BY <1>2 DEF Now
  <2>2. /\ running' => session' \in Workers' /\ Live(session)'
        /\ running' /\ stopping' => \E d \in Callers' : call'[d].pc \in {"halting", "halted"}
    BY <1>c, <1>e, <1>2, <2>1 DEF Live
  <2>3. \A d \in Callers : Starts(d) => Starts(d)'
    BY <1>2, <2>1 DEF Starts
  <2>4. \A d \in Callers : WillRun(d) => WillRun(d)'
    BY <1>2, <2>1 DEF WillRun
  <2>5. events' = events \/ (Starts(c)' /\ WillRun(c)')
    BY <1>2, <2>1 DEF Starts, WillRun
  <2>6. \A d \in Callers : call'[d].op \in {"setOnly", "destroy"} =>
           ~events' \/ threw' \/ \E e \in Callers : Starts(e)'
    BY <1>e, <1>2, <2>1, <2>3, <2>5
  <2>7. events' /\ ~gone' /\ ~threw' => running' \/ \E d \in Callers : WillRun(d)'
    BY <1>e, <1>2, <2>4, <2>5
  <2> QED BY <1>c, <2>2, <2>6, <2>7 DEF StreamOK
<1>3. ASSUME NEW c \in Callers,
             Capture(c) \/ StartStreaming(c) \/ CaptureReturns(c) \/ CaptureThrows(c) \/ CaptureRunsAgain(c)
      PROVE  StreamOK'
  <2>1. /\ UNCHANGED <<running, stopping, session, workers, gone, threw>>
        /\ events' = events \/ StartStreaming(c)
        /\ call[c].pc \in {"none", "wait"} /\ call[c].op \notin {"setOnly", "destroy"}
    <3>1. call[c] = NoCall \/ call[c].pc = "wait"
      BY <1>3 DEF Capture, StartStreaming, CaptureReturns, CaptureThrows, CaptureRunsAgain, MayCall, Waiting
    <3>2. call[c].pc \in {"none", "wait"} /\ call[c].op \notin {"setOnly", "destroy"}
      BY <1>b, <3>1, NoCallIs DEF CallOK
    <3> QED BY <1>3, <3>2 DEF Capture, StartStreaming, CaptureReturns, CaptureThrows, CaptureRunsAgain
  <2>2. CASE StartStreaming(c)
    <3>1. Now(c, "start", "run")
      BY <2>2, CallSteps
    <3> QED BY <1>2, <2>1, <3>1
  <2>3. CASE ~StartStreaming(c)
    <3>1. \E op \in {"none", "capture", call[c].op}, pc \in {"none", "run"} : Now(c, op, pc)
      BY <1>3, <2>3, CallSteps
    <3>2. PICK op \in {"none", "capture", call[c].op}, pc \in {"none", "run"} : Now(c, op, pc)
      BY <3>1
    <3>3. events' = events /\ op \notin {"setOnly", "destroy"}
      BY <2>1, <2>3
    <3> QED BY <1>2, <2>1, <3>2, <3>3
  <2> QED BY <2>2, <2>3
\* Run comes back without a new session: nobody started it in vain.
<1>4. ASSUME NEW c \in Callers, RunningAlready(c) PROVE StreamOK'
  <2>1. /\ call[c].pc = "run" /\ running /\ mutex = c /\ Ran(c, session)
        /\ UNCHANGED <<running, stopping, session, workers, events, gone, threw>>
        /\ call[c].op = "start" => ~Halts
    BY <1>4, RunSteps DEF RunningAlready, Ran
  <2>2. /\ \A d \in Callers \ {c} : call'[d] = call[d]
        /\ call'[c].op \in {"none", "capture"} /\ call'[c].pc \in {"none", "wait"}
    BY <2>1 DEF Ran, Now
  <2>3. \A d \in Callers : call[d].op \in {"setOnly", "destroy"} => Halts
    BY <1>0, <1>b, <2>1 DEF CallOK, Halts, Holds
  <2>4. \A d \in Callers : Starts(d) => d = c /\ call[c].op = "start"
    BY <1>0, <2>1 DEF Starts, Holds
  <2>5. \A d \in Callers : call'[d].op \in {"setOnly", "destroy"} => ~events' \/ threw'
    BY <1>e, <2>1, <2>2, <2>3, <2>4
  <2>6. /\ running' => session' \in Workers' /\ Live(session)'
        /\ running' /\ stopping' => \E d \in Callers' : call'[d].pc \in {"halting", "halted"}
    BY <1>c, <1>e, <2>1, <2>2 DEF Live
  <2> QED BY <1>c, <2>1, <2>5, <2>6 DEF StreamOK
<1>5. ASSUME NEW c \in Callers, RunThrows(c) PROVE StreamOK'
  BY <1>c, <1>5 DEF RunThrows, StreamOK
<1>6. ASSUME NEW c \in Callers, SetResolution(c) \/ Destroy(c) PROVE StreamOK'
  <2>1. \E op \in {"set", "setOnly", "destroy"} :
          HasHalted(c, op) /\ (op # "set" => ~events') /\ (op = "set" => running)
    <3>1. CASE SetResolution(c)
      <4>1. CASE events
        BY <3>1, <4>1, HaltSteps DEF SetResolution
      <4>2. CASE ~events
        BY <3>1, <4>2, HaltSteps DEF SetResolution
      <4> QED BY <4>1, <4>2
    <3>2. CASE Destroy(c)
      BY <3>2, HaltSteps DEF Destroy
    <3> QED BY <1>6, <3>1, <3>2
  <2>2. PICK op \in {"set", "setOnly", "destroy"} :
          HasHalted(c, op) /\ (op # "set" => ~events') /\ (op = "set" => running)
    BY <2>1
  <2>3. /\ UNCHANGED <<running, workers, session, gone, threw>> /\ call[c] = NoCall
        /\ events' = events \/ events' = FALSE
    BY <1>6 DEF SetResolution, Destroy, MayCall
  <2>4. /\ call'[c].op = op /\ call'[c].pc \in {"halting", "halted"}
        /\ \A d \in Callers \ {c} : call'[d] = call[d]
    BY <2>2 DEF HasHalted, Now
  <2>5. \A d \in Callers : (Starts(d) => Starts(d)') /\ (WillRun(d) => WillRun(d)')
    BY <2>3, <2>4, NoCallIs DEF Starts, WillRun
  <2>6. \A d \in Callers : call'[d].op \in {"setOnly", "destroy"} =>
          ~events' \/ threw' \/ \E e \in Callers : Starts(e)'
    BY <1>e, <2>2, <2>3, <2>4, <2>5
  <2>7. events' /\ ~gone' /\ ~threw' => running' \/ \E d \in Callers : WillRun(d)'
    BY <1>e, <2>3, <2>5
  <2>8. running' => session' \in Workers' /\ Live(session)'
    BY <1>c, <1>e, <2>3 DEF Live
  <2> QED BY <1>c, <2>4, <2>6, <2>7, <2>8 DEF StreamOK
<1>7. ASSUME NEW c \in Callers, HaltJoins(c) PROVE StreamOK'
  <2>1. /\ call[c].pc = "halting" /\ Now(c, call[c].op, "halted")
        /\ UNCHANGED <<workers, events, running, stopping, session, gone, threw>>
    BY <1>7, HaltSteps DEF HaltJoins
  <2>2. /\ \A d \in Callers : call'[d].op = call[d].op
        /\ \A d \in Callers \ {c} : call'[d] = call[d]
        /\ call'[c].pc = "halted"
    BY <2>1 DEF Now
  <2>3. \A d \in Callers : (Starts(d) => Starts(d)') /\ (WillRun(d) => WillRun(d)')
    BY <2>1, <2>2 DEF Starts, WillRun
  <2>4. \A d \in Callers : call'[d].op \in {"setOnly", "destroy"} =>
          ~events' \/ threw' \/ \E e \in Callers : Starts(e)'
    BY <1>e, <2>1, <2>2, <2>3
  <2>5. events' /\ ~gone' /\ ~threw' => running' \/ \E d \in Callers : WillRun(d)'
    BY <1>e, <2>1, <2>3
  <2>6. running' => session' \in Workers' /\ Live(session)'
    BY <1>c, <1>e, <2>1 DEF Live
  <2> QED BY <1>c, <2>2, <2>4, <2>5, <2>6 DEF StreamOK
<1>8. ASSUME NEW c \in Callers, Resets(c) PROVE StreamOK'
  <2>1. /\ call[c].pc = "halted" /\ call[c].op # "destroy" /\ running' = FALSE /\ mutex = c
        /\ UNCHANGED <<events, gone, threw>>
    BY <1>8, HaltSteps DEF Resets
  <2>2. \A d \in Callers : ~Starts(d) /\ (WillRun(d) => call[d].op = "set")
    BY <1>0, <2>1 DEF Starts, WillRun, Holds
  <2>3. /\ \A d \in Callers \ {c} : call'[d] = call[d]
        /\ call'[c].op \in {"set", "none"}
        /\ call[c].op = "set" => call'[c].pc = "run"
    BY <1>8, HaltSteps DEF Now
  <2>4. call[c].op = "set" \/ ~events \/ threw
    <3>1. call[c].op \in {"set", "setOnly"}
      BY <1>b, <2>1 DEF CallOK
    <3> QED BY <1>e, <2>2, <3>1
  <2>5. \A d \in Callers : call'[d].op \in {"setOnly", "destroy"} => ~events' \/ threw'
    BY <1>e, <2>1, <2>2, <2>3
  <2>6. events' /\ ~gone' /\ ~threw' => WillRun(c)'
    BY <2>1, <2>3, <2>4 DEF WillRun
  <2> QED BY <1>c, <2>1, <2>5, <2>6 DEF StreamOK
<1>9. ASSUME NEW c \in Callers, Destroyed(c) PROVE StreamOK'
  BY <1>0, <1>9 DEF Destroyed
\* Only a worker that is not told to stop, or does not stream, ends.
<1>10. ASSUME NEW w \in Workers, Work(w) PROVE StreamOK'
  <2>1. UNCHANGED <<call, events, stopping, session, gone, threw>>
    BY <1>10 DEF Work, WorkerStops, WorkerFails, WorkerTakes, HandlerReturns
  <2>a. \A d \in Callers : (Starts(d)' <=> Starts(d)) /\ (WillRun(d)' <=> WillRun(d))
    BY <2>1 DEF Starts, WillRun
  <2>b. \A d \in Callers : call'[d].op \in {"setOnly", "destroy"} =>
          ~events' \/ threw' \/ \E e \in Callers : Starts(e)'
    BY <1>e, <2>1, <2>a
  <2>2. CASE WorkerTakes(w) \/ HandlerReturns(w)
    <3>1. running' = running /\ \A v \in Workers : Live(v) => Live(v)'
      BY <1>0, <2>2 DEF WorkerTakes, HandlerReturns, Live, Flags
    <3> QED BY <1>c, <1>e, <2>1, <2>a, <2>b, <3>1 DEF StreamOK, Live
  <2>3. CASE WorkerFails(w)
    <3>1. running' = FALSE /\ (running => gone)
      BY <1>d, <2>3 DEF WorkerFails, Release
    <3> QED BY <1>c, <1>e, <2>1, <2>a, <2>b, <3>1 DEF StreamOK
  <2>4. CASE WorkerStops(w)
    <3>1. running' = FALSE /\ mutex = None /\ (stopping \/ ~events)
      BY <2>4 DEF WorkerStops, Release, Turns
    <3>2. ASSUME running, events, ~threw PROVE \E d \in Callers : WillRun(d)
      <4>1. PICK d \in Callers : call[d].pc \in {"halting", "halted"}
        BY <1>e, <3>1, <3>2
      <4>2. \A e \in Callers : ~Starts(e)
        BY <1>0, <3>1 DEF Starts, Holds
      <4>3. call[d].op = "set"
        BY <1>b, <1>e, <3>2, <4>1, <4>2 DEF CallOK
      <4> QED BY <4>1, <4>3 DEF WillRun
    <3> QED BY <1>c, <1>e, <2>1, <2>a, <2>b, <3>1, <3>2 DEF StreamOK
  <2> QED BY <1>10, <2>2, <2>3, <2>4 DEF Work
<1>11. ASSUME UNCHANGED <<call, workers, stopping, session, running, threw>>,
              events' = events \/ events' = FALSE, gone' = gone \/ gone' = TRUE
       PROVE  StreamOK'
  <2>1. \A d \in Callers : (Starts(d)' <=> Starts(d)) /\ (WillRun(d)' <=> WillRun(d))
    BY <1>11 DEF Starts, WillRun
  <2>2. \A d \in Callers : call'[d].op \in {"setOnly", "destroy"} =>
          ~events' \/ threw' \/ \E e \in Callers : Starts(e)'
    BY <1>e, <1>11, <2>1
  <2>3. events' /\ ~gone' /\ ~threw' => running' \/ \E d \in Callers : WillRun(d)'
    <3>1. CASE events /\ ~gone /\ ~threw
      BY <1>e, <1>11, <2>1, <3>1
    <3>2. CASE ~events \/ gone \/ threw
      <4>1. (events' => events) /\ (gone => gone') /\ (threw => threw')
        <5>1. (events' => events) /\ (threw => threw')
          BY <1>11
        <5>2. gone => gone'
          BY <1>11
        <5> QED BY <5>1, <5>2
      <4> QED BY <3>2, <4>1
    <3> QED BY <3>1, <3>2
  <2>4. /\ running' => session' \in Workers' /\ Live(session)'
        /\ running' /\ stopping' => \E d \in Callers' : call'[d].pc \in {"halting", "halted"}
    BY <1>c, <1>e, <1>11 DEF Live
  <2> QED BY <1>c, <2>2, <2>3, <2>4 DEF StreamOK
<1>12. ASSUME NEW c \in Callers, StopStreaming(c) \/ SetsStill(c) PROVE StreamOK'
  BY <1>11, <1>12 DEF StopStreaming, SetsStill
<1>13. CASE WarmUpPasses \/ Unplug \/ UNCHANGED vars
  BY <1>11, <1>13 DEF WarmUpPasses, Unplug, vars
<1> QED BY <1>3, <1>4, <1>5, <1>6, <1>7, <1>8, <1>9, <1>10, <1>12, <1>13 DEF Next, Calls, GoesOn

-----------------------------------------------------------------------------
LEMMA Begins == Init => FrameInv /\ PictureIsNew /\ StreamInv
<1> SUFFICES ASSUME Init PROVE FrameInv /\ PictureIsNew /\ StreamInv
  OBVIOUS
<1>1. \A c \in Callers : call[c] = NoCall /\ call[c].pc = "none" /\ call[c].op = "none"
  BY NoCallIs DEF Init
<1>2. \A w \in Workers : workers[w] = "new"
  BY DEF Init
<1>3. Flags
  <2>1. session = 0 /\ settled = 0 /\ sent = 0 /\ latestNumber = 0 /\ worker = None /\ destroyed = None
    BY DEF Init
  <2>2. latest \in [number : 0..0, session : 0..0, settled : 0..0] /\ latest.number = 0
    BY DEF Init
  <2>3. \A w \in Workers : workers[w] = "new" <=> w > 0
    BY <1>2 DEF Workers
  <2>4. workers \in [Workers -> {"new", "poll", "frame", "ended"}]
    BY DEF Init
  <2>5. /\ running \in BOOLEAN /\ events \in BOOLEAN /\ stopping \in BOOLEAN /\ failed \in BOOLEAN
        /\ gone \in BOOLEAN /\ hurt \in {"no", "broken", "crossed"}
    BY DEF Init
  <2> QED BY <2>1, <2>2, <2>3, <2>4, <2>5, BoundsAssumption DEF Flags
<1>4. Holds
  BY <1>1, BoundsAssumption DEF Init, Holds
<1>5. call \in [Callers -> CallRecords]
  <2>1. NoCall \in CallRecords
    BY BoundsAssumption DEF CallRecords, NoCall, Init
  <2> QED BY <2>1 DEF Init
<1>6. TypeOK
  BY <1>3, <1>4, <1>5, Types
<1>7. Workers \subseteq Callers /\ Threads \subseteq Callers
  BY DEF Callers
<1>8. CallsOK
  BY <1>1, <1>7 DEF CallsOK, CallOK, Called
<1>9. Placed /\ Destroying /\ WorkersHold /\ AfterDestroy /\ FrameFinishesFirst
  BY <1>1, <1>2, <1>7 DEF Placed, Live, Destroying, WorkersHold, AfterDestroy, FrameFinishesFirst, Init
<1>10. PictureIsNew
  BY <1>1, <1>7 DEF PictureIsNew
<1>11. StreamInv
  BY <1>1, <1>2, <1>7 DEF StreamInv, StreamOK, Live, Init
<1> QED BY <1>6, <1>8, <1>9, <1>10, <1>11 DEF FrameInv

-----------------------------------------------------------------------------
\* Whatever the threads and the handler call, every variable keeps its type: the
\* mutex is held by whoever is at a step under it, workers come in their order.
THEOREM TypeCorrect == Spec => []TypeOK
<1>1. Init => TypeOK
  BY Begins DEF FrameInv
<1>2. TypeOK /\ [Next]_vars => TypeOK'
  BY TypeKeeps
<1> QED BY <1>1, <1>2, PTL DEF Spec

\* "a frame being delivered finishes first" (Camera.h:49), for any threads: the
\* destructor returns when no frame event goes on, but for the one it was called in.
THEOREM FrameFinishes == ASSUME HandlerTakesOrStops PROVE Spec => []FrameFinishesFirst
<1>1. Init => FrameInv
  BY Begins
<1>2. FrameInv /\ [Next]_vars => FrameInv'
  BY FrameKeeps
<1>3. FrameInv => FrameFinishesFirst
  BY DEF FrameInv
<1> QED BY <1>1, <1>2, <1>3, PTL DEF Spec

\* A camera that streams runs and has its worker, through idle stops and changes
\* of the resolution, whatever the threads and the handler call: unless it broke,
\* Start threw, or it was started while somebody waited in Halt.
THEOREM Streams == Spec => []StreamingRuns
<1> DEFINE Inv == TypeOK /\ CallsOK /\ StreamInv
<1>1. Init => Inv
  BY Begins DEF FrameInv
<1>2. Inv /\ [Next]_vars => Inv'
  BY TypeKeeps, CallsKeep, StreamKeeps
<1>3. Inv => StreamingRuns
  <2> SUFFICES ASSUME Inv, events, ~gone, destroyed = None, ~threw, hurt = "no",
                      \A c \in Callers : call[c].pc \notin {"run", "halting", "halted"}
               PROVE  running /\ \E w \in Workers : workers[w] \in {"poll", "frame"}
    BY DEF StreamingRuns
  <2>1. running
    BY DEF StreamInv, StreamOK, WillRun
  <2> QED BY <2>1 DEF StreamInv, StreamOK, Live
<1> QED BY <1>1, <1>2, <1>3, PTL DEF Spec

\* A picture that Capture returns came after the call, whoever else captures, sets
\* the resolution or stops meanwhile.
PictureCameLater ==
  [][\A c \in Callers : CaptureReturns(c) => latest.number > call[c].from]_vars

THEOREM CameLater == Spec => PictureCameLater
<1> DEFINE Inv == TypeOK /\ CallsOK /\ PictureIsNew
<1>1. Init => Inv
  BY Begins DEF FrameInv
<1>2. Inv /\ [Next]_vars => Inv'
  BY TypeKeeps, CallsKeep, PictureKeeps
<1>3. Inv => \A c \in Callers : CaptureReturns(c) => latest.number > call[c].from
  <2> SUFFICES ASSUME Inv, NEW c \in Callers, CaptureReturns(c) PROVE latest.number > call[c].from
    OBVIOUS
  <2>1. call[c].pc = "wait" /\ latestNumber > call[c].after
    BY DEF CaptureReturns, Waiting, HasPicture
  <2>2. latestNumber \in Nat /\ call[c].after \in Nat
    BY Inside DEF CallRecords
  <2> QED BY <2>1, <2>2 DEF PictureIsNew
<1> QED BY <1>1, <1>2, <1>3, PTL DEF Spec, PictureCameLater

=============================================================================

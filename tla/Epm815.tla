------------------------------- MODULE Epm815 -------------------------------
(***************************************************************************)
(* The board's buses and ports (namespaces I2c, Spi, Pwm, SerialPort and   *)
(* Can): Initialize connects the pins and sets the port up, UnInitialize   *)
(* gives them back.                                                        *)
(*                                                                         *)
(* PeripheralPins::Connect and Disconnect are one step each, which the     *)
(* module PeripheralPins shows to be sound.  SerialPort has a gate around  *)
(* its calls; I2c and Can have none, so two threads in one port interleave *)
(* between Connect, the driver's file or the ip commands, and the undo.    *)
(* A call that throws before it changes anything has no action.            *)
(***************************************************************************)
EXTENDS Integers, FiniteSets

CONSTANTS
  Pins,
  I2cBuses, PlainBuses, UartPorts, CanPorts,  \* PlainBuses: SPI buses, PWM pins
  PinsOf,      \* owner -> its pins
  FlowPins,    \* UART -> its RTS and CTS
  Speeds,      \* I2C frequencies that are asked for
  Reachable,   \* I2C bus -> the fastest one the board can reach
  DefaultSpeed,
  Threads,
  Uses,        \* thread -> the owners it calls
  NotAsked,    \* not initialized
  Free         \* nobody has SerialPort's gate

Owners == I2cBuses \cup PlainBuses \cup UartPorts \cup CanPorts

ASSUME OwnersAssumption ==
  /\ I2cBuses \cap (PlainBuses \cup UartPorts \cup CanPorts) = {}
  /\ PlainBuses \cap (UartPorts \cup CanPorts) = {} /\ UartPorts \cap CanPorts = {}
  /\ PinsOf \in [Owners -> SUBSET Pins] /\ FlowPins \in [UartPorts -> SUBSET Pins]
  /\ \A o \in Owners : PinsOf[o] # {}
  /\ Uses \in [Threads -> SUBSET Owners]
ASSUME SpeedsAssumption ==
  Speeds \subseteq Nat /\ DefaultSpeed \in Nat /\ Reachable \in [I2cBuses -> Nat]
ASSUME NamesAssumption == NotAsked \notin Nat /\ Free \notin Threads

VARIABLES
  pins,         \* owner -> the pins it has connected
  speed,        \* I2C bus -> its clock_frequency file
  flowControl,  \* UART -> with, without (as initialized), or NotAsked
  running,      \* the CAN links that are up
  gate,         \* SerialPort's
  thread,       \* what each thread is in the middle of
  asked,        \* what the last successful Initialize asked for, until UnInitialize
                \* or the next connection (a history variable)
  cut           \* CAN ports with a command that was killed: it took too long

vars == <<pins, speed, flowControl, running, gate, thread, asked, cut>>

-----------------------------------------------------------------------------
Idle == [pc |-> "idle", owner |-> NotAsked, argument |-> NotAsked, made |-> FALSE]

Init ==
  /\ pins = [o \in Owners |-> {}]
  /\ speed = [b \in I2cBuses |-> DefaultSpeed]
  /\ flowControl = [u \in UartPorts |-> NotAsked]
  /\ running = {}
  /\ gate = Free
  /\ thread = [t \in Threads |-> Idle]
  /\ asked = [o \in Owners |-> NotAsked]
  /\ cut = {}

With == 1  \* UART flow control; and what CAN and the plain buses are asked for
Without == 0
Flows == {With, Without}

Calls(t, o) == thread[t] = Idle /\ o \in Uses[t]

Goes(t, pc) == thread' = [thread EXCEPT ![t].pc = pc]
Returns(t) == thread' = [thread EXCEPT ![t] = Idle]

\* Connect(o, list): whether o made the connection; others' pins make it throw
ConnectTo(t, o, list, argument, pc) ==
  LET made == pins[o] = {}
  IN  /\ made => \A other \in Owners : pins[other] \cap list = {}
      /\ pins' = IF made THEN [pins EXCEPT ![o] = list] ELSE pins
      /\ asked' = IF made THEN [asked EXCEPT ![o] = NotAsked] ELSE asked
      /\ thread' = [thread EXCEPT ![t] =
           [pc |-> pc, owner |-> o, argument |-> argument, made |-> made]]

\* UnInitialize's Disconnect
Disconnect(o) ==
  /\ pins' = [pins EXCEPT ![o] = {}]
  /\ asked' = [asked EXCEPT ![o] = NotAsked]

Succeeds(t) ==
  /\ asked' = [asked EXCEPT ![thread[t].owner] = thread[t].argument]
  /\ Returns(t)

\* Mutants: the catch forgets the pins, or takes them from an initialized bus.
UndoNothing(t) ==
  /\ thread[t].pc = "undo"
  /\ Returns(t)
  /\ UNCHANGED <<pins, asked, speed, flowControl, running, gate, cut>>

UndoAlways(t) ==
  /\ thread[t].pc = "undo"
  /\ pins' = [pins EXCEPT ![thread[t].owner] = {}]
  /\ Returns(t)
  /\ UNCHANGED <<asked, speed, flowControl, running, gate, cut>>

\* The catch of I2c::Initialize and Can::Initialize
Undo(t) ==
  /\ thread[t].pc = "undo"
  /\ pins' = IF thread[t].made THEN [pins EXCEPT ![thread[t].owner] = {}] ELSE pins
  /\ Returns(t)
  /\ UNCHANGED <<asked, speed, flowControl, running, gate, cut>>

-----------------------------------------------------------------------------
\* I2c::Initialize
I2cConnects(t, b, frequency) ==
  /\ Calls(t, b)
  /\ ConnectTo(t, b, PinsOf[b], frequency, "write")
  /\ UNCHANGED <<speed, flowControl, running, gate, cut>>

\* SetFrequency: the kernel lowers a speed that the bus cannot reach
I2cWrites(t) ==
  LET b == thread[t].owner
      f == thread[t].argument
  IN  /\ thread[t].pc = "write"
      /\ speed' = [speed EXCEPT ![b] = IF f <= Reachable[b] THEN f ELSE Reachable[b]]
      /\ Goes(t, "check")
      /\ UNCHANGED <<pins, asked, flowControl, running, gate, cut>>

\* The file cannot be written, or the firmware has none
I2cWriteFails(t) ==
  /\ thread[t].pc = "write"
  /\ Goes(t, "undo")
  /\ UNCHANGED <<pins, asked, speed, flowControl, running, gate, cut>>

I2cChecks(t) ==
  /\ thread[t].pc = "check"
  /\ IF speed[thread[t].owner] = thread[t].argument
     THEN Succeeds(t)
     ELSE Goes(t, "undo") /\ UNCHANGED asked
  /\ UNCHANGED <<pins, speed, flowControl, running, gate, cut>>

\* UnInitialize of I2c, Spi and Pwm
UnInitialize(t, o) ==
  /\ Calls(t, o)
  /\ o \in I2cBuses \cup PlainBuses
  /\ Disconnect(o)
  /\ UNCHANGED <<speed, flowControl, running, gate, thread, cut>>

\* Spi::Initialize (with its driver loaded) and Pwm::Initialize
PlainInitialize(t, o) ==
  /\ Calls(t, o)
  /\ o \in PlainBuses
  /\ pins[o] = {} => \A other \in Owners : pins[other] \cap PinsOf[o] = {}
  /\ pins' = [pins EXCEPT ![o] = PinsOf[o]]
  /\ asked' = [asked EXCEPT ![o] = With]
  /\ UNCHANGED <<speed, flowControl, running, gate, thread, cut>>

-----------------------------------------------------------------------------
\* SerialPort::Initialize of a port that is not in flowControl; it does not
\* look at what Connect returns.
SerialConnects(t, u, flow) ==
  /\ Calls(t, u)
  /\ gate = Free
  /\ flow = With => FlowPins[u] # {}
  /\ flowControl[u] = NotAsked
  /\ ConnectTo(t, u, PinsOf[u] \cup (IF flow = With THEN FlowPins[u] ELSE {}), flow, "record")
  /\ gate' = t
  /\ UNCHANGED <<speed, flowControl, running, cut>>

SerialRecords(t) ==
  /\ thread[t].pc = "record"
  /\ flowControl' = [flowControl EXCEPT ![thread[t].owner] = thread[t].argument]
  /\ gate' = Free
  /\ Succeeds(t)
  /\ UNCHANGED <<pins, speed, running, cut>>

\* SerialPort::UnInitialize
SerialDisconnects(t, u) ==
  /\ Calls(t, u)
  /\ gate = Free
  /\ Disconnect(u)
  /\ gate' = t
  /\ thread' = [thread EXCEPT ![t] =
       [pc |-> "erase", owner |-> u, argument |-> NotAsked, made |-> FALSE]]
  /\ UNCHANGED <<speed, flowControl, running, cut>>

\* Mutant: the port keeps its entry.
SerialErasesNothing(t) ==
  /\ thread[t].pc = "erase"
  /\ gate' = Free
  /\ Returns(t)
  /\ UNCHANGED <<pins, asked, speed, flowControl, running, cut>>

SerialErases(t) ==
  /\ thread[t].pc = "erase"
  /\ flowControl' = [flowControl EXCEPT ![thread[t].owner] = NotAsked]
  /\ gate' = Free
  /\ Returns(t)
  /\ UNCHANGED <<pins, asked, speed, running, cut>>

-----------------------------------------------------------------------------
\* Can::Initialize
CanConnects(t, c) ==
  /\ Calls(t, c)
  /\ ConnectTo(t, c, PinsOf[c], With, "down")
  /\ UNCHANGED <<speed, flowControl, running, gate, cut>>

\* What a command does to the link: ip link set down, type, up
After(pc, c) ==
  CASE pc \in {"down", "stop"} -> running \ {c}
    [] pc = "type" -> running
    [] pc = "up" -> running \cup {c}

\* Mutant: the link is never set up.
NextCommandShort == [down |-> "type", type |-> "idle"]

NextCommand == [down |-> "type", type |-> "up"]

\* SystemCommands::Run: the command has done its work
CommandDone(t) ==
  LET pc == thread[t].pc
      c == thread[t].owner
  IN  /\ pc \in {"down", "type", "up", "stop"}
      /\ pc = "type" => c \notin running  \* the kernel refuses it while the link is up
      /\ running' = After(pc, c)
      /\ CASE pc \in {"down", "type"} -> Goes(t, NextCommand[pc]) /\ UNCHANGED asked
           [] pc = "up" -> Succeeds(t)
           [] pc = "stop" -> Goes(t, "disconnect") /\ UNCHANGED asked
      /\ cut' = IF pc \in {"down", "stop"} THEN cut \ {c} ELSE cut
      /\ UNCHANGED <<pins, speed, flowControl, gate>>

\* It failed and changed nothing: Run throws.
CommandFails(t) ==
  /\ thread[t].pc \in {"down", "type", "up", "stop"}
  /\ IF thread[t].pc = "stop" THEN Returns(t) ELSE Goes(t, "undo")
  /\ UNCHANGED <<pins, asked, speed, flowControl, running, gate, cut>>

\* It took too long and was killed, after it had done its work: Run throws.
CommandCut(t) ==
  LET pc == thread[t].pc
      c == thread[t].owner
  IN  /\ pc \in {"down", "up", "stop"}
      /\ running' = After(pc, c)
      /\ cut' = cut \cup {c}
      /\ IF pc = "stop" THEN Returns(t) ELSE Goes(t, "undo")
      /\ UNCHANGED <<pins, asked, speed, flowControl, gate>>

\* Mutant: the pins go before the link is stopped.
CanStopsLate(t, c) ==
  /\ Calls(t, c)
  /\ Disconnect(c)
  /\ thread' = [thread EXCEPT ![t] =
       [pc |-> "stop", owner |-> c, argument |-> NotAsked, made |-> FALSE]]
  /\ UNCHANGED <<speed, flowControl, running, gate, cut>>

\* Can::UnInitialize: stop the link, then give the pins back
CanStops(t, c) ==
  /\ Calls(t, c)
  /\ thread' = [thread EXCEPT ![t] =
       [pc |-> "stop", owner |-> c, argument |-> NotAsked, made |-> FALSE]]
  /\ UNCHANGED <<pins, asked, speed, flowControl, running, gate, cut>>

CanDisconnects(t) ==
  /\ thread[t].pc = "disconnect"
  /\ Disconnect(thread[t].owner)
  /\ Returns(t)
  /\ UNCHANGED <<speed, flowControl, running, gate, cut>>

-----------------------------------------------------------------------------
I2cNext(t) ==
  \/ \E b \in I2cBuses, f \in Speeds : I2cConnects(t, b, f)
  \/ I2cWrites(t) \/ I2cWriteFails(t) \/ I2cChecks(t)

SerialNext(t) ==
  \/ \E u \in UartPorts, flow \in Flows : SerialConnects(t, u, flow)
  \/ SerialRecords(t)
  \/ \E u \in UartPorts : SerialDisconnects(t, u)
  \/ SerialErases(t)

CanNext(t) ==
  \/ \E c \in CanPorts : CanConnects(t, c) \/ CanStops(t, c)
  \/ CommandDone(t) \/ CommandFails(t) \/ CommandCut(t)
  \/ CanDisconnects(t)

Next ==
  \E t \in Threads :
    \/ I2cNext(t)
    \/ SerialNext(t)
    \/ CanNext(t)
    \/ Undo(t)
    \/ \E o \in Owners : UnInitialize(t, o) \/ PlainInitialize(t, o)

Spec == Init /\ [][Next]_vars

-----------------------------------------------------------------------------
\* Where a call of each kind of port can be
OwnersAt == [
  idle |-> {NotAsked}, undo |-> I2cBuses \cup CanPorts,
  write |-> I2cBuses, check |-> I2cBuses, record |-> UartPorts, erase |-> UartPorts,
  down |-> CanPorts, type |-> CanPorts, up |-> CanPorts, stop |-> CanPorts,
  disconnect |-> CanPorts]

TypeOK ==
  /\ pins \in [Owners -> SUBSET Pins]
  /\ speed \in [I2cBuses -> Nat]
  /\ flowControl \in [UartPorts -> Flows \cup {NotAsked}]
  /\ running \subseteq CanPorts
  /\ gate \in Threads \cup {Free}
  /\ thread \in [Threads -> [pc : DOMAIN OwnersAt, owner : Owners \cup {NotAsked},
                             argument : Speeds \cup Flows \cup {NotAsked}, made : BOOLEAN]]
  /\ \A t \in Threads : thread[t].owner \in OwnersAt[thread[t].pc]
  /\ asked \in [Owners -> Speeds \cup Flows \cup {NotAsked}]
  /\ cut \subseteq CanPorts

Inside(o) == {t \in Threads : thread[t].owner = o}
Shared(o) == \E t, u \in Threads : t # u /\ o \in Uses[t] \cap Uses[u]

\* flowControl and the pins agree whenever the gate is free (Epm815.cpp:334,
\* which ignores what Connect returns): the port is in it exactly when its pins
\* are connected, with RTS and CTS exactly when it says so.
FlowControlMatchesPins ==
  gate = Free => \A u \in UartPorts :
    pins[u] = CASE flowControl[u] = NotAsked -> {}
                [] flowControl[u] = With -> PinsOf[u] \cup FlowPins[u]
                [] flowControl[u] = Without -> PinsOf[u]

\* Nothing is left half initialized (Epm815.cpp:115 and 401): a port that no
\* call is inside is connected only if an Initialize succeeded on it, also
\* when several threads initialize and stop it at once.
NothingHalfInitialized ==
  \A o \in Owners : pins[o] # {} /\ Inside(o) = {} => asked[o] # NotAsked

\* What was initialized keeps its pins until its thread gives them back: not
\* another Initialize that fails, nor a neighbour on the same pins, takes them.
InitializedKeepsPins ==
  \A o \in Owners : ~Shared(o) /\ asked[o] # NotAsked => PinsOf[o] \subseteq pins[o]

\* A CAN link only runs on its own pins (Epm815.cpp:411): nobody else can
\* connect them while it is up, but after a command that was cut off.
LinkRunsOnItsPins ==
  \A c \in CanPorts : ~Shared(c) /\ c \in running /\ c \notin cut => pins[c] # {}

=============================================================================

--------------------------- MODULE PeripheralPins ---------------------------
(***************************************************************************)
(* The pins of the chip and who uses them: PinReservations (pin -> owner), *)
(* PeripheralPins (owner -> the pins it connected and how it found them),  *)
(* the pin registers of Stm32Mp1Pins, and the GPIO controllers' part that  *)
(* reserves pins: OpenPin, ClosePin, SetPinMode and the destructor.        *)
(*                                                                         *)
(* PeripheralPins::gate is held for a whole Connect or Disconnect ("call"  *)
(* is that thread), a controller's gate for a whole OpenPin or ClosePin    *)
(* ("job"), but PinReservations::gate only for one Reserve or Release, and *)
(* PhysicalMemory's gate for one register.  So the steps of a Connect, of  *)
(* a Disconnect and of every controller interleave.                        *)
(*                                                                         *)
(* A call that throws before it changes anything (a pin is taken, a pin is *)
(* not open) leaves the state alone and has no action here.                *)
(***************************************************************************)
EXTENDS Sequences, Integers

CONSTANTS
  Pins,          \* pin numbers, Pins::Check
  Peripherals,   \* owner names: "I2C1", "UART4", "PWM PA8"...
  Controllers,   \* GPIO controllers; they all reserve as Gpio
  Lists,         \* [Peripherals -> sets of the pin lists Connect is given]
  Clocked,       \* pins whose port's clock is on and whose registers map
  Alternate,     \* [Peripherals -> Settings]: what Connect makes of a pin
  Settings,      \* register settings of one pin
  GpioSettings,  \* the ones SetPinMode makes
  Gpio,          \* the owner name "GPIO"
  Free,          \* no owner
  Absent,        \* no entry in a map
  Unknown

ASSUME NamesAssumption ==
  /\ Gpio \notin Peripherals
  /\ Absent \notin Peripherals
  /\ Free \notin Peripherals \cup Controllers \cup {Gpio}
  /\ Peripherals \cap Controllers = {}
  /\ Unknown \notin Settings

ASSUME ListsAssumption ==
  /\ Lists \in [Peripherals -> SUBSET Seq(Pins)]
  /\ \A o \in Peripherals : \A list \in Lists[o] :
       \A i, j \in 1..Len(list) : list[i] = list[j] => i = j

ASSUME SettingsAssumption ==
  /\ Alternate \in [Peripherals -> Settings]
  /\ GpioSettings \subseteq Settings
  /\ Clocked \subseteq Pins

VARIABLES
  owners,      \* PinReservations::owners
  connected,   \* PeripheralPins::connected: owner -> what it found, pin by pin
  reg,         \* the registers of each pin
  call,        \* the Connect or Disconnect that holds PeripheralPins::gate
  lines,       \* each controller's open lines
  job          \* what each controller's gate is held for

vars == <<owners, connected, reg, call, lines, job>>

-----------------------------------------------------------------------------
\* struct Saved: a pin, and how it was when Connect came
Saved == [pin : Pins, state : Settings]
NotConnected == [is |-> FALSE, list |-> <<>>]
Entry(list) == [is |-> TRUE, list |-> list]

PinSet(list) == {list[i] : i \in 1..Len(list)}
SavedPins(saved) == {saved[i].pin : i \in 1..Len(saved)}

NoCall == [phase |-> "idle", owner |-> Absent, pins |-> <<>>, saved |-> <<>>]
NoJob == [kind |-> "idle", pins |-> {}]

Init ==
  /\ owners = [p \in Pins |-> Free]
  /\ connected = [o \in Peripherals |-> NotConnected]
  /\ reg \in [Pins -> Settings]
  /\ call = NoCall
  /\ lines = [c \in Controllers |-> {}]
  /\ job = [c \in Controllers |-> NoJob]

\* Mutant: a pin one already has may be reserved again.
ReserveAgain(o, S) ==
  /\ \A p \in S : owners[p] \in {Free, o}
  /\ owners' = [p \in Pins |-> IF p \in S THEN o ELSE owners[p]]

\* PinReservations::Reserve and Release: one critical section each.  Reserve
\* looks at every pin before it takes the first; Release asks for no owner.
Reserve(o, S) ==
  /\ \A p \in S : owners[p] = Free
  /\ owners' = [p \in Pins |-> IF p \in S THEN o ELSE owners[p]]

Release(S) == owners' = [p \in Pins |-> IF p \in S THEN Free ELSE owners[p]]

-----------------------------------------------------------------------------
\* Mutant: the Reserve inside the try, so that its error frees the pins too.
ConnectReserveInTry(o, list) ==
  /\ call = NoCall
  /\ ~connected[o].is
  /\ IF \A p \in PinSet(list) : owners[p] = Free
     THEN /\ Reserve(o, PinSet(list))
          /\ call' = [phase |-> "set", owner |-> o, pins |-> list, saved |-> <<>>]
     ELSE /\ Release(PinSet(list))
          /\ call' = NoCall
  /\ UNCHANGED <<connected, reg, lines, job>>

\* Connect(owner, pins).  An owner already connected returns false.
ConnectReserve(o, list) ==
  /\ call = NoCall
  /\ ~connected[o].is
  /\ Reserve(o, PinSet(list))
  /\ call' = [phase |-> "set", owner |-> o, pins |-> list, saved |-> <<>>]
  /\ UNCHANGED <<connected, reg, lines, job>>

NextPin == call.pins[Len(call.saved) + 1]

\* Save, then SetFunction (or the pull and the mode, for an analog pin)
ConnectPin ==
  /\ call.phase = "set"
  /\ Len(call.saved) < Len(call.pins)
  /\ NextPin \in Clocked
  /\ call' = [call EXCEPT !.saved = Append(@, [pin |-> NextPin, state |-> reg[NextPin]])]
  /\ reg' = [reg EXCEPT ![NextPin] = Alternate[call.owner]]
  /\ UNCHANGED <<owners, connected, lines, job>>

\* Mutant: the catch frees only the pins it had set up.
ConnectFailsFreesSaved ==
  /\ call.phase = "set"
  /\ Len(call.saved) < Len(call.pins)
  /\ NextPin \notin Clocked
  /\ call' = [call EXCEPT !.phase = "restore",
                          !.pins = [i \in 1..Len(call.saved) |-> call.saved[i].pin]]
  /\ UNCHANGED <<owners, connected, reg, lines, job>>

\* Mutant: the catch frees the pins without putting them back.
ConnectFailsNoRestore ==
  /\ call.phase = "set"
  /\ Len(call.saved) < Len(call.pins)
  /\ NextPin \notin Clocked
  /\ call' = [call EXCEPT !.phase = "restore", !.saved = <<>>]
  /\ UNCHANGED <<owners, connected, reg, lines, job>>

\* Save throws: the port's clock is off, or its registers cannot be mapped
ConnectFails ==
  /\ call.phase = "set"
  /\ Len(call.saved) < Len(call.pins)
  /\ NextPin \notin Clocked
  /\ call' = [call EXCEPT !.phase = "restore"]
  /\ UNCHANGED <<owners, connected, reg, lines, job>>

ConnectDone ==
  /\ call.phase = "set"
  /\ Len(call.saved) = Len(call.pins)
  /\ connected' = [connected EXCEPT ![call.owner] = Entry(call.saved)]
  /\ call' = NoCall
  /\ UNCHANGED <<owners, reg, lines, job>>

-----------------------------------------------------------------------------
\* Disconnect(owner): nothing for an owner that is not connected
DisconnectBegin(o) ==
  LET saved == connected[o].list
  IN  /\ call = NoCall
      /\ connected[o].is
      /\ call' = [phase |-> "restore", owner |-> o,
                  pins |-> [i \in 1..Len(saved) |-> saved[i].pin], saved |-> saved]
      /\ UNCHANGED <<owners, connected, reg, lines, job>>

\* Restore, for Disconnect and for Connect's catch: the saved pins in order
RestorePin ==
  LET s == Head(call.saved)
  IN  /\ call.phase = "restore"
      /\ call.saved # <<>>
      /\ reg' = [reg EXCEPT ![s.pin] = s.state]
      /\ call' = [call EXCEPT !.saved = Tail(@)]
      /\ UNCHANGED <<owners, connected, lines, job>>

\* Then the pins are free; a Disconnect still has to erase its entry
ReleasePins ==
  /\ call.phase = "restore"
  /\ call.saved = <<>>
  /\ Release(PinSet(call.pins))
  /\ call' = IF connected[call.owner].is THEN [call EXCEPT !.phase = "erase"] ELSE NoCall
  /\ UNCHANGED <<connected, reg, lines, job>>

EraseEntry ==
  /\ call.phase = "erase"
  /\ connected' = [connected EXCEPT ![call.owner] = NotConnected]
  /\ call' = NoCall
  /\ UNCHANGED <<owners, reg, lines, job>>

-----------------------------------------------------------------------------
\* Mutant: a controller reserves under a name of its own.
OpenReserveAsItself(c, p) ==
  /\ job[c] = NoJob
  /\ p \notin lines[c]
  /\ Reserve(c, {p})
  /\ job' = [job EXCEPT ![c] = [kind |-> "open", pins |-> {p}]]
  /\ UNCHANGED <<connected, reg, call, lines>>

\* GpioControllerImpl::OpenPin: reserve, then ask the kernel for the line
OpenReserve(c, p) ==
  /\ job[c] = NoJob
  /\ p \notin lines[c]
  /\ Reserve(Gpio, {p})
  /\ job' = [job EXCEPT ![c] = [kind |-> "open", pins |-> {p}]]
  /\ UNCHANGED <<connected, reg, call, lines>>

OpenLine(c) ==
  /\ job[c].kind = "open"
  /\ lines' = [lines EXCEPT ![c] = @ \cup job[c].pins]
  /\ job' = [job EXCEPT ![c] = NoJob]
  /\ UNCHANGED <<owners, connected, reg, call>>

\* OpenLine throws (a system driver uses the line): the catch frees the pin
OpenFails(c) ==
  /\ job[c].kind = "open"
  /\ Release(job[c].pins)
  /\ job' = [job EXCEPT ![c] = NoJob]
  /\ UNCHANGED <<connected, reg, call, lines>>

\* Mutant: the pins are freed, and the controller still has their lines.
CloseLinesKeeps(c, S) ==
  /\ job[c] = NoJob
  /\ S # {}
  /\ S \subseteq lines[c]
  /\ job' = [job EXCEPT ![c] = [kind |-> "close", pins |-> S]]
  /\ UNCHANGED <<owners, connected, reg, call, lines>>

\* ClosePin, and the destructor for every open line: the lines are closed and
\* forgotten, then their pins are free.
CloseLines(c, S) ==
  /\ job[c] = NoJob
  /\ S # {}
  /\ S \subseteq lines[c]
  /\ lines' = [lines EXCEPT ![c] = @ \ S]
  /\ job' = [job EXCEPT ![c] = [kind |-> "close", pins |-> S]]
  /\ UNCHANGED <<owners, connected, reg, call>>

ClosePin(c, p) == CloseLines(c, {p})

Destroy(c) == CloseLines(c, lines[c])

CloseRelease(c) ==
  /\ job[c].kind = "close"
  /\ Release(job[c].pins)
  /\ job' = [job EXCEPT ![c] = NoJob]
  /\ UNCHANGED <<connected, reg, call, lines>>

\* SetPinMode: through the kernel, which sets the same registers
SetPinMode(c, p) ==
  /\ job[c] = NoJob
  /\ p \in lines[c]
  /\ \E s \in GpioSettings : reg' = [reg EXCEPT ![p] = s]
  /\ UNCHANGED <<owners, connected, call, lines, job>>

-----------------------------------------------------------------------------
ConnectNext ==
  \/ \E o \in Peripherals : \E list \in Lists[o] : ConnectReserve(o, list)
  \/ ConnectPin
  \/ ConnectFails
  \/ ConnectDone
  \/ \E o \in Peripherals : DisconnectBegin(o)
  \/ RestorePin
  \/ ReleasePins
  \/ EraseEntry

GpioNext ==
  \E c \in Controllers :
    \/ \E p \in Pins : OpenReserve(c, p)
    \/ OpenLine(c)
    \/ OpenFails(c)
    \/ \E p \in Pins : ClosePin(c, p)
    \/ Destroy(c)
    \/ CloseRelease(c)
    \/ \E p \in Pins : SetPinMode(c, p)

Next == ConnectNext \/ GpioNext

Spec == Init /\ [][Next]_vars

-----------------------------------------------------------------------------
Phases == {"idle", "set", "restore", "erase"}

TypeOK ==
  /\ owners \in [Pins -> Peripherals \cup {Gpio, Free}]
  /\ connected \in [Peripherals -> [is : BOOLEAN, list : Seq(Saved)]]
  /\ reg \in [Pins -> Settings]
  /\ call \in [phase : Phases, owner : Peripherals \cup {Absent},
               pins : Seq(Pins), saved : Seq(Saved)]
  /\ lines \in [Controllers -> SUBSET Pins]
  /\ job \in [Controllers -> [kind : {"idle", "open", "close"}, pins : SUBSET Pins]]

\* The pins an owner has connected or is connecting, until they are released.
PinsHeld(o) ==
  (IF connected[o].is /\ ~(call.owner = o /\ call.phase = "erase")
   THEN SavedPins(connected[o].list) ELSE {})
  \cup (IF call.owner = o /\ call.phase \in {"set", "restore"} THEN PinSet(call.pins) ELSE {})

\* The pins a controller has open, is opening or is closing.
LinesHeld(c) == lines[c] \cup job[c].pins

\* Release (PinReservations.cpp:29) frees whatever pins it is given, without
\* asking whose they are.  Still, what a peripheral has connected stays
\* reserved for it until its own Disconnect: no error path, no controller and
\* no other peripheral frees it.
ConnectedStaysReserved == \A o \in Peripherals : \A p \in PinsHeld(o) : owners[p] = o

\* The same for the controllers' open lines; and as all controllers reserve
\* under the one name "GPIO" (Gpio.cpp:23), that no two have the same pin.
OneControllerPerPin ==
  /\ \A c \in Controllers : \A p \in LinesHeld(c) : owners[p] = Gpio
  /\ \A c, d \in Controllers : c # d => LinesHeld(c) \cap LinesHeld(d) = {}

\* A pin is never left reserved for good: whatever failed or was closed, a
\* reserved pin is one that a peripheral or a controller still accounts for.
NoReservationLeaks ==
  \A p \in Pins : owners[p] # Free =>
    \/ \E o \in Peripherals : p \in PinsHeld(o)
    \/ \E c \in Controllers : p \in LinesHeld(c)

\* Between Connect and Disconnect nobody else sets the pins up.
ConnectedKeepsFunction ==
  \A o \in Peripherals :
    connected[o].is /\ call.owner # o =>
      \A i \in 1..Len(connected[o].list) : reg[connected[o].list[i].pin] = Alternate[o]

\* What makes these inductive: the thread inside Connect or Disconnect, and the
\* entries it works on, agree.
Distinct(saved) == \A i, j \in 1..Len(saved) : saved[i].pin = saved[j].pin => i = j

EntriesOK == \A o \in Peripherals :
  /\ Distinct(connected[o].list)
  /\ ~connected[o].is => connected[o].list = <<>>

SettingUp ==
  /\ call.owner \in Peripherals
  /\ ~connected[call.owner].is
  /\ Len(call.saved) <= Len(call.pins)
  /\ \A i, j \in 1..Len(call.pins) : call.pins[i] = call.pins[j] => i = j
  /\ \A i \in 1..Len(call.saved) : /\ call.saved[i].pin = call.pins[i]
                                   /\ reg[call.pins[i]] = Alternate[call.owner]

Restoring ==
  /\ call.owner \in Peripherals
  /\ Distinct(call.saved)
  /\ SavedPins(call.saved) \subseteq PinSet(call.pins)
  /\ connected[call.owner].is => SavedPins(connected[call.owner].list) = PinSet(call.pins)

CallOK ==
  /\ call.phase = "idle" => call = NoCall
  /\ call.phase = "set" => SettingUp
  /\ call.phase = "restore" => Restoring
  /\ call.phase = "erase" => /\ call.owner \in Peripherals
                             /\ connected[call.owner].is
                             /\ call.saved = <<>>

JobsOK == \A c \in Controllers :
  /\ job[c].kind = "idle" => job[c] = NoJob
  /\ job[c].pins \cap lines[c] = {}

IInv ==
  /\ TypeOK
  /\ EntriesOK
  /\ CallOK
  /\ JobsOK
  /\ ConnectedStaysReserved
  /\ OneControllerPerPin
  /\ NoReservationLeaks
  /\ ConnectedKeepsFunction

-----------------------------------------------------------------------------
\* How PinOwnership reads off this state: a pin reserved as "GPIO" is held by
\* the controller that has it, and a peripheral found a pin as it saved it, or
\* (not saved yet, or restored already) as it is.
HolderOf(p) ==
  IF owners[p] = Gpio THEN CHOOSE c \in Controllers : p \in LinesHeld(c) ELSE owners[p]

SavedState(saved, p) == saved[CHOOSE i \in 1..Len(saved) : saved[i].pin = p].state

FoundOf(p) ==
  LET o == owners[p]
      saved == IF call.owner = o THEN call.saved ELSE connected[o].list
  IN  IF o \notin Peripherals THEN Unknown
      ELSE IF p \in SavedPins(saved) THEN SavedState(saved, p) ELSE reg[p]

Abstract == INSTANCE PinOwnership WITH
  holder <- [p \in Pins |-> HolderOf(p)],
  found <- [p \in Pins |-> FoundOf(p)]

\* "Connects pins to a peripheral, and gives them back as they were found"
\* (PeripheralPins.h:25): every step of the locks, lists and error paths is a
\* step of PinOwnership or none.
ImplementsPinOwnership == Abstract!Spec

=============================================================================

------------------------------- MODULE Devices -------------------------------
(***************************************************************************)
(* Threads that the library runs and what they tell the program, one of    *)
(* the seven at a time, as they share nothing: the user interface's loop,  *)
(* a USB device, an input device, a touch screen, a sound card, a serial   *)
(* port and the tools that the library runs.  The other six stay where     *)
(* one of their initial states has them.                                   *)
(***************************************************************************)
EXTENDS UI, Sequences

CONSTANTS
  Interfaces, Uses, Foreign, Limits, MaxPending,        \* UsbAccess
  Readers, Bounds, Batch, MaxEvents,                    \* Input
  MaxPoints, Fingers, MaxTouches,                       \* Touch
  FrameSize, Buffer, Lengths, MaxData, MaxFrames,       \* Sound
  Symbols, NewLine, Text, Chunk, Room, MaxArrived,      \* SerialPort
  Lib, Capacity, ReadSize, MaxWritten                   \* Commands

ASSUME UsbAssumption ==
  /\ Uses \in [Threads -> SUBSET Interfaces] /\ Foreign \subseteq Interfaces
  /\ None \notin Interfaces /\ None # "watch" /\ MaxPending \in Nat
ASSUME InputAssumption == Bounds \subseteq Int \X Int /\ Batch \in Nat \ {0}
ASSUME TouchAssumption == MaxPoints \in Nat \ {0} /\ Fingers \subseteq Nat
ASSUME SoundAssumption ==
  /\ FrameSize \in Nat \ {0} /\ Buffer \in Nat /\ Lengths \subseteq Nat
  /\ MaxData \in Nat /\ MaxFrames \in Nat
ASSUME SerialAssumption ==
  Text \in Seq(Symbols) /\ NewLine \in Seq(Symbols) /\ Chunk \in Nat /\ Room \in Nat
ASSUME ToolsAssumption == Lib \notin Threads /\ Capacity \in Nat /\ ReadSize \in Nat

VARIABLES
  subject,
  device, plugged, usbOpened, usbCloser, watch, usbStop, gone, iface, drivers, claimed,
  detached, dropped, usbCall, pending,
  kind, held, place, unseen, turns, done, alive, queue, opened, closer, s, reader, batch, out, stop,
  connected, told, overtaken,
  screen, fingers, kernelSlot, touches, fresh, touchAlive, touchQueue, touchOpened,
  touchSlots, slot, single, changed, previous, cut, touchReader, touchBatch, touchTold,
  touchConnected,
  call, card, pcms, source, left, soundPending, toWrite, played, length, recording, recorder,
  bytes, output,
  port, portOpen, kernel, kept, portCall, timed, portLate, count, text, rest, outQueue,
  arrived, past, sent, asked,
  run, late, child, holders, inPipe, reads, readText, written

usbVars ==
  <<device, plugged, usbOpened, usbCloser, watch, usbStop, gone, iface, drivers, claimed,
    detached, dropped, usbCall, pending>>
inputVars ==
  <<kind, held, place, unseen, turns, done, alive, queue, opened, closer, s, reader, batch, out, stop,
    connected, told, overtaken>>
touchVars ==
  <<screen, fingers, kernelSlot, touches, fresh, touchAlive, touchQueue, touchOpened,
    touchSlots, slot, single, changed, previous, cut, touchReader, touchBatch, touchTold,
    touchConnected>>
soundVars ==
  <<call, card, pcms, source, left, soundPending, toWrite, played, length, recording,
    recorder, bytes, output>>
portVars ==
  <<port, portOpen, kernel, kept, portCall, timed, portLate, count, text, rest, outQueue,
    arrived, past, sent, asked>>
runVars ==
  <<run, late, child, holders, inPipe, reads, readText, written>>

Usb == INSTANCE UsbAccess WITH
  opened <- usbOpened, closer <- usbCloser, stop <- usbStop, call <- usbCall
Input == INSTANCE Input WITH Threads <- Readers
Touch == INSTANCE Touch WITH
  kind <- screen, alive <- touchAlive, queue <- touchQueue, opened <- touchOpened,
  slots <- touchSlots, reader <- touchReader, batch <- touchBatch, told <- touchTold,
  connected <- touchConnected
Sound == INSTANCE Sound WITH pending <- soundPending
Serial == INSTANCE SerialPort WITH
  device <- port, open <- portOpen, pending <- kept, call <- portCall, late <- portLate,
  queue <- outQueue
Tools == INSTANCE Commands WITH Buffer <- ReadSize, text <- readText

Subjects == {"ui", "usb", "input", "touch", "sound", "serial", "tools"}

(* The initial states of a component that is not looked at: one of them.   *)
UsbRest == device = "hid"
InputRest == kind = "keyboard" /\ held = {}
TouchRest == screen = "slots"

Init ==
  /\ subject \in Subjects
  /\ UIInit /\ Usb!Init /\ Input!Init /\ Touch!Init /\ Sound!Init /\ Serial!Init
  /\ Tools!Init
  /\ subject # "usb" => UsbRest
  /\ subject # "input" => InputRest
  /\ subject # "touch" => TouchRest

Next ==
  \/ /\ subject = "ui"
     /\ UINext
     /\ UNCHANGED <<subject, usbVars, inputVars, touchVars, soundVars, portVars, runVars>>
  \/ /\ subject = "usb"
     /\ Usb!Next
     /\ UNCHANGED <<subject, uiVars, inputVars, touchVars, soundVars, portVars, runVars>>
  \/ /\ subject = "input"
     /\ Input!Next
     /\ UNCHANGED <<subject, uiVars, usbVars, touchVars, soundVars, portVars, runVars>>
  \/ /\ subject = "touch"
     /\ Touch!Next
     /\ UNCHANGED <<subject, uiVars, usbVars, inputVars, soundVars, portVars, runVars>>
  \/ /\ subject = "sound"
     /\ Sound!Next
     /\ UNCHANGED <<subject, uiVars, usbVars, inputVars, touchVars, portVars, runVars>>
  \/ /\ subject = "serial"
     /\ Serial!Next
     /\ UNCHANGED <<subject, uiVars, usbVars, inputVars, touchVars, soundVars, runVars>>
  \/ /\ subject = "tools"
     /\ Tools!Next
     /\ UNCHANGED <<subject, uiVars, usbVars, inputVars, touchVars, soundVars, portVars>>

(* The fairness of each component, as its module states it.                *)
Is(name) == subject = name

Fairness ==
  /\ \A t \in Threads :
       /\ WF_uiVars(Is("ui") /\ ThreadStep(t)) /\ SF_uiVars(Is("ui") /\ Pumped(t))
       /\ WF_usbVars(Is("usb") /\ Usb!CallStep(t))
       /\ WF_runVars(Is("tools") /\ Tools!RunStep(t))
       /\ WF_runVars(Is("tools") /\ Tools!TimePasses(t))
  /\ WF_uiVars(Is("ui") /\ Stores) /\ WF_uiVars(Is("ui") /\ TouchReadCb)
  /\ WF_usbVars(Is("usb") /\ Usb!WatchStep) /\ WF_usbVars(Is("usb") /\ Usb!Closed)
  /\ WF_inputVars(Is("input") /\ Input!ReaderStep) /\ WF_inputVars(Is("input") /\ Input!Closed)
  /\ WF_inputVars(Is("input") /\ alive = "released" /\ Input!Unplug)
  /\ WF_touchVars(Is("touch") /\ Touch!ReaderStep) /\ WF_touchVars(Is("touch") /\ Touch!Closed)
  /\ WF_soundVars(Is("sound") /\ Sound!RecorderEnds) /\ WF_soundVars(Is("sound") /\ Sound!Joined)
  /\ WF_portVars(Is("serial") /\ Serial!CallStep) /\ WF_portVars(Is("serial") /\ Serial!TimePasses)

Spec ==
  /\ Init
  /\ [][Next]_<<subject, uiVars, usbVars, inputVars, touchVars, soundVars, portVars, runVars>>
  /\ Fairness

-----------------------------------------------------------------------------
(* The variables of the seven components have their types.                 *)
TypeOK ==
  /\ UITypeOK /\ Usb!TypeOK /\ Input!TypeOK /\ Touch!TypeOK /\ Sound!TypeOK
  /\ Serial!TypeOK /\ Tools!TypeOK

(* When all that the kernel had to say was read, the state that the        *)
(* library gives is the device's: keys, buttons, stick, hat, wheel and     *)
(* fingers; what the program was told adds up to it, but for what a cursor *)
(* moved meanwhile and a read that cut a packet leave out; and no call of  *)
(* an input device repeats what the program knew.  What is read from a     *)
(* serial port, by whatever mixture of calls, is what came, in its order.  *)
ToldIsState ==
  /\ [](Input!StateIsDevice /\ Touch!StateIsDevice /\ Input!ToldIsState /\ Touch!ToldIsState)
  /\ []Serial!BytesInOrder
  /\ Input!TellsNews

(* Nothing is called after a destructor came back, nothing after the call  *)
(* that says the device is gone, and no timer that was deleted, but for    *)
(* one whose trampoline another thread's TimerDelete overtook.             *)
NoCallAfterClose ==
  Usb!NoCallAfterClose /\ Input!LastCall /\ Touch!NoCallAfterClose /\ NoDeletedFires

(* What the library took from the kernel goes back: an interface to its    *)
(* driver, a sound device and a recording's file, whole, to the system, a  *)
(* tool that it ran with all that the tool said; and what it was given to  *)
(* play or to write goes out once, and whole.                              *)
AllGivenBack ==
  /\ Usb!DriversBack /\ Sound!RecordsItAll /\ Tools!NothingLeft
  /\ Sound!PlaysItAll /\ Serial!WrittenOnce

(* A device that is pulled out is told to the program, a loop that is told *)
(* to stop stops, and the interface sees where the finger was last.  A     *)
(* serial port's call with a time limit comes back, and so does one that   *)
(* runs a tool, which does not sleep when the tool has ended.              *)
EndsUpRight ==
  /\ Usb!UnpluggedIsTold /\ Input!UnpluggedIsTold /\ Touch!UnpluggedIsTold
  /\ StopEndsRun /\ Sound!StopReturns
  /\ TouchSettles
  /\ Serial!TimedCallsReturn
  /\ []Tools!EndIsSeen /\ Tools!RunReturns

=============================================================================

----------------------------- MODULE UsbAccess ------------------------------
(***************************************************************************)
(* UsbAccess.cpp and its C interface: a program's own USB device, which is *)
(* a RawDevice (its interfaces are taken from their kernel drivers while   *)
(* it is open), a HidDevice or a Printer.  Threads of the program call it; *)
(* a Watch thread waits for the file to say that the device is gone.       *)
(*                                                                         *)
(* Each ioctl, read, write and poll is a step, and so are the reading and  *)
(* the writing of a push_back: the two lists have no lock.  What is sent   *)
(* is left out, and so are the requests that only read (names, status,     *)
(* descriptors), and a program that such a push_back brings down.          *)
(***************************************************************************)
EXTENDS Integers, FiniteSets

CONSTANTS
  Threads,
  Interfaces,
  Uses,         \* thread -> the interfaces that its transfers go to
  Foreign,      \* interfaces that other programs may have
  Limits,       \* the timeouts the program gives: "none" waits for ever
  MaxPending,   \* bound: reports in the kernel's queue
  None

VARIABLES
  device,       \* what the program opens it as
  plugged,
  opened,       \* "new", "open", "closing", "closed"
  closer,       \* who destroys it: a thread, or "watch" (the callback)
  watch,        \* the Watch thread
  stop, gone,   \* its flags
  iface,        \* interface -> who has it, in the kernel
  drivers,      \* interfaces that a kernel driver had when the device was opened,
                \* but for those another program has had meanwhile
  claimed, detached,
  dropped,      \* interfaces whose entry another thread's push_back undid (history)
  call,         \* thread -> where its call is, at which interface, its timeout, and
                \* the list that its push_back found
  pending       \* reports in, or room for output

kernel == <<plugged, iface, drivers, pending>>
life == <<opened, closer, watch, stop, gone>>
lists == <<claimed, detached, dropped>>
usbVars == <<device, plugged, opened, closer, watch, stop, gone, iface, drivers,
             claimed, detached, dropped, call, pending>>

Holders == {"none", "kernel", "this", "other"}
Calling(where, i, limit) == [pc |-> where, at |-> i, limit |-> limit, found |-> {}]
NoCall == Calling("none", None, "none")

Init ==
  /\ device \in {"raw", "hid", "printer"}
  /\ plugged = TRUE /\ opened = "new" /\ closer = None
  /\ watch = "none" /\ stop = FALSE /\ gone = FALSE
  /\ iface \in [Interfaces -> {"kernel", "other"}]
  /\ \A i \in Interfaces : iface[i] = "other" => i \in Foreign /\ device = "raw"
  /\ drivers = {i \in Interfaces : iface[i] = "kernel"}
  /\ claimed = {} /\ detached = {} /\ dropped = {}
  /\ call = [t \in Threads |-> NoCall]
  /\ pending = 0

Goes(t, place) == call' = [call EXCEPT ![t].pc = place]
Returns(t) == call' = [call EXCEPT ![t] = NoCall]

-----------------------------------------------------------------------------
\* The kernel and the world: unplugging, with which the interfaces end, reports and
\* room, and another program that lets go of interfaces and takes free ones
Unplug ==
  /\ plugged /\ plugged' = FALSE
  /\ iface' = [i \in Interfaces |-> "none"] /\ drivers' = {}
  /\ UNCHANGED <<device, life, lists, call, pending>>

Arrives ==
  /\ plugged /\ device # "raw" /\ pending < MaxPending
  /\ pending' = pending + 1
  /\ UNCHANGED <<device, life, plugged, iface, drivers, lists, call>>

OtherProgram(i) ==
  /\ plugged /\ device = "raw" /\ iface[i] \in {"other", "none"}
  /\ iface' = [iface EXCEPT ![i] = IF @ = "other" THEN "none" ELSE "other"]
  /\ drivers' = drivers \ {i}
  /\ UNCHANGED <<device, life, plugged, lists, call, pending>>

-----------------------------------------------------------------------------
\* The constructors: the file, what the device says it is, and the Watch
Open ==
  /\ opened = "new" /\ plugged
  /\ opened' = "open" /\ watch' = "poll"
  /\ drivers' = {i \in Interfaces : iface[i] = "kernel"}
  /\ UNCHANGED <<device, closer, stop, gone, plugged, iface, lists, call, pending>>

\* Mutant: only the wake-up is looked at
WatchWakesForStop ==
  /\ watch = "poll" /\ stop /\ watch' = "ended"
  /\ UNCHANGED <<device, opened, closer, stop, gone, kernel, lists, call>>

\* Watch::Run: poll comes back for the wake-up or for a device that is gone
WatchWakes ==
  /\ watch = "poll"
  /\ \/ stop /\ watch' = "ended"
     \/ ~stop /\ ~plugged /\ watch' = "seen"
  /\ UNCHANGED <<device, opened, closer, stop, gone, kernel, lists, call>>

WatchCalls ==
  /\ watch = "seen"
  /\ gone' = TRUE /\ watch' = "call"
  /\ UNCHANGED <<device, opened, closer, stop, kernel, lists, call>>

CallbackReturns ==
  /\ watch = "call" /\ (closer = "watch" => opened = "closed")
  /\ watch' = "ended"
  /\ UNCHANGED <<device, opened, closer, stop, gone, kernel, lists, call>>

\* The destructor begins, on a thread or in the callback, when no call is left
Close(c) ==
  /\ opened = "open" /\ \A t \in Threads : call[t] = NoCall
  /\ c = "watch" => watch = "call"
  /\ opened' = "closing" /\ closer' = c /\ stop' = TRUE
  /\ UNCHANGED <<device, watch, gone, kernel, lists, call>>

\* ... has joined the Watch, unless it runs on it, and gives the interfaces back:
\* a driver takes one that has been released, and the file's end releases the rest
Closed ==
  /\ opened = "closing" /\ (closer # "watch" => watch = "ended")
  /\ opened' = "closed"
  /\ iface' = [i \in Interfaces |->
       IF plugged /\ i \in detached /\ (iface[i] = "none" \/ (iface[i] = "this" /\ i \in claimed))
       THEN "kernel" ELSE IF iface[i] = "this" THEN "none" ELSE iface[i]]
  /\ UNCHANGED <<device, closer, watch, stop, gone, plugged, drivers, lists, call, pending>>

-----------------------------------------------------------------------------
\* RawDevice: a transfer to an interface or an endpoint claims it first.  A
\* lookup beside a push_back may miss what is there, or find what is not.
Extended == \E t \in Threads : call[t].pc = "claiming"

Transfer(t, i) ==
  /\ opened = "open" /\ device = "raw" /\ call[t] = NoCall
  /\ \E hit \in IF Extended THEN BOOLEAN ELSE {i \in claimed} :
       call' = [call EXCEPT ![t] = Calling(IF hit THEN "transfer" ELSE "claim", i, "none")]
  /\ UNCHANGED <<device, life, kernel, lists>>

\* USBDEVFS_CLAIMINTERFACE: free, or this file's already; otherwise EBUSY
Claim(t) ==
  LET i == call[t].at IN
  /\ call[t].pc = "claim"
  /\ IF plugged /\ iface[i] \in {"none", "this"}
     THEN iface' = [iface EXCEPT ![i] = "this"] /\ Goes(t, "claims")
     ELSE UNCHANGED iface /\ IF plugged THEN Goes(t, "driver") ELSE Returns(t)
  /\ UNCHANGED <<device, life, plugged, drivers, lists, pending>>

\* GETDRIVER: a kernel driver is disconnected, anybody else keeps it
GetDriver(t) ==
  /\ call[t].pc = "driver"
  /\ Goes(t, IF plugged /\ iface[call[t].at] = "kernel" THEN "disconnect" ELSE "busy")
  /\ UNCHANGED <<device, life, kernel, lists>>

Disconnect(t) ==
  LET i == call[t].at IN
  /\ call[t].pc = "disconnect"
  /\ IF plugged /\ iface[i] # "none"
     THEN iface' = [iface EXCEPT ![i] = "none"] /\ Goes(t, "reclaim")
     ELSE UNCHANGED iface /\ Goes(t, "back")
  /\ UNCHANGED <<device, life, plugged, drivers, lists, pending>>

Reclaim(t) ==
  LET i == call[t].at IN
  /\ call[t].pc = "reclaim"
  /\ IF plugged /\ iface[i] \in {"none", "this"}
     THEN iface' = [iface EXCEPT ![i] = "this"] /\ Goes(t, "detaches")
     ELSE UNCHANGED iface /\ Goes(t, "back")
  /\ UNCHANGED <<device, life, plugged, drivers, lists, pending>>

\* push_back: finds the list's end, writes there, and moves the end; what another
\* thread has added between is gone
Finds(t, place, list) == call' = [call EXCEPT ![t].pc = place, ![t].found = list]

Detaches(t) ==
  /\ call[t].pc = "detaches" /\ Finds(t, "detaching", detached)
  /\ UNCHANGED <<device, life, kernel, lists>>

\* Mutant: the interface is only remembered as taken from its driver.
DetachedOnly(t) ==
  /\ call[t].pc = "detaching"
  /\ detached' = call[t].found \cup {call[t].at}
  /\ dropped' = dropped \cup (detached \ detached')
  /\ Goes(t, "transfer")
  /\ UNCHANGED <<device, life, kernel, claimed>>

Detached(t) ==
  /\ call[t].pc = "detaching"
  /\ detached' = call[t].found \cup {call[t].at}
  /\ dropped' = dropped \cup (detached \ detached')
  /\ Goes(t, "claims")
  /\ UNCHANGED <<device, life, kernel, claimed>>

Claims(t) ==
  /\ call[t].pc = "claims" /\ Finds(t, "claiming", claimed)
  /\ UNCHANGED <<device, life, kernel, lists>>

Claimed(t) ==
  /\ call[t].pc = "claiming"
  /\ claimed' = call[t].found \cup {call[t].at}
  /\ dropped' = dropped \cup (claimed \ claimed')
  /\ Goes(t, "transfer")
  /\ UNCHANGED <<device, life, kernel, detached>>

\* USBDEVFS_CONNECT, when it could not be had after all: the driver binds again
\* if nobody has the interface
GiveBack(t) ==
  LET i == call[t].at IN
  /\ call[t].pc = "back"
  /\ iface' = [iface EXCEPT ![i] = IF plugged /\ @ = "none" THEN "kernel" ELSE @]
  /\ Goes(t, "busy")
  /\ UNCHANGED <<device, life, plugged, drivers, lists, pending>>

\* "in use by another program", and the end of a transfer, done or failed; for
\* one without a claim the kernel claims the interface, if nobody has it
Ends(t) ==
  LET i == call[t].at IN
  /\ call[t].pc \in {"busy", "transfer"}
  /\ iface' = IF call[t].pc = "transfer" /\ plugged /\ iface[i] = "none"
              THEN [iface EXCEPT ![i] = "this"] ELSE iface
  /\ Returns(t)
  /\ UNCHANGED <<device, life, plugged, drivers, pending, lists>>

\* SET_CONFIGURATION: the kernel refuses it while anybody has an interface; the
\* drivers of the new one's interfaces take them
SetConfiguration(t) ==
  /\ opened = "open" /\ device = "raw" /\ call[t] = NoCall /\ plugged
  /\ \A i \in Interfaces : iface[i] = "none"
  /\ iface' \in [Interfaces -> {"none", "kernel"}]
  /\ drivers' = {i \in Interfaces : iface'[i] = "kernel"}
  /\ UNCHANGED <<device, life, plugged, lists, call, pending>>

-----------------------------------------------------------------------------
\* HidDevice and Printer: try, then poll until there is something, the device
\* is gone or the time is up, then try again
Start(t, limit) ==
  /\ opened = "open" /\ device # "raw" /\ call[t] = NoCall
  /\ call' = [call EXCEPT ![t] = Calling("try", None, limit)]
  /\ UNCHANGED <<device, life, kernel, lists>>

Try(t) ==
  /\ call[t].pc = "try"
  /\ IF ~plugged THEN Returns(t) /\ UNCHANGED pending
     ELSE IF pending > 0 THEN Returns(t) /\ pending' = pending - 1
     ELSE Goes(t, "poll") /\ UNCHANGED pending
  /\ UNCHANGED <<device, life, plugged, iface, drivers, lists>>

Polled(t) ==
  /\ call[t].pc = "poll" /\ (pending > 0 \/ ~plugged)
  /\ IF pending > 0 THEN Goes(t, "try") ELSE Returns(t)
  /\ UNCHANGED <<device, life, kernel, lists>>

TimesOut(t) ==
  /\ call[t].pc = "poll" /\ call[t].limit # "none"
  /\ Returns(t)
  /\ UNCHANGED <<device, life, kernel, lists>>

CallStep(t) == Claim(t) \/ GetDriver(t) \/ Disconnect(t) \/ Reclaim(t) \/ GiveBack(t)
               \/ Detaches(t) \/ Detached(t) \/ Claims(t) \/ Claimed(t) \/ Ends(t) \/ Try(t) \/ Polled(t)

WatchStep == WatchWakes \/ WatchCalls \/ CallbackReturns

Next ==
  \/ Unplug \/ Arrives \/ \E i \in Foreign : OtherProgram(i)
  \/ Open \/ WatchStep
  \/ \E c \in Threads \cup {"watch"} : Close(c)
  \/ Closed
  \/ \E t \in Threads :
       \/ \E i \in Uses[t] : Transfer(t, i)
       \/ SetConfiguration(t)
       \/ \E limit \in Limits : Start(t, limit)
       \/ CallStep(t)
       \/ TimesOut(t)

\* The threads run on, the callback returns and the kernel answers.  Nothing
\* is assumed of the device, and the time of a timeout may be long.
Fairness ==
  /\ WF_usbVars(WatchStep) /\ WF_usbVars(Closed)
  /\ \A t \in Threads : WF_usbVars(CallStep(t))

Spec == Init /\ [][Next]_usbVars /\ Fairness

-----------------------------------------------------------------------------
Places == {"none", "claim", "driver", "disconnect", "reclaim", "back", "detaches", "detaching",
           "claims", "claiming", "busy", "transfer", "try", "poll"}

\* The device, the kernel's holders and the calls have their types.
TypeOK ==
  /\ plugged \in BOOLEAN /\ stop \in BOOLEAN /\ gone \in BOOLEAN
  /\ opened \in {"new", "open", "closing", "closed"}
  /\ closer \in Threads \cup {"watch", None}
  /\ watch \in {"none", "poll", "seen", "call", "ended"}
  /\ iface \in [Interfaces -> Holders] /\ drivers \subseteq Interfaces
  /\ claimed \subseteq Interfaces /\ detached \subseteq Interfaces /\ dropped \subseteq Interfaces
  /\ \A t \in Threads : call[t].pc \in Places
  /\ pending \in 0..MaxPending

\* An interface that a kernel driver had is the driver's again once the device
\* is closed, whatever claims failed and whoever raced for it, unless another
\* program took it meanwhile, or its entry in a list was written over by a claim
\* of another interface at the same time (UsbAccess.cpp:256, 258).
DriversBack ==
  opened = "closed" /\ plugged => \A i \in drivers \ dropped : iface[i] = "kernel"

\* Once the destructor is through, the callback does not run any more, unless
\* the callback is where it was called.
NoCallAfterClose == opened = "closed" => watch = "ended" \/ closer = "watch"

\* When the device is pulled out, calls without a timeout come back too, and
\* the program is told, unless it closes the device.
UnpluggedIsTold ==
  /\ (~plugged /\ opened = "open") ~> (gone \/ opened # "open")
  /\ \A t \in Threads : ~plugged ~> (call[t] = NoCall \/ plugged)

=============================================================================

------------------------------ MODULE UsbHost ------------------------------
(***************************************************************************)
(* UsbHost.cpp: the Watcher's thread, the kernel it listens to, and the    *)
(* controllers that the program's threads enable and disable.              *)
(*                                                                         *)
(* The gate is held for every step that touches host, so one locked        *)
(* section is one step; Start and the scan of the due devices hold it over *)
(* several (GateFree).  The mutex delivering is held from the first event  *)
(* that Deliver takes to the last call's return.  Times are abstract: a    *)
(* device is looked at soon, or late (once its driver has had the time to  *)
(* make something), and time passes between steps.                         *)
(***************************************************************************)
EXTENDS Integers, FiniteSets, Sequences, SequencesExt

CONSTANTS
  Paths,        \* places in /sys where a device can be
  Functions,    \* what a device's drivers can make
  Drivers,      \* what a new device can find: none, module, bound (see Gone)
  Unknown,      \* the function of a device that gives nothing
  Controllers,
  Threads,      \* the program's
  All,          \* the target of an event for every controller
  None,         \* no device, no controller
  MaxPlugs,     \* bound: devices ever plugged in
  MaxMakes,     \* bound: functions that drivers make or take away
  MaxEnables,   \* bound: calls of Enable
  MaxLost       \* bound: messages lost because the socket's buffer is full

ASSUME SetsAssumption == IsFiniteSet(Paths) /\ IsFiniteSet(Functions)
ASSUME NamesAssumption ==
  Unknown \notin Functions /\ All \notin Controllers /\ None \notin Controllers
ASSUME DriversAssumption == Drivers \subseteq {"none", "module", "bound"}
ASSUME BoundsAssumption == {MaxPlugs, MaxMakes, MaxEnables, MaxLost} \subseteq Nat

VARIABLES
  sys,      \* what /sys shows at each path
  kernel,   \* the messages on their way, and counters for the bounds
  host,     \* what the gate guards: devices, due, events, enabled, nextId, wake
  watcher,  \* the library's USB thread
  thread,   \* what each thread is in the middle of: Start, Disable
  told,     \* controller -> what it was told is connected, while enabled (history)
  quiet     \* the controllers whose Disable has returned (history)

vars == <<sys, kernel, host, watcher, thread, told, quiet>>

-----------------------------------------------------------------------------
\* At a path: the device's devnum, what its drivers made, and whether there is
\* a driver: none, one in a module that is not loaded yet, or one bound to it
Gone == [num |-> 0, functions |-> {}, driver |-> "none"]
NoDevice == [id |-> 0, num |-> 0, functions |-> {}, loaded |-> FALSE, aged |-> FALSE]

\* A thread is in Start ("bind", then "list" with the places still to add) or in Disable
Idle == [in |-> "none", of |-> None, left |-> {}]

Init ==
  /\ sys = [p \in Paths |-> Gone]
  /\ kernel = [messages |-> <<>>, plugs |-> 0, makes |-> 0, lost |-> 0, listening |-> FALSE]
  /\ host = [devices |-> [p \in Paths |-> NoDevice], due |-> [p \in Paths |-> "no"],
             events |-> <<>>, enabled |-> {}, nextId |-> 1, wake |-> FALSE, enables |-> 0]
  /\ watcher = [pc |-> "none", load |-> {}, event |-> None, targets |-> {}, now |-> None]
  /\ thread = [t \in Threads |-> Idle]
  /\ told = [c \in Controllers |-> {}]
  /\ quiet = {}

Starting == \E t \in Threads : thread[t].in \in {"bind", "list"}
GateFree == watcher.pc # "scan" /\ ~Starting
Delivering == watcher.pc \in {"pop", "pick", "notify", "call"}

\* Make: an event about the function f of a device
Event(to, device, f, on) == [to |-> to, id |-> device.id, function |-> f, on |-> on]

EventsFor(to, device, functions, on) ==
  LET order == SetToSeq(functions)
  IN  [i \in 1..Len(order) |-> Event(to, device, order[i], on)]

Sooner(old, new) == IF old = "no" \/ (old = "late" /\ new # "late") THEN new ELSE old

-----------------------------------------------------------------------------
\* Mutants: a device that goes is still to be looked at, or is forgotten without a word.
RemoveDeviceStillDue(h, p) ==
  [h EXCEPT !.devices[p] = NoDevice,
            !.events = @ \o EventsFor(All, h.devices[p], h.devices[p].functions, FALSE)]

RemoveDeviceSilently(h, p) == [h EXCEPT !.due[p] = "no", !.devices[p] = NoDevice]

RemoveDevice(h, p) ==
  [h EXCEPT !.due[p] = "no", !.devices[p] = NoDevice,
            !.events = @ \o EventsFor(All, h.devices[p], h.devices[p].functions, FALSE)]

\* Add(path, when), when /sys shows s there
Add(h, p, s, when) ==
  LET known == h.devices[p] # NoDevice
      rest == IF known THEN RemoveDevice(h, p) ELSE h
  IN  IF known /\ h.devices[p].num = s.num THEN h
      ELSE IF s = Gone THEN rest
      ELSE [rest EXCEPT !.due[p] = when, !.nextId = @ + 1,
              !.devices[p] = [NoDevice EXCEPT !.id = rest.nextId, !.num = s.num]]

\* What Scan finds: the drivers' functions, else Unknown, unless a driver may
\* still make something; and whether there is a driver to load.
ToLoad(device, s) == s.driver = "module" /\ ~device.loaded
MayComeYet(device, s) == ToLoad(device, s) \/ (s.driver # "none" /\ ~device.aged)
Want(device, s) ==
  IF s.functions # {} THEN s.functions
  ELSE IF MayComeYet(device, s) THEN {} ELSE {Unknown}

Scan(h, p, s) ==
  LET device == h.devices[p]
      rest == [h EXCEPT !.due[p] = "no"]
      want == Want(device, s)
      late == want = {} /\ ~ToLoad(device, s)
  IN  IF device = NoDevice THEN rest
      ELSE IF device.num # s.num
      THEN LET removed == RemoveDevice(rest, p) IN IF s = Gone THEN removed ELSE Add(removed, p, s, "soon")
      ELSE [rest EXCEPT
              !.devices[p].functions = want,
              !.devices[p].loaded = @ \/ ToLoad(device, s),
              !.due[p] = IF late THEN Sooner(@, "late") ELSE @,
              !.events = @ \o EventsFor(All, device, device.functions \ want, FALSE)
                           \o EventsFor(All, device, want \ device.functions, TRUE)]

-----------------------------------------------------------------------------
\* The events about the devices already there, for one controller
AlreadyThere(h, c) ==
  LET order == SetToSeq(UNION {{p} \X h.devices[p].functions : p \in Paths})
  IN  [i \in 1..Len(order) |-> Event(c, h.devices[order[i][1]], order[i][2], TRUE)]

\* Mutant: the watcher sleeps on with the new controller's events queued.
EnableInSleep(h, c) ==
  [h EXCEPT !.enabled = @ \cup {c}, !.enables = @ + 1, !.events = @ \o AlreadyThere(h, c)]

\* Enable of a controller that is not enabled yet
Enable(h, c) ==
  [h EXCEPT !.enabled = @ \cup {c}, !.enables = @ + 1, !.events = @ \o AlreadyThere(h, c),
            !.wake = TRUE]

Enables(c) ==
  /\ watcher.pc # "none"
  /\ host.enables < MaxEnables
  /\ c \notin host.enabled
  /\ host' = Enable(host, c)
  /\ told' = [told EXCEPT ![c] = {}]
  /\ quiet' = quiet \ {c}

ThreadEnables(t, c) ==
  /\ thread[t] = Idle /\ GateFree
  /\ Enables(c)
  /\ UNCHANGED <<sys, kernel, watcher, thread>>

\* The first Enable: Start binds the socket, lists the devices, and adds each of
\* them if it is still there; then the thread runs.
StartBinds(t, c) ==
  /\ thread[t] = Idle /\ GateFree
  /\ watcher.pc = "none"
  /\ kernel' = [kernel EXCEPT !.listening = TRUE]
  /\ thread' = [thread EXCEPT ![t] = [in |-> "bind", of |-> c, left |-> {}]]
  /\ UNCHANGED <<sys, host, watcher, told, quiet>>

StartLists(t) ==
  /\ thread[t].in = "bind"
  /\ thread' = [thread EXCEPT ![t].in = "list", ![t].left = {p \in Paths : sys[p] # Gone}]
  /\ UNCHANGED <<sys, kernel, host, watcher, told, quiet>>

StartAdds(t) ==
  /\ thread[t].in = "list"
  /\ \E p \in thread[t].left :
       /\ host' = Add(host, p, sys[p], "now")
       /\ thread' = [thread EXCEPT ![t].left = @ \ {p}]
  /\ UNCHANGED <<sys, kernel, watcher, told, quiet>>

StartEnds(t) ==
  /\ thread[t].in = "list" /\ thread[t].left = {}
  /\ host' = Enable(host, thread[t].of)
  /\ told' = [told EXCEPT ![thread[t].of] = {}]
  /\ quiet' = quiet \ {thread[t].of}
  /\ watcher' = [watcher EXCEPT !.pc = "scan"]
  /\ thread' = [thread EXCEPT ![t] = Idle]
  /\ UNCHANGED <<sys, kernel>>

\* The events that are not for c alone, in their order
Without(events, c) ==
  LET kept == {i \in 1..Len(events) : events[i].to # c}
      Rank(i) == Cardinality({j \in kept : j <= i})
  IN  [n \in 1..Cardinality(kept) |-> events[CHOOSE i \in kept : Rank(i) = n]]

Disable(h, c) == [h EXCEPT !.enabled = @ \ {c}, !.events = Without(@, c)]

\* Disable on a thread of the program: it then waits for delivering
DisableErases(t, c) ==
  /\ thread[t] = Idle /\ GateFree
  /\ host' = Disable(host, c)
  /\ told' = [told EXCEPT ![c] = {}]
  /\ thread' = [thread EXCEPT ![t] = [in |-> "disable", of |-> c, left |-> {}]]
  /\ UNCHANGED <<sys, kernel, watcher, quiet>>

\* Mutant: it does not wait for an event that is being delivered.
DisableHurries(t) ==
  /\ thread[t].in = "disable"
  /\ quiet' = quiet \cup ({thread[t].of} \ host.enabled)
  /\ thread' = [thread EXCEPT ![t] = Idle]
  /\ UNCHANGED <<sys, kernel, host, watcher, told>>

DisableReturns(t) ==
  /\ thread[t].in = "disable"
  /\ ~Delivering
  /\ quiet' = quiet \cup ({thread[t].of} \ host.enabled)
  /\ thread' = [thread EXCEPT ![t] = Idle]
  /\ UNCHANGED <<sys, kernel, host, watcher, told>>

\* A callback enables or disables controllers; delivering is recursive
CallbackEnables(c) ==
  /\ watcher.pc = "call" /\ GateFree
  /\ Enables(c)
  /\ UNCHANGED <<sys, kernel, watcher, thread>>

CallbackDisables(c) ==
  /\ watcher.pc = "call" /\ GateFree
  /\ c \in host.enabled
  /\ host' = Disable(host, c)
  /\ told' = [told EXCEPT ![c] = {}]
  /\ quiet' = quiet \cup {c}
  /\ UNCHANGED <<sys, kernel, watcher, thread>>

-----------------------------------------------------------------------------
\* Run: looks at the devices that are due, with the gate held
ScanDue(p) ==
  /\ watcher.pc = "scan"
  /\ host.due[p] = "now"
  /\ host' = Scan(host, p, sys[p])
  /\ watcher' = IF host'.devices[p].loaded /\ ~host.devices[p].loaded
                THEN [watcher EXCEPT !.load = @ \cup {p}] ELSE watcher
  /\ UNCHANGED <<sys, kernel, thread, told, quiet>>

ScanEnds ==
  /\ watcher.pc = "scan"
  /\ \A p \in Paths : host.due[p] # "now"
  /\ watcher' = [watcher EXCEPT !.pc = IF watcher.load # {} THEN "load" ELSE "pop"]
  /\ UNCHANGED <<sys, kernel, host, thread, told, quiet>>

\* modprobe, which may fail; then the device is looked at again at once
Loads ==
  /\ watcher.pc = "load"
  /\ \E bound \in SUBSET {p \in watcher.load : sys[p].driver = "module"} :
       sys' = [p \in Paths |-> IF p \in bound THEN [sys[p] EXCEPT !.driver = "bound"] ELSE sys[p]]
  /\ GateFree
  /\ host' = [host EXCEPT !.due = [p \in Paths |-> IF p \in watcher.load THEN "now" ELSE @[p]]]
  /\ watcher' = [watcher EXCEPT !.pc = "scan", !.load = {}]
  /\ UNCHANGED <<kernel, thread, told, quiet>>

\* Deliver: the next event and the controllers that are to hear of it
Pops ==
  /\ watcher.pc = "pop" /\ GateFree
  /\ IF host.events = <<>>
     THEN watcher' = [watcher EXCEPT !.pc = "poll"] /\ UNCHANGED host
     ELSE LET e == Head(host.events)
          IN  /\ host' = [host EXCEPT !.events = Tail(@)]
              /\ watcher' = [watcher EXCEPT !.pc = "pick", !.event = e,
                   !.targets = {c \in host.enabled : e.to \in {All, c}}]
  /\ UNCHANGED <<sys, kernel, thread, told, quiet>>

Picks ==
  /\ watcher.pc = "pick" /\ GateFree
  /\ IF watcher.targets = {}
     THEN watcher' = [watcher EXCEPT !.pc = "pop", !.event = None]
     ELSE \E c \in watcher.targets :
            watcher' = IF c \in host.enabled
                       THEN [watcher EXCEPT !.targets = @ \ {c}, !.pc = "notify", !.now = c]
                       ELSE [watcher EXCEPT !.targets = @ \ {c}]
  /\ UNCHANGED <<sys, kernel, host, thread, told, quiet>>

\* What a callback knows once it has heard of e
Knows(known, e) ==
  IF e.on THEN known \cup {<<e.id, e.function>>} ELSE known \ {<<e.id, e.function>>}

Notifies ==
  /\ watcher.pc = "notify"
  /\ told' = [told EXCEPT ![watcher.now] =
                IF watcher.now \in host.enabled THEN Knows(@, watcher.event) ELSE @]
  /\ watcher' = [watcher EXCEPT !.pc = "call"]
  /\ UNCHANGED <<sys, kernel, host, thread, quiet>>

CallReturns ==
  /\ watcher.pc = "call"
  /\ watcher' = [watcher EXCEPT !.pc = "pick", !.now = None]
  /\ UNCHANGED <<sys, kernel, host, thread, told, quiet>>

\* poll: woken up, a message, or the time for a device
Polls ==
  /\ watcher.pc = "poll"
  /\ host.wake \/ kernel.messages # <<>> \/ \E p \in Paths : host.due[p] = "now"
  /\ host' = [host EXCEPT !.wake = FALSE]
  /\ watcher' = [watcher EXCEPT !.pc = IF kernel.messages # <<>> THEN "receive" ELSE "scan"]
  /\ UNCHANGED <<sys, kernel, thread, told, quiet>>

\* Receive: every message there is, one at a time
Receives ==
  LET m == Head(kernel.messages)
  IN  /\ watcher.pc = "receive" /\ GateFree
      /\ IF kernel.messages = <<>>
         THEN watcher' = [watcher EXCEPT !.pc = "scan"] /\ UNCHANGED <<kernel, host>>
         ELSE /\ kernel' = [kernel EXCEPT !.messages = Tail(@)]
              /\ host' = CASE m[1] = "add" -> Add(host, m[2], sys[m[2]], "soon")
                           [] m[1] = "remove" -> RemoveDevice(host, m[2])
                           [] m[1] = "below" ->
                                IF host.devices[m[2]] = NoDevice THEN host
                                ELSE [host EXCEPT !.due[m[2]] = Sooner(@, "soon")]
              /\ UNCHANGED watcher
      /\ UNCHANGED <<sys, thread, told, quiet>>

-----------------------------------------------------------------------------
\* The kernel's message about a path: one that is not listened to is not sent,
\* and one that finds the socket's buffer full is lost.
Sends(k, action, p) ==
  IF ~k.listening THEN k ELSE [k EXCEPT !.messages = Append(@, <<action, p>>)]

SendsOrLoses(k, action, p) ==
  \/ kernel' = Sends(k, action, p)
  \/ k.listening /\ k.lost < MaxLost /\ kernel' = [k EXCEPT !.lost = @ + 1]

PlugIn(p, driver) ==
  /\ sys[p] = Gone /\ kernel.plugs < MaxPlugs
  /\ sys' = [sys EXCEPT ![p] = [num |-> kernel.plugs + 1, functions |-> {}, driver |-> driver]]
  /\ SendsOrLoses([kernel EXCEPT !.plugs = @ + 1], "add", p)
  /\ UNCHANGED <<host, watcher, thread, told, quiet>>

PullOut(p) ==
  /\ sys[p] # Gone
  /\ sys' = [sys EXCEPT ![p] = Gone]
  /\ SendsOrLoses(kernel, "remove", p)
  /\ UNCHANGED <<host, watcher, thread, told, quiet>>

\* A driver makes a port, an input device..., or takes one away
DriverMakes(p, f) ==
  /\ sys[p].driver = "bound" /\ kernel.makes < MaxMakes
  /\ sys' = [sys EXCEPT ![p].functions = IF f \in @ THEN @ \ {f} ELSE @ \cup {f}]
  /\ SendsOrLoses([kernel EXCEPT !.makes = @ + 1], "below", p)
  /\ UNCHANGED <<host, watcher, thread, told, quiet>>

\* Settle or Recheck is over; a device's driver has had its time
TimePasses(p) ==
  /\ host.due[p] = "soon" /\ watcher.pc # "scan"
  /\ host' = [host EXCEPT !.due[p] = "now"]
  /\ UNCHANGED <<sys, kernel, watcher, thread, told, quiet>>

Ages(p) ==
  /\ host.devices[p] # NoDevice /\ ~host.devices[p].aged /\ watcher.pc # "scan"
  /\ host' = [host EXCEPT !.devices[p].aged = TRUE,
                          !.due[p] = IF @ = "late" THEN "now" ELSE @]
  /\ UNCHANGED <<sys, kernel, watcher, thread, told, quiet>>

-----------------------------------------------------------------------------
KernelNext ==
  \E p \in Paths :
    \/ \E driver \in Drivers : PlugIn(p, driver)
    \/ PullOut(p)
    \/ \E f \in Functions : DriverMakes(p, f)

ProgramNext ==
  \/ \E t \in Threads, c \in Controllers :
       ThreadEnables(t, c) \/ StartBinds(t, c) \/ DisableErases(t, c)
  \/ \E c \in Controllers : CallbackEnables(c) \/ CallbackDisables(c)

WatcherNext ==
  \/ \E p \in Paths : ScanDue(p)
  \/ ScanEnds \/ Loads \/ Pops \/ Picks \/ Notifies \/ CallReturns \/ Polls \/ Receives

TimeNext == \E p \in Paths : TimePasses(p) \/ Ages(p)

StartGoesOn(t) == StartLists(t) \/ StartAdds(t) \/ StartEnds(t)
ThreadGoesOn(t) == StartGoesOn(t) \/ DisableReturns(t)

Next ==
  \/ KernelNext \/ ProgramNext \/ WatcherNext \/ TimeNext
  \/ \E t \in Threads : ThreadGoesOn(t)

\* The watcher runs, time passes, Start goes on, and Disable gets the mutex it
\* waits for if that is free again and again.
Fairness ==
  /\ WF_vars(WatcherNext)
  /\ \A p \in Paths : WF_vars(TimePasses(p)) /\ WF_vars(Ages(p))
  /\ \A t \in Threads : WF_vars(StartGoesOn(t)) /\ SF_vars(DisableReturns(t))

Spec == Init /\ [][Next]_vars /\ Fairness

-----------------------------------------------------------------------------
Shown == Functions \cup {Unknown}
Numbers == 0..MaxPlugs
EventType == [to : Controllers \cup {All}, id : Nat, function : Shown, on : BOOLEAN]

TypeOK ==
  /\ sys \in [Paths -> [num : Numbers, functions : SUBSET Functions,
                        driver : {"none", "module", "bound"}]]
  /\ host.devices \in [Paths -> [id : Nat, num : Numbers, functions : SUBSET Shown,
                                 loaded : BOOLEAN, aged : BOOLEAN]]
  /\ host.due \in [Paths -> {"no", "soon", "late", "now"}]
  /\ \A p \in Paths : host.due[p] # "no" => host.devices[p] # NoDevice \/ watcher.pc = "scan"
  /\ host.events \in Seq(EventType)
  /\ host.enabled \subseteq Controllers
  /\ watcher.pc \in {"none", "scan", "load", "pop", "pick", "notify", "call", "poll", "receive"}
  /\ watcher.targets \subseteq Controllers
  /\ \A c \in Controllers : told[c] \subseteq (1..(host.nextId - 1)) \X Shown

\* "Afterwards the controller's callback is not called any more" (UsbHost.cpp:276),
\* whichever thread or callback disabled it, and until it is enabled again.
NoCallAfterDisable == [][Notifies => watcher.now \notin quiet]_vars

Connected == UNION {{host.devices[p].id} \X host.devices[p].functions : p \in Paths}

\* The event e tells c of what has the handle id and the function f
Tells(e, c, id, f) == e.to \in {All, c} /\ e.id = id /\ e.function = f

\* c is about to be told of the event that is being delivered
AboutToHear(c) == c \in watcher.targets \/ (watcher.pc = "notify" /\ watcher.now = c)

\* Nothing is lost and nothing is left over: at any moment, for a controller
\* that was enabled at any moment, the last word that is on its way to it about
\* something, or else what it was told, is what the devices give
\* (UsbHost.cpp:267, 497, 548, 703).
EverythingTold ==
  \A c \in host.enabled, id \in 1..(host.nextId - 1), f \in Shown :
    LET queued == {i \in 1..Len(host.events) : Tells(host.events[i], c, id, f)}
        last == host.events[CHOOSE i \in queued : \A j \in queued : j <= i]
    IN  <<id, f>> \in Connected <=>
          IF queued # {} THEN last.on
          ELSE IF AboutToHear(c) /\ Tells(watcher.event, c, id, f) THEN watcher.event.on
          ELSE <<id, f>> \in told[c]

\* A controller that stays enabled in the end knows what is plugged in, unless
\* a message was lost.
Seen(p) ==
  LET device == host.devices[p]
  IN  IF sys[p] = Gone THEN device = NoDevice
      ELSE device.num = sys[p].num /\ device.functions = Want(device, sys[p])

EndsUpRight ==
  <>[](kernel.lost = 0 => \A c \in host.enabled :
         (\A p \in Paths : Seen(p)) /\ told[c] = Connected)

=============================================================================

------------------------------- MODULE Network -------------------------------
(***************************************************************************)
(* Network.cpp and NetworkCApi.cpp: Enable and Disable work on whichever   *)
(* interface of a type they find, through commands that they wait for, and *)
(* leave a DHCP client running; the settings are a file that Enable reads. *)
(* Names of an interface's kind are numbers, in alphabetical order.        *)
(*                                                                         *)
(* Addresses and keys are left out, and an interface's metric is that of   *)
(* its best default route.  Each type is enabled and disabled by one       *)
(* thread of the program, and one program at a time saves settings, which  *)
(* may end at any point of it (not the power: nothing is synced).          *)
(***************************************************************************)
EXTENDS Integers, FiniteSets

CONSTANTS
  Ethernet, Wifi,   \* the interfaces that there may be
  Dongles,          \* those of them that are plugged in later
  NetworkSettings,           \* what programs save: [type, dhcp: flag, mac: pin or None]
  MaxChanges,       \* bound: cables, dongles and saves that are not cut
  MaxClients,       \* bound: DHCP clients of an interface
  None

Types == {"ethernet", "wifi"}
Interfaces == Ethernet \cup Wifi
Kind(type) == IF type = "ethernet" THEN Ethernet ELSE Wifi

VARIABLES
  present, dead,    \* interfaces that there are; those whose PHY does not start
  up, linked,       \* interfaces that are admin-up; those that have a carrier
  asking, bound,    \* interface -> DHCP clients without and with a lease
  pidfile,          \* interface -> its newest client is in the file
  metric,           \* interface -> its default route's metric, or None
  pc,               \* type -> where its thread's call is, on which interface, and
                    \* what Enable read at first: the interfaces, and the setting
  configured,       \* type -> what Enable configured, while nothing changed since
  overdue,          \* interfaces whose carrier came when Enable had given them up (history)
  late,             \* those whose client has put its route in after Enable (history)
  file,             \* network.json: [whole, dhcp: type -> flag, mac: type -> pin]
  tmp,              \* its .tmp, or None
  saver,            \* the program that saves: where it is, what of which type
  lastSaved,        \* type -> the section that was saved last, None when a save that
                    \* was not written has taken it away (history)
  changes

links == <<present, dead, up, linked, overdue>>
leases == <<asking, bound, pidfile, metric, late>>
settings == <<file, tmp, saver, lastSaved>>
netVars == <<present, dead, up, linked, asking, bound, pidfile, metric, pc, configured,
             overdue, late, file, tmp, saver, lastSaved, changes>>

Idle == [at |-> "idle", on |-> None, among |-> {}, dhcp |-> FALSE]
Content(dhcp, mac) == [whole |-> TRUE, dhcp |-> dhcp, mac |-> mac]
Defaults == Content([t \in Types |-> TRUE], [t \in Types |-> None])
Torn == [Defaults EXCEPT !.whole = FALSE]

Section(content, type) == [dhcp |-> content.dhcp[type], mac |-> content.mac[type]]
NoSaver == [at |-> "idle", content |-> Defaults, type |-> None]

\* ReadConfig and LoadNetworkConfig: what cannot be parsed is as if not set
Load == IF file.whole THEN file ELSE Defaults

Init ==
  /\ present \in {Interfaces, Interfaces \ Dongles} /\ dead \in SUBSET (Ethernet \ Dongles)
  /\ up = {} /\ linked = {} /\ overdue = {} /\ asking = [i \in Interfaces |-> 0] /\ bound = [i \in Interfaces |-> 0]
  /\ pidfile = [i \in Interfaces |-> FALSE] /\ metric = [i \in Interfaces |-> None]
  /\ pc = [t \in Types |-> Idle] /\ configured = [t \in Types |-> None] /\ late = {}
  /\ file \in {Defaults, Torn} /\ tmp = None /\ saver = NoSaver
  /\ lastSaved = [t \in Types |-> IF file.whole THEN Section(file, t) ELSE None]
  /\ changes = 0

-----------------------------------------------------------------------------
\* GetMatchingInterfaces, HasCarrier, GetInterfaceName
Candidates(type) ==
  {i \in present \cap Kind(type) : Load.mac[type] \in {None, i}}

HasCarrier(i) == i \in linked
First(interfaces) == CHOOSE i \in interfaces : \A j \in interfaces : i <= j

Name(type) ==
  LET isUp == Candidates(type) \cap up
      carried == {i \in isUp : HasCarrier(i)} IN
  IF carried # {} THEN First(carried)
  ELSE IF isUp # {} THEN First(isUp)
  ELSE IF Candidates(type) # {} THEN First(Candidates(type)) ELSE None

\* Mutant: no type comes first
MetricForTypeSame(type) == 100

IsEnabled(type) == Name(type) # None /\ Name(type) \in up

MetricForType(type) == IF type = "ethernet" THEN 100 ELSE 200
At(type, place, i) == pc' = [pc EXCEPT ![type].at = place, ![type].on = i]
Returns(type) == pc' = [pc EXCEPT ![type] = Idle]

-----------------------------------------------------------------------------
\* The world: cables, dongles, links that are negotiated, and DHCP servers
Changes == changes < MaxChanges /\ changes' = changes + 1

\* A cable is pulled out; one that is in, or put in again, is a link that negotiates
Cable(i) ==
  /\ Changes /\ i \in linked /\ linked' = linked \ {i}
  /\ configured' = [t \in Types |-> None]
  /\ UNCHANGED <<present, dead, up, overdue, leases, pc, settings>>

\* A PHY takes seconds to negotiate after its interface came up (Network.cpp:152), or
\* never does, without a cable or an access point.
\* Enable waits for one candidate after the other.
Awaited(type, i) == pc[type].at = "pick" /\ i \in pc[type].among /\ pc[type].on <= i

Negotiates(i) ==
  /\ i \in up \ linked
  /\ linked' = linked \cup {i}
  /\ overdue' = IF \E t \in Types : Awaited(t, i) THEN overdue ELSE overdue \cup {i}
  /\ UNCHANGED <<present, dead, up, leases, pc, configured, settings, changes>>

Plug(i) ==
  /\ Changes /\ i \in Dongles \ present /\ present' = present \cup {i}
  /\ configured' = [t \in Types |-> None]
  /\ UNCHANGED <<dead, up, linked, overdue, leases, pc, settings>>

Unplug(i) ==
  /\ Changes /\ i \in Dongles \cap present /\ present' = present \ {i}
  /\ up' = up \ {i} /\ linked' = linked \ {i} /\ overdue' = overdue \ {i}
  /\ asking' = [asking EXCEPT ![i] = 0] /\ bound' = [bound EXCEPT ![i] = 0]
  /\ pidfile' = [pidfile EXCEPT ![i] = FALSE] /\ metric' = [metric EXCEPT ![i] = None]
  /\ late' = late \ {i}
  /\ configured' = [t \in Types |-> None]
  /\ UNCHANGED <<dead, pc, settings>>

\* udhcpc puts its own default route, metric 0, in the place of the one there,
\* with its lease, and it may do so each time that it renews it
PutsRoute(i) ==
  /\ metric' = [metric EXCEPT ![i] = 0]
  /\ late' = IF \E t \in Types : pc[t].at = "route" /\ pc[t].on = i
             THEN late ELSE late \cup {i}

Answer(i) ==
  /\ asking[i] > 0 /\ HasCarrier(i)
  /\ asking' = [asking EXCEPT ![i] = @ - 1] /\ bound' = [bound EXCEPT ![i] = @ + 1]
  /\ PutsRoute(i)
  /\ UNCHANGED <<links, pidfile, pc, configured, settings, changes>>

Renews(i) ==
  /\ bound[i] > 0 /\ HasCarrier(i)
  /\ PutsRoute(i)
  /\ UNCHANGED <<links, asking, bound, pidfile, pc, configured, settings, changes>>

-----------------------------------------------------------------------------
\* Enable: every candidate is brought up, as far as its PHY lets it, and each
\* has a second for its carrier, in the order of the names, until one has it.  The drivers are loaded by
\* then, and a wifi section without an ssid is refused like one without
\* interfaces: nothing was brought up.
IsAdminUp(interfaces) == interfaces \ dead

Enable(type) ==
  LET adminUp == IsAdminUp(Candidates(type)) IN
  /\ pc[type] = Idle
  /\ up' = up \cup adminUp
  /\ pc' = [pc EXCEPT ![type] =
             IF adminUp = {} THEN Idle
             ELSE [at |-> "pick", on |-> First(adminUp), among |-> adminUp,
                   dhcp |-> Load.dhcp[type]]]
  /\ configured' = [configured EXCEPT ![type] = None] /\ overdue' = overdue \ Kind(type)
  /\ UNCHANGED <<present, dead, linked, leases, settings, changes>>

Chosen(type, i) ==
  /\ At(type, IF pc[type].dhcp THEN "dhcp" ELSE "static", i)
  /\ configured' = [configured EXCEPT ![type] =
                      IF pc[type].among = Candidates(type) \cap up THEN i ELSE None]

Pick(type) ==
  /\ pc[type].at = "pick" /\ HasCarrier(pc[type].on)
  /\ Chosen(type, pc[type].on)
  /\ UNCHANGED <<links, leases, settings, changes>>

\* ... the time is up: the next one, or after the last of them the first
CarrierTimeout(type) ==
  LET next == {j \in pc[type].among : j > pc[type].on} IN
  /\ pc[type].at = "pick" /\ ~HasCarrier(pc[type].on)
  /\ IF next # {} THEN At(type, "pick", First(next)) /\ UNCHANGED configured
     ELSE Chosen(type, First(pc[type].among))
  /\ UNCHANGED <<links, leases, settings, changes>>

StartDhcp(type) ==
  LET i == pc[type].on IN
  /\ pc[type].at = "dhcp"
  /\ IF i \in present /\ asking[i] + bound[i] < MaxClients
     THEN /\ asking' = [asking EXCEPT ![i] = @ + 1]
          /\ pidfile' = [pidfile EXCEPT ![i] = TRUE]
     ELSE UNCHANGED <<asking, pidfile>>
  /\ At(type, "route", i)
  /\ UNCHANGED <<links, bound, metric, late, configured, settings, changes>>

\* ... the client's route is waited for, and made anew with the type's metric
DeleteRoute(type) ==
  LET i == pc[type].on IN
  /\ pc[type].at = "route" /\ metric[i] # None
  /\ metric' = [metric EXCEPT ![i] = None] /\ late' = late \ {i}
  /\ At(type, "add", i)
  /\ UNCHANGED <<links, asking, bound, pidfile, configured, settings, changes>>

AddRoute(type) ==
  LET i == pc[type].on IN
  /\ pc[type].at = "add"
  /\ metric' = [metric EXCEPT ![i] = IF i \in up /\ @ = None THEN MetricForType(type) ELSE @]
  /\ Returns(type)
  /\ UNCHANGED <<links, asking, bound, pidfile, late, configured, settings, changes>>

\* ApplyStatic takes the addresses, and the routes with them, and adds its own
\* if the settings have a gateway; or it throws, for what they have not
ApplyStatic(type, outcome) ==
  LET i == pc[type].on IN
  /\ pc[type].at = "static"
  /\ metric' = [metric EXCEPT ![i] =
        CASE outcome = "throws" -> @
          [] outcome = "no gateway" -> None
          [] OTHER -> IF i \in up THEN MetricForType(type) ELSE None]
  /\ late' = IF outcome = "throws" THEN late ELSE late \ {i}
  /\ Returns(type)
  /\ UNCHANGED <<links, asking, bound, pidfile, configured, settings, changes>>

\* 10 s without a route: Enable returns all the same
RouteTimeout(type) ==
  /\ pc[type].at = "route" /\ metric[pc[type].on] = None
  /\ Returns(type)
  /\ UNCHANGED <<links, leases, configured, settings, changes>>

\* The newest client of an interface is killed, by the number in the file; it
\* has a lease or is asking
StopDhcp(i) ==
  /\ IF pidfile[i] /\ asking[i] + bound[i] > 0
     THEN \/ asking[i] > 0 /\ asking' = [asking EXCEPT ![i] = @ - 1] /\ UNCHANGED bound
          \/ bound[i] > 0 /\ bound' = [bound EXCEPT ![i] = @ - 1] /\ UNCHANGED asking
     ELSE UNCHANGED <<asking, bound>>
  /\ pidfile' = [pidfile EXCEPT ![i] = FALSE]

\* Disable: the client of the interface that has the name now is stopped, and
\* then the interface goes down, with its routes
Disable(type) ==
  LET i == Name(type) IN
  /\ pc[type] = Idle /\ i # None
  /\ StopDhcp(i)
  /\ At(type, "down", i)
  /\ configured' = [configured EXCEPT ![type] = None]
  /\ UNCHANGED <<links, metric, late, settings, changes>>

LinkDown(type) ==
  LET i == pc[type].on IN
  /\ pc[type].at = "down"
  /\ up' = up \ {i} /\ linked' = linked \ {i} /\ overdue' = overdue \ {i}
  /\ metric' = [metric EXCEPT ![i] = None] /\ late' = late \ {i}
  /\ Returns(type)
  /\ UNCHANGED <<present, dead, asking, bound, pidfile, configured, settings, changes>>

-----------------------------------------------------------------------------
\* SetInterfaceSettings: load, change one type's section, open the .tmp, which
\* empties it - or cannot be opened, and nobody looks - write it and rename it
SetInterfaceSettings(wish) ==
  /\ Changes /\ saver.at = "idle"
  /\ \E opens \in BOOLEAN :
       /\ tmp' = IF opens THEN Torn ELSE tmp
       /\ saver' = [at |-> IF opens THEN "write" ELSE "rename", type |-> wish.type,
                    content |-> [Load EXCEPT !.dhcp[wish.type] = wish.dhcp,
                                             !.mac[wish.type] = wish.mac]]
  /\ UNCHANGED <<links, leases, pc, configured, file, lastSaved>>

\* The stream's state is not looked at: what does not fit is cut
Write ==
  /\ saver.at = "write" /\ saver' = [saver EXCEPT !.at = "rename"]
  /\ tmp' \in {saver.content, Torn}
  /\ UNCHANGED <<links, leases, pc, configured, file, lastSaved, changes>>

Rename ==
  /\ saver.at = "rename" /\ tmp # None
  /\ file' = tmp /\ tmp' = None /\ saver' = NoSaver
  /\ lastSaved' = IF tmp = saver.content
       THEN [lastSaved EXCEPT ![saver.type] = Section(saver.content, saver.type)]
       ELSE [t \in Types |-> None]
  /\ configured' = [t \in Types |-> None]
  /\ UNCHANGED <<links, leases, pc, changes>>

\* ... and without a .tmp, or when it fails, the program is told
RenameFails ==
  /\ saver.at = "rename" /\ saver' = NoSaver /\ tmp' = None
  /\ UNCHANGED <<links, leases, pc, configured, file, lastSaved, changes>>

\* The program ends in the midst of it, and another may save later
Crash ==
  /\ saver.at # "idle" /\ saver' = NoSaver /\ changes' = changes - 1
  /\ UNCHANGED <<links, leases, pc, configured, file, tmp, lastSaved>>

TypeStep(type) ==
  \/ Enable(type) \/ Pick(type) \/ CarrierTimeout(type) \/ StartDhcp(type) \/ DeleteRoute(type) \/ AddRoute(type)
  \/ RouteTimeout(type) \/ Disable(type) \/ LinkDown(type)
  \/ \E outcome \in {"throws", "no gateway", "gateway"} : ApplyStatic(type, outcome)

Next ==
  \/ \E i \in Interfaces : Cable(i) \/ Negotiates(i) \/ Plug(i) \/ Unplug(i) \/ Answer(i) \/ Renews(i)
  \/ \E type \in Types : TypeStep(type)
  \/ \E wish \in NetworkSettings : SetInterfaceSettings(wish)
  \/ Write \/ Rename \/ RenameFails \/ Crash

Spec == Init /\ [][Next]_netVars

-----------------------------------------------------------------------------
\* Interfaces, clients, routes and the settings file have their types.
TypeOK ==
  /\ present \subseteq Interfaces /\ up \subseteq present /\ linked \subseteq up
  /\ asking \in [Interfaces -> 0..MaxClients] /\ bound \in [Interfaces -> 0..MaxClients]
  /\ metric \in [Interfaces -> {0, 100, 200, None}]
  /\ configured \in [Types -> Interfaces \cup {None}]
  /\ saver.at \in {"idle", "write", "rename"}

\* The name is that of the interface that Enable configured, as long as no cable,
\* dongle or setting changed: IsEnabled says yes, IsConnected and Disable are
\* about that one.  Only a carrier that came when Enable had waited its second
\* for it (Network.cpp:535) gives another one the name, which is up as well.
NameIsConfigured ==
  \A t \in Types : pc[t] = Idle /\ configured[t] # None =>
    Name(t) \in {configured[t]} \cup overdue /\ IsEnabled(t)

Ready(t) == {i \in Kind(t) : HasCarrier(i) /\ metric[i] # None}

\* With both enabled, ethernet carries what goes out: its metric is the lower
\* one, unless the radio's client put in its route, with its lease or renewing
\* it, after Enable had stopped waiting for it.
EthernetCarries ==
  (\A t \in Types : pc[t] = Idle) =>
    \A e \in Ready("ethernet"), w \in Ready("wifi") \ late : metric[e] < metric[w]

\* The settings file has each type's section as the last finished save of that
\* type put it there, wherever a program ended that was saving either, unless a
\* save that could not be written (NetworkCApi.cpp:57) took both away since.
SettingsWhole ==
  \A t \in Types : lastSaved[t] # None => file.whole /\ Section(file, t) = lastSaved[t]

=============================================================================

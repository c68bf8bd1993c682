------------------------------ MODULE Resources -------------------------------
(***************************************************************************)
(* What a program takes from the system and gives back, one of the six at  *)
(* a time, as they share nothing: a widget tree, kernel drivers, a PWM     *)
(* channel, the network's interfaces with their settings file, a display   *)
(* with its backlight and the watchdog.  The other five stay where one of  *)
(* their initial states has them.                                          *)
(***************************************************************************)
EXTENDS Widgets, Drivers, Pwm

CONSTANTS
  Ethernet, Wifi, Dongles, NetworkSettings, MaxChanges, MaxClients,     \* Network
  Pids,                                                                 \* Display
  Watchdogs, TicksPerSecond, Timeouts, Default                          \* Watchdog

\* Interfaces have numbers, in the order of their names
ASSUME NetworkAssumption ==
  /\ Ethernet \subseteq Nat /\ Wifi \subseteq Nat /\ Ethernet \cap Wifi = {}
  /\ MaxClients \in Nat /\ None \notin Nat
  /\ NetworkSettings \subseteq
       [type : {"ethernet", "wifi"}, dhcp : BOOLEAN, mac : Ethernet \cup Wifi \cup {None}]

ASSUME ProcessesAssumption == None \notin Pids

\* Time is counted from 1: Enable refuses a timeout of 0
ASSUME ClockAssumption ==
  /\ TicksPerSecond \in Nat \ {0} /\ Default \in Nat \ {0}
  /\ Timeouts \subseteq Nat \ {0}
  /\ None \notin Watchdogs

VARIABLES
  subject,
  present, dead, netUp, linked, asking, leased, pidfile, metric, netPc, configured,
  overdue, late, file, tmp, saver, lastSaved, changes,
  config, displayPc, on, loaded, fb, stream, gpioset, level, mine, forked, backlightFile,
  asked, strangers,
  watchers, user, counts, timeout, left, restarted, since, granted

networkVars ==
  <<present, dead, netUp, linked, asking, leased, pidfile, metric, netPc, configured,
    overdue, late, file, tmp, saver, lastSaved, changes>>
displayVars ==
  <<config, displayPc, on, loaded, fb, stream, gpioset, level, mine, forked, backlightFile,
    asked, strangers>>
watchdogVars ==
  <<watchers, user, counts, timeout, left, restarted, since, granted>>

Net == INSTANCE Network WITH up <- netUp, bound <- leased, pc <- netPc
Display == INSTANCE Display WITH pc <- displayPc, child <- forked, pidfile <- backlightFile
Watchdog == INSTANCE Watchdog WITH
  Second <- TicksPerSecond, enabled <- watchers, asked <- granted

Subjects == {"widgets", "drivers", "pwm", "network", "display", "watchdog"}

(* The initial states of a component that is not looked at: one of them.   *)
WidgetsRest == kind = [w \in Widgets |-> None]
DriversRest == peripheral = "bus"
PwmRest ==
  /\ wanted = [frequency |-> CHOOSE f \in Frequencies : TRUE, duty |-> 0]
  /\ exported = FALSE /\ kperiod = 0
NetworkRest ==
  present = Ethernet \cup Wifi /\ dead = {} /\ file.whole
DisplayRest == config = [type |-> "none", panel |-> FALSE, backlight |-> None]

Init ==
  /\ subject \in Subjects
  /\ WidgetsInit /\ (subject # "widgets" => WidgetsRest)
  /\ DriversInit /\ (subject # "drivers" => DriversRest)
  /\ PwmInit /\ (subject # "pwm" => PwmRest)
  /\ Net!Init /\ (subject # "network" => NetworkRest)
  /\ Display!Init /\ (subject # "display" => DisplayRest)
  /\ Watchdog!Init

Next ==
  \/ /\ subject = "widgets"
     /\ WidgetsNext
     /\ UNCHANGED <<subject, driverVars, pwmVars, networkVars, displayVars, watchdogVars>>
  \/ /\ subject = "drivers"
     /\ DriversNext
     /\ UNCHANGED <<subject, widgetVars, pwmVars, networkVars, displayVars, watchdogVars>>
  \/ /\ subject = "pwm"
     /\ PwmNext
     /\ UNCHANGED <<subject, widgetVars, driverVars, networkVars, displayVars, watchdogVars>>
  \/ /\ subject = "network"
     /\ Net!Next
     /\ UNCHANGED <<subject, widgetVars, driverVars, pwmVars, displayVars, watchdogVars>>
  \/ /\ subject = "display"
     /\ Display!Next
     /\ UNCHANGED <<subject, widgetVars, driverVars, pwmVars, networkVars, watchdogVars>>
  \/ /\ subject = "watchdog"
     /\ Watchdog!Next
     /\ UNCHANGED <<subject, widgetVars, driverVars, pwmVars, networkVars, displayVars>>

Spec ==
  /\ Init
  /\ [][Next]_<<subject, widgetVars, driverVars, pwmVars, networkVars, displayVars, watchdogVars>>

(* The variables of the six components have their types.                   *)
TypeOK ==
  /\ WidgetsTypeOK /\ DriversTypeOK /\ PwmTypeOK /\ Net!TypeOK
  /\ Display!TypeOK /\ Watchdog!TypeOK

(* With ethernet and Wi-Fi enabled, ethernet carries what goes out, the    *)
(* name of a type's interface is that of the one Enable configured, and    *)
(* the settings file is whole wherever a program that saved it ended, but  *)
(* for what comes late and what cannot be written, as each of them says.   *)
NetworkAsAsked == Net!EthernetCarries /\ Net!NameIsConfigured /\ Net!SettingsWhole

(* The backlight's line is held by one process of the program, at the      *)
(* level that was asked for last, as far as no earlier program's is in the *)
(* way; the board restarts when the program has not fed the watchdog for   *)
(* as long as it asked for, not before and not more than a second later.   *)
HeldAsAsked ==
  /\ Display!OneHolder /\ Display!BacklightAsAsked
  /\ Watchdog!EnabledIsWatched /\ Watchdog!RestartsInTime

=============================================================================

------------------------------ MODULE Drivers ------------------------------
(***************************************************************************)
(* The peripheral initializers of EPN256.h and EPN128.h: kernel drivers    *)
(* loaded for the first user of a peripheral and unloaded after the last.  *)
(* Three shapes: "bus" (SPI, I2C, PWM: one set of modules serves every     *)
(* controller), "can" (as "bus", and the link is then set up with three    *)
(* commands outside the gate) and "uart" (each device is bound to a        *)
(* built-in driver and unbound again).                                     *)
(*                                                                         *)
(* Bound: a thread initializes a controller again only after giving it     *)
(* back, so a controller's count is the number of threads that hold it.    *)
(***************************************************************************)
EXTENDS Naturals, FiniteSets

CONSTANTS Threads, Controllers,
          Modules            \* the kernel modules of a "bus" or a "can"

\* Every chip has some: EPN256's four SPI buses, two CAN interfaces, ...
ASSUME ControllersAssumption == Controllers # {}

VARIABLES peripheral,        \* which of the three shapes
          users,             \* threads counted in OpenCount(), per controller
          moduleLoaded,      \* ModuleLoaded()
          kernel,            \* the modules the kernel has
          bound,             \* the devices bound to the built-in driver
          shown,             \* the controllers whose device the kernel shows
          up,                \* the CAN links that are up
          at,                \* where each thread is: a step and a controller
          failed             \* a command failed at some time

driverVars == <<peripheral, users, moduleLoaded, kernel, bound, shown, up, at, failed>>

Shapes == {"bus", "can", "uart"}
Steps == {"waiting", "down", "type", "up"}
Idle == [step |-> "idle", controller |-> CHOOSE c \in Controllers : TRUE]

DriversInit ==
  /\ peripheral \in Shapes
  /\ users = [c \in Controllers |-> {}]
  /\ moduleLoaded = FALSE
  /\ kernel = {}
  /\ bound \in SUBSET Controllers
  /\ peripheral # "uart" => bound = {}
  /\ shown = bound
  /\ up = {}
  /\ at = [t \in Threads |-> Idle]
  /\ failed = FALSE

Nobody(us) == \A c \in Controllers : us[c] = {}
Counts(t, c) == users' = [users EXCEPT ![c] = @ \cup {t}]
Goes(t, step, c) == at' = [at EXCEPT ![t] = [step |-> step, controller |-> c]]
Returns(t) == at' = [at EXCEPT ![t] = Idle]
CanStart(t, c) == at[t].step = "idle" /\ t \notin users[c]

-----------------------------------------------------------------------------
(* Initialize, the part under the gate: the first user's modprobes (the    *)
(* driver may be loaded already), then the count.                          *)
InitializeModule(t, c) ==
  /\ peripheral # "uart"
  /\ CanStart(t, c)
  /\ moduleLoaded' = TRUE
  /\ kernel' = IF moduleLoaded THEN kernel ELSE Modules
  /\ Counts(t, c)
  /\ Goes(t, "waiting", c)
  /\ UNCHANGED <<peripheral, bound, shown, up, failed>>

(* A modprobe fails: RunChecked throws, nothing is counted, and the modules *)
(* loaded before it stay.                                                  *)
ModprobeFails(t, c, loaded) ==
  /\ peripheral # "uart"
  /\ CanStart(t, c)
  /\ ~moduleLoaded
  /\ kernel' = kernel \cup loaded
  /\ failed' = TRUE
  /\ UNCHANGED <<peripheral, users, moduleLoaded, bound, shown, up, at>>

(* SerialPort::Initialize: the first user binds a device that is unbound.  *)
Bind(t, c) ==
  /\ peripheral = "uart"
  /\ CanStart(t, c)
  /\ bound' = IF users[c] = {} THEN bound \cup {c} ELSE bound
  /\ Counts(t, c)
  /\ Goes(t, "waiting", c)
  /\ UNCHANGED <<peripheral, moduleLoaded, kernel, shown, up, failed>>

BindFails(t, c) ==
  /\ peripheral = "uart"
  /\ CanStart(t, c)
  /\ users[c] = {} /\ c \notin bound
  /\ failed' = TRUE
  /\ UNCHANGED <<peripheral, users, moduleLoaded, kernel, bound, shown, up, at>>

(* The kernel shows a controller's device a while after its driver came.   *)
HasDriver(c) == IF peripheral = "uart" THEN c \in bound ELSE Modules \subseteq kernel

Appears(c) ==
  /\ HasDriver(c)
  /\ c \notin shown
  /\ shown' = shown \cup {c}
  /\ UNCHANGED <<peripheral, users, moduleLoaded, kernel, bound, up, at, failed>>

(* WaitPath, TryGetChipId: the device is there, and CAN goes on to set up  *)
(* the link; or it is not there within 1 s and Initialize throws, counted. *)
DeviceFound(t) ==
  LET c == at[t].controller IN
  /\ at[t].step = "waiting"
  /\ c \in shown
  /\ IF peripheral = "can" THEN Goes(t, "down", c) ELSE Returns(t)
  /\ UNCHANGED <<peripheral, users, moduleLoaded, kernel, bound, shown, up, failed>>

WaitTimesOut(t) ==
  /\ at[t].step = "waiting"
  /\ at[t].controller \notin shown
  /\ Returns(t)
  /\ failed' = TRUE
  /\ UNCHANGED <<peripheral, users, moduleLoaded, kernel, bound, shown, up>>

(* ip link set down; type can bitrate (the kernel refuses it while the     *)
(* link is up); up.  Nothing guards the three against another thread's.    *)
LinkDown(t) ==
  /\ at[t].step = "down"
  /\ up' = up \ {at[t].controller}
  /\ Goes(t, "type", at[t].controller)
  /\ UNCHANGED <<peripheral, users, moduleLoaded, kernel, bound, shown, failed>>

LinkType(t) ==
  /\ at[t].step = "type"
  /\ at[t].controller \notin up
  /\ Goes(t, "up", at[t].controller)
  /\ UNCHANGED <<peripheral, users, moduleLoaded, kernel, bound, shown, up, failed>>

LinkUp(t) ==
  /\ at[t].step = "up"
  /\ at[t].controller \in shown
  /\ up' = up \cup {at[t].controller}
  /\ Returns(t)
  /\ UNCHANGED <<peripheral, users, moduleLoaded, kernel, bound, shown, failed>>

LinkFails(t) ==
  /\ at[t].step \in {"down", "type", "up"}
  /\ Returns(t)
  /\ failed' = TRUE
  /\ UNCHANGED <<peripheral, users, moduleLoaded, kernel, bound, shown, up>>

-----------------------------------------------------------------------------
(* UnInitialize, all of it under the gate, by a thread that is counted.    *)
(* The failures of its commands are ignored: left is what rmmod could not  *)
(* unload.                                                                 *)
Left(t, c) == [users EXCEPT ![c] = @ \ {t}]
Uncounts(t, c) ==
  /\ at[t].step = "idle"
  /\ t \in users[c]
  /\ users' = Left(t, c)

(* Mutant: this controller's count alone decides.                          *)
UnInitializeOwn(t, c, left, linkStays) ==
  /\ peripheral # "uart"
  /\ Uncounts(t, c)
  /\ linkStays => c \in up
  /\ LET last == users[c] = {t} IN
     /\ left = IF last THEN {} ELSE kernel
     /\ moduleLoaded' = (moduleLoaded /\ ~last)
     /\ kernel' = left
     /\ shown' = IF Modules \subseteq left THEN shown ELSE {}
     /\ up' = IF Modules \subseteq left THEN up ELSE {}
  /\ UNCHANGED <<peripheral, bound, at, failed>>

UnInitialize(t, c, left, linkStays) ==
  /\ peripheral # "uart"
  /\ Uncounts(t, c)
  /\ linkStays => c \in up
  /\ LET last == users[c] = {t}
         nobody == Nobody(Left(t, c)) /\ moduleLoaded
         linked == IF peripheral = "can" /\ last /\ ~linkStays THEN up \ {c} ELSE up
     IN /\ ~nobody => left = kernel
        /\ nobody => left \subseteq kernel
        /\ moduleLoaded' = (moduleLoaded /\ ~nobody)
        /\ kernel' = left
        /\ shown' = IF Modules \subseteq left THEN shown ELSE {}
        /\ up' = IF Modules \subseteq left THEN linked ELSE {}
        /\ failed' = (failed \/ (nobody /\ left # {}) \/ (last /\ linkStays))
  /\ UNCHANGED <<peripheral, bound, at>>

Unbind(t, c, fails) ==
  /\ peripheral = "uart"
  /\ Uncounts(t, c)
  /\ LET last == users[c] = {t} IN
     /\ fails => last
     /\ bound' = IF last /\ ~fails THEN bound \ {c} ELSE bound
     /\ shown' = IF last /\ ~fails THEN shown \ {c} ELSE shown
  /\ failed' = (failed \/ fails)
  /\ UNCHANGED <<peripheral, moduleLoaded, kernel, up, at>>

DriversNext ==
  \/ \E t \in Threads, c \in Controllers :
       \/ InitializeModule(t, c)
       \/ \E loaded \in SUBSET Modules : loaded # Modules /\ ModprobeFails(t, c, loaded)
       \/ Bind(t, c)
       \/ BindFails(t, c)
       \/ \E left \in SUBSET Modules, linkStays \in BOOLEAN :
            UnInitialize(t, c, left, linkStays)
       \/ \E fails \in BOOLEAN : Unbind(t, c, fails)
  \/ \E c \in Controllers : Appears(c)
  \/ \E t \in Threads : DeviceFound(t) \/ WaitTimesOut(t)
  \/ \E t \in Threads : LinkDown(t) \/ LinkType(t) \/ LinkUp(t) \/ LinkFails(t)

DriversSpec == DriversInit /\ [][DriversNext]_driverVars

-----------------------------------------------------------------------------
DriversTypeOK ==
  /\ peripheral \in Shapes
  /\ users \in [Controllers -> SUBSET Threads]
  /\ moduleLoaded \in BOOLEAN /\ failed \in BOOLEAN
  /\ kernel \subseteq Modules
  /\ bound \subseteq Controllers /\ shown \subseteq Controllers /\ up \subseteq Controllers
  /\ at \in [Threads -> [step : {"idle"} \cup Steps, controller : Controllers]]

(* While a controller is counted its driver stays: no other thread's       *)
(* UnInitialize, of this controller or of another one that shares the      *)
(* modules, takes it away, also while Initialize still waits for it.       *)
LoadedWhileUsed ==
  \A c \in Controllers : users[c] # {} => HasDriver(c)

(* "UnInitialize unloads the driver (ref-counted across controllers)"      *)
(* (EPN256.h:10): once everybody gave everything back nothing stays loaded *)
(* or bound and no CAN link is up, unless a command failed.  A device that *)
(* was bound before this program and was never used keeps its binding.     *)
UnusedIsUnloaded ==
  Nobody(users) /\ ~failed =>
    /\ ~moduleLoaded
    /\ kernel = {}
    /\ up = {}

(* A link that a thread initialized without an exception is up, as long as *)
(* nobody is setting it up and no command failed.                          *)
InitializedIsUp ==
  peripheral = "can" /\ ~failed =>
    \A c \in Controllers :
      users[c] # {} /\ (\A t \in users[c] : at[t].step = "idle" \/ at[t].controller # c)
        => c \in up

(* The driver is there as long as it is used, and no longer.                *)
DriverFollowsUse == LoadedWhileUsed /\ UnusedIsUnloaded /\ InitializedIsUp

=============================================================================

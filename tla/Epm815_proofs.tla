---------------------------- MODULE Epm815_proofs ----------------------------
(***************************************************************************)
(* Proofs about Epm815 for any ports, pins and threads: its types, that    *)
(* SerialPort's map agrees with the pins, that nothing stays half          *)
(* initialized, that a port which one thread uses keeps its pins, and that *)
(* its CAN link is up only on them.                                        *)
(***************************************************************************)
EXTENDS Epm815, TLAPS

Pcs == {"idle", "undo", "write", "check", "record", "erase", "down", "type", "up",
        "stop", "disconnect"}

Arguments == Speeds \cup Flows \cup {NotAsked}

ThreadType == [pc : Pcs, owner : Owners \cup {NotAsked}, argument : Arguments, made : BOOLEAN]

\* The places where a call can be are those of OwnersAt.
LEMMA PcsAreOwnersAt == DOMAIN OwnersAt = Pcs
BY DEF OwnersAt, Pcs

\* The types of the threads, without OwnersAt's domain.
LEMMA ThreadTypes == TypeOK => thread \in [Threads -> ThreadType]
BY PcsAreOwnersAt DEF TypeOK, ThreadType, Arguments

\* The owners of one kind are owners, and no kind shares one with another.
LEMMA Kinds ==
  /\ I2cBuses \subseteq Owners /\ PlainBuses \subseteq Owners
  /\ UartPorts \subseteq Owners /\ CanPorts \subseteq Owners
  /\ I2cBuses \cap UartPorts = {} /\ CanPorts \cap UartPorts = {} /\ PlainBuses \cap UartPorts = {}
  /\ I2cBuses \cap CanPorts = {} /\ I2cBuses \cap PlainBuses = {} /\ PlainBuses \cap CanPorts = {}
BY OwnersAssumption DEF Owners

\* A thread's record, changed at its place only, has the type.
LEMMA GoesTypes ==
  ASSUME NEW t \in Threads, NEW pc \in Pcs, thread \in [Threads -> ThreadType], Goes(t, pc)
  PROVE  thread' \in [Threads -> ThreadType]
BY DEF Goes, ThreadType

\* A call that is over leaves its thread idle.
LEMMA ReturnsTypes ==
  ASSUME NEW t \in Threads, thread \in [Threads -> ThreadType], Returns(t)
  PROVE  thread' \in [Threads -> ThreadType]
<1>1. Idle \in ThreadType
  BY DEF Idle, ThreadType, Pcs, Arguments
<1> QED BY <1>1 DEF Returns

\* A call is where its kind of port can be.
PlacesOK == \A t \in Threads : thread[t].owner \in OwnersAt[thread[t].pc]

\* Everything of TypeOK that is not about threads.
RestOK ==
  /\ pins \in [Owners -> SUBSET Pins]
  /\ speed \in [I2cBuses -> Nat]
  /\ flowControl \in [UartPorts -> Flows \cup {NotAsked}]
  /\ running \subseteq CanPorts
  /\ gate \in Threads \cup {Free}
  /\ asked \in [Owners -> Arguments]
  /\ cut \subseteq CanPorts

\* TypeOK in the parts that the steps change apart from each other.
LEMMA Parts == TypeOK <=> RestOK /\ thread \in [Threads -> ThreadType] /\ PlacesOK
BY PcsAreOwnersAt DEF TypeOK, RestOK, PlacesOK, ThreadType, Arguments

\* The kinds of owners at each place.
LEMMA Places ==
  /\ OwnersAt["idle"] = {NotAsked}
  /\ OwnersAt["undo"] = I2cBuses \cup CanPorts
  /\ OwnersAt["write"] = I2cBuses /\ OwnersAt["check"] = I2cBuses
  /\ OwnersAt["record"] = UartPorts /\ OwnersAt["erase"] = UartPorts
  /\ OwnersAt["down"] = CanPorts /\ OwnersAt["type"] = CanPorts /\ OwnersAt["up"] = CanPorts
  /\ OwnersAt["stop"] = CanPorts /\ OwnersAt["disconnect"] = CanPorts
BY DEF OwnersAt

\* No port is initialized and no call is under way at first.
LEMMA InitType == Init => TypeOK
<1> SUFFICES ASSUME Init PROVE TypeOK
  OBVIOUS
<1>1. RestOK
  BY SpeedsAssumption DEF Init, RestOK, Arguments
<1>2. thread \in [Threads -> ThreadType]
  BY DEF Init, Idle, ThreadType, Pcs, Arguments
<1>3. PlacesOK
  BY Places DEF Init, Idle, PlacesOK
<1> QED BY <1>1, <1>2, <1>3, Parts

\* One thread changes its place, the others stay.
LEMMA PlacesStep ==
  ASSUME NEW t \in Threads, NEW record, record.owner \in OwnersAt[record.pc],
         PlacesOK, thread \in [Threads -> ThreadType], thread' = [thread EXCEPT ![t] = record]
  PROVE  PlacesOK'
BY DEF PlacesOK

\* A call that goes on stays with its port.
LEMMA GoesPlaces ==
  ASSUME NEW t \in Threads, NEW pc \in Pcs, thread[t].owner \in OwnersAt[pc],
         PlacesOK, thread \in [Threads -> ThreadType], Goes(t, pc)
  PROVE  PlacesOK'
BY DEF PlacesOK, Goes, ThreadType

\* A call that is over is nowhere.
LEMMA ReturnsPlaces ==
  ASSUME NEW t \in Threads, PlacesOK, thread \in [Threads -> ThreadType], Returns(t)
  PROVE  PlacesOK'
<1>1. Idle.owner \in OwnersAt[Idle.pc]
  BY Places DEF Idle
<1> QED BY <1>1 DEF Returns, PlacesOK

\* Connecting keeps the types: of the pins, of what was asked, of the thread.
LEMMA ConnectTypes ==
  ASSUME TypeOK, NEW t \in Threads, NEW o \in Owners, NEW list \in SUBSET Pins,
         NEW argument \in Arguments, NEW pc \in Pcs, o \in OwnersAt[pc],
         ConnectTo(t, o, list, argument, pc)
  PROVE  /\ pins' \in [Owners -> SUBSET Pins]
         /\ asked' \in [Owners -> Arguments]
         /\ thread' \in [Threads -> ThreadType]
         /\ PlacesOK'
<1>1. RestOK /\ thread \in [Threads -> ThreadType] /\ PlacesOK
  BY Parts
<1> PICK record : record = [pc |-> pc, owner |-> o, argument |-> argument, made |-> pins[o] = {}]
  OBVIOUS
<1>2. record \in ThreadType /\ record.owner \in OwnersAt[record.pc]
  BY DEF ThreadType
<1>3. thread' = [thread EXCEPT ![t] = record]
  BY DEF ConnectTo
<1>4. thread' \in [Threads -> ThreadType] /\ PlacesOK'
  BY <1>1, <1>2, <1>3, PlacesStep
<1>5. pins' \in [Owners -> SUBSET Pins] /\ asked' \in [Owners -> Arguments]
  BY <1>1 DEF ConnectTo, RestOK, Arguments
<1> QED BY <1>4, <1>5

\* UnInitialize keeps the types.
LEMMA DisconnectTypes ==
  ASSUME TypeOK, NEW o \in Owners, Disconnect(o)
  PROVE  pins' \in [Owners -> SUBSET Pins] /\ asked' \in [Owners -> Arguments]
BY Parts DEF Disconnect, RestOK, Arguments

\* A success keeps the types.
LEMMA SucceedsTypes ==
  ASSUME TypeOK, NEW t \in Threads, Succeeds(t)
  PROVE  asked' \in [Owners -> Arguments] /\ thread' \in [Threads -> ThreadType] /\ PlacesOK'
<1>1. RestOK /\ thread \in [Threads -> ThreadType] /\ PlacesOK
  BY Parts
<1>2. asked' \in [Owners -> Arguments]
  BY <1>1 DEF Succeeds, RestOK, ThreadType
<1> QED BY <1>1, <1>2, ReturnsTypes, ReturnsPlaces DEF Succeeds

\* What a call inside a port was asked for: a frequency, or flow control or not.
ArgumentsOK ==
  \A t \in Threads :
    /\ thread[t].pc \in {"write", "check"} => thread[t].argument \in Speeds
    /\ thread[t].pc \in {"record", "down", "type", "up"} => thread[t].argument \in Flows

\* One thread changes, the others keep their arguments.
LEMMA ArgumentsStep ==
  ASSUME NEW t \in Threads, NEW record, ArgumentsOK, thread \in [Threads -> ThreadType],
         thread' = [thread EXCEPT ![t] = record],
         record.pc \in {"write", "check"} => record.argument \in Speeds,
         record.pc \in {"record", "down", "type", "up"} => record.argument \in Flows
  PROVE  ArgumentsOK'
BY DEF ArgumentsOK

\* A call that is over asks for nothing.
LEMMA ArgumentsReturn ==
  ASSUME NEW t \in Threads, ArgumentsOK, thread \in [Threads -> ThreadType], Returns(t)
  PROVE  ArgumentsOK'
<1>1. Idle.pc = "idle"
  BY DEF Idle
<1> QED BY <1>1, ArgumentsStep DEF Returns

\* A connection's call has what its port was asked for.
LEMMA ArgumentsConnect ==
  ASSUME NEW t \in Threads, NEW o, NEW list, NEW argument, NEW pc, ArgumentsOK,
         thread \in [Threads -> ThreadType], ConnectTo(t, o, list, argument, pc),
         pc \in {"write", "check"} => argument \in Speeds,
         pc \in {"record", "down", "type", "up"} => argument \in Flows
  PROVE  ArgumentsOK'
BY ArgumentsStep DEF ConnectTo

\* Every step keeps the arguments.
LEMMA NextArguments == TypeOK /\ ArgumentsOK /\ [Next]_vars => ArgumentsOK'
<1> SUFFICES ASSUME TypeOK, ArgumentsOK, [Next]_vars PROVE ArgumentsOK'
  OBVIOUS
<1>0. thread \in [Threads -> ThreadType] /\ PlacesOK
  BY Parts
<1>1. ASSUME NEW t \in Threads, NEW b \in I2cBuses, NEW f \in Speeds, I2cConnects(t, b, f)
      PROVE ArgumentsOK'
  BY <1>0, <1>1, ArgumentsConnect DEF I2cConnects
<1>2. ASSUME NEW t \in Threads, I2cWrites(t)
      PROVE ArgumentsOK'
  BY <1>0, <1>2 DEF I2cWrites, Goes, ArgumentsOK, ThreadType
<1>3. ASSUME NEW t \in Threads, NEW pc \in {"undo", "disconnect"}, Goes(t, pc)
      PROVE ArgumentsOK'
  BY <1>0, <1>3 DEF Goes, ArgumentsOK, ThreadType
<1>4. ASSUME NEW t \in Threads, Returns(t)
      PROVE ArgumentsOK'
  BY <1>0, <1>4, ArgumentsReturn
<1>5. ASSUME UNCHANGED thread
      PROVE ArgumentsOK'
  BY <1>5 DEF ArgumentsOK
<1>6. ASSUME NEW t \in Threads, NEW u \in UartPorts, NEW flow \in Flows, SerialConnects(t, u, flow)
      PROVE ArgumentsOK'
  BY <1>0, <1>6, ArgumentsConnect DEF SerialConnects
<1>7. ASSUME NEW t \in Threads, NEW o, NEW pc \in {"erase", "stop"},
             thread' = [thread EXCEPT ![t] =
               [pc |-> pc, owner |-> o, argument |-> NotAsked, made |-> FALSE]]
      PROVE ArgumentsOK'
  <2> PICK record : record = [pc |-> pc, owner |-> o, argument |-> NotAsked, made |-> FALSE]
    OBVIOUS
  <2> QED BY <1>0, <1>7, ArgumentsStep
<1>8. ASSUME NEW t \in Threads, NEW c \in CanPorts, CanConnects(t, c)
      PROVE ArgumentsOK'
  BY <1>0, <1>8, ArgumentsConnect DEF CanConnects, Flows
<1>9. ASSUME NEW t \in Threads, CommandDone(t)
      PROVE ArgumentsOK'
  <2>1. NextCommand["down"] = "type" /\ NextCommand["type"] = "up"
    BY DEF NextCommand
  <2>2. CASE thread[t].pc = "down"
    BY <1>0, <1>9, <2>1, <2>2 DEF CommandDone, Goes, ArgumentsOK, ThreadType
  <2>3. CASE thread[t].pc = "type"
    BY <1>0, <1>9, <2>1, <2>3 DEF CommandDone, Goes, ArgumentsOK, ThreadType
  <2>4. CASE thread[t].pc = "up"
    BY <1>4, <1>9, <2>4 DEF CommandDone, Succeeds
  <2>5. CASE thread[t].pc = "stop"
    BY <1>3, <1>9, <2>5 DEF CommandDone
  <2> QED BY <1>9, <2>2, <2>3, <2>4, <2>5 DEF CommandDone
<1>10. ASSUME NEW t \in Threads,
              I2cWriteFails(t) \/ I2cChecks(t) \/ Undo(t) \/ SerialRecords(t) \/ SerialErases(t)
              \/ CommandFails(t) \/ CommandCut(t) \/ CanDisconnects(t)
       PROVE ArgumentsOK'
  <2>1. Goes(t, "undo") \/ Returns(t)
    BY <1>10 DEF I2cWriteFails, I2cChecks, Undo, SerialRecords, SerialErases, CommandFails,
                 CommandCut, CanDisconnects, Succeeds
  <2> QED BY <1>3, <1>4, <2>1
<1>11. ASSUME NEW t \in Threads, NEW o \in Owners, UnInitialize(t, o) \/ PlainInitialize(t, o)
       PROVE ArgumentsOK'
  BY <1>5, <1>11 DEF UnInitialize, PlainInitialize
<1>12. ASSUME NEW t \in Threads, NEW u \in UartPorts, SerialDisconnects(t, u)
       PROVE ArgumentsOK'
  BY <1>7, <1>12 DEF SerialDisconnects
<1>13. ASSUME NEW t \in Threads, NEW c \in CanPorts, CanStops(t, c)
       PROVE ArgumentsOK'
  BY <1>7, <1>13 DEF CanStops
<1>14. CASE UNCHANGED vars
  BY <1>5, <1>14 DEF vars
<1> QED BY <1>1, <1>2, <1>6, <1>8, <1>9, <1>10, <1>11, <1>12, <1>13, <1>14
        DEF Next, I2cNext, SerialNext, CanNext

\* Every step keeps the types: no error path and no interleaving leaves a port,
\* a file or a call with a value of another kind.
LEMMA NextType == TypeOK /\ ArgumentsOK /\ [Next]_vars => TypeOK'
<1> SUFFICES ASSUME TypeOK, ArgumentsOK, [Next]_vars PROVE TypeOK'
  OBVIOUS
<1>0. RestOK /\ thread \in [Threads -> ThreadType] /\ PlacesOK
  BY Parts
<1> SUFFICES RestOK' /\ thread' \in [Threads -> ThreadType] /\ PlacesOK'
  <2>1. (TypeOK <=> RestOK /\ thread \in [Threads -> ThreadType] /\ PlacesOK)'
    BY Parts, PTL
  <2> QED BY <2>1
<1>1. ASSUME NEW t \in Threads, NEW b \in I2cBuses, NEW f \in Speeds, I2cConnects(t, b, f)
      PROVE RestOK' /\ thread' \in [Threads -> ThreadType] /\ PlacesOK'
  <2>1. b \in Owners /\ PinsOf[b] \in SUBSET Pins /\ b \in OwnersAt["write"]
    BY OwnersAssumption, Kinds, Places
  <2>2. f \in Arguments /\ "write" \in Pcs
    BY DEF Arguments, Pcs
  <2> QED BY <1>0, <1>1, <2>1, <2>2, ConnectTypes DEF I2cConnects, RestOK
<1>2. ASSUME NEW t \in Threads, I2cWrites(t)
      PROVE RestOK' /\ thread' \in [Threads -> ThreadType] /\ PlacesOK'
  <2>1. thread[t] \in ThreadType /\ thread[t].owner \in I2cBuses
    BY <1>0, <1>2, Places DEF I2cWrites, PlacesOK
  <2>2. thread[t].owner \in OwnersAt["check"] /\ "check" \in Pcs
    BY <2>1, Places DEF Pcs
  <2>3. speed' \in [I2cBuses -> Nat]
    <3>1. Reachable[thread[t].owner] \in Nat /\ thread[t].argument \in Nat
      BY <1>2, <2>1, SpeedsAssumption DEF I2cWrites, ArgumentsOK
    <3> QED BY <1>0, <1>2, <2>1, <3>1 DEF I2cWrites, RestOK
  <2> QED BY <1>0, <1>2, <2>2, <2>3, GoesTypes, GoesPlaces DEF I2cWrites, RestOK
<1>3. ASSUME NEW t \in Threads, I2cWriteFails(t)
      PROVE RestOK' /\ thread' \in [Threads -> ThreadType] /\ PlacesOK'
  <2>1. thread[t].owner \in OwnersAt["undo"] /\ "undo" \in Pcs
    BY <1>0, <1>3, Places DEF I2cWriteFails, PlacesOK, Pcs
  <2> QED BY <1>0, <1>3, <2>1, GoesTypes, GoesPlaces DEF I2cWriteFails, RestOK
<1>4. ASSUME NEW t \in Threads, I2cChecks(t)
      PROVE RestOK' /\ thread' \in [Threads -> ThreadType] /\ PlacesOK'
  <2>1. thread[t].owner \in OwnersAt["undo"] /\ "undo" \in Pcs
    BY <1>0, <1>4, Places DEF I2cChecks, PlacesOK, Pcs
  <2>2. CASE Succeeds(t)
    BY <1>0, <1>4, <2>2, SucceedsTypes DEF I2cChecks, RestOK
  <2>3. CASE Goes(t, "undo") /\ UNCHANGED asked
    BY <1>0, <1>4, <2>1, <2>3, GoesTypes, GoesPlaces DEF I2cChecks, RestOK
  <2> QED BY <1>4, <2>2, <2>3 DEF I2cChecks
<1>5. ASSUME NEW t \in Threads, NEW o \in Owners, UnInitialize(t, o)
      PROVE RestOK' /\ thread' \in [Threads -> ThreadType] /\ PlacesOK'
  BY <1>0, <1>5, DisconnectTypes DEF UnInitialize, RestOK, PlacesOK
<1>6. ASSUME NEW t \in Threads, NEW o \in Owners, PlainInitialize(t, o)
      PROVE RestOK' /\ thread' \in [Threads -> ThreadType] /\ PlacesOK'
  <2>1. PinsOf[o] \in SUBSET Pins /\ With \in Arguments
    BY OwnersAssumption DEF Arguments, Flows
  <2> QED BY <1>0, <1>6, <2>1 DEF PlainInitialize, RestOK, PlacesOK
<1>7. ASSUME NEW t \in Threads, NEW u \in UartPorts, NEW flow \in Flows, SerialConnects(t, u, flow)
      PROVE RestOK' /\ thread' \in [Threads -> ThreadType] /\ PlacesOK'
  <2> PICK list : list = PinsOf[u] \cup (IF flow = With THEN FlowPins[u] ELSE {})
    OBVIOUS
  <2>1. u \in Owners /\ list \in SUBSET Pins /\ u \in OwnersAt["record"]
    BY OwnersAssumption, Kinds, Places
  <2>2. flow \in Arguments /\ "record" \in Pcs
    BY DEF Arguments, Pcs
  <2>3. ConnectTo(t, u, list, flow, "record")
    BY <1>7 DEF SerialConnects
  <2> QED BY <1>0, <1>7, <2>1, <2>2, <2>3, ConnectTypes DEF SerialConnects, RestOK
<1>8. ASSUME NEW t \in Threads, SerialRecords(t)
      PROVE RestOK' /\ thread' \in [Threads -> ThreadType] /\ PlacesOK'
  <2>1. Succeeds(t) /\ thread[t].owner \in UartPorts
    BY <1>0, <1>8, Places DEF SerialRecords, PlacesOK
  <2>2. asked' \in [Owners -> Arguments] /\ thread' \in [Threads -> ThreadType] /\ PlacesOK'
    BY <2>1, SucceedsTypes
  <2>3. flowControl' \in [UartPorts -> Flows \cup {NotAsked}]
    <3>1. thread[t].argument \in Flows
      BY <1>8 DEF SerialRecords, ArgumentsOK
    <3> QED BY <1>0, <1>8, <3>1 DEF SerialRecords, RestOK
  <2> QED BY <1>0, <1>8, <2>2, <2>3 DEF SerialRecords, RestOK
<1>9. ASSUME NEW t \in Threads, NEW u \in UartPorts, SerialDisconnects(t, u)
      PROVE RestOK' /\ thread' \in [Threads -> ThreadType] /\ PlacesOK'
  <2> PICK record : record = [pc |-> "erase", owner |-> u, argument |-> NotAsked, made |-> FALSE]
    OBVIOUS
  <2>1. record \in ThreadType /\ record.owner \in OwnersAt[record.pc]
    BY Kinds, Places DEF ThreadType, Pcs, Arguments
  <2>2. thread' = [thread EXCEPT ![t] = record]
    BY <1>9 DEF SerialDisconnects
  <2>3. thread' \in [Threads -> ThreadType] /\ PlacesOK'
    BY <1>0, <2>1, <2>2, PlacesStep
  <2> QED BY <1>0, <1>9, <2>3, Kinds, DisconnectTypes DEF SerialDisconnects, RestOK
<1>10. ASSUME NEW t \in Threads, SerialErases(t)
       PROVE RestOK' /\ thread' \in [Threads -> ThreadType] /\ PlacesOK'
  BY <1>0, <1>10, ReturnsTypes, ReturnsPlaces DEF SerialErases, RestOK
<1>11. ASSUME NEW t \in Threads, NEW c \in CanPorts, CanConnects(t, c)
       PROVE RestOK' /\ thread' \in [Threads -> ThreadType] /\ PlacesOK'
  <2>1. c \in Owners /\ PinsOf[c] \in SUBSET Pins /\ c \in OwnersAt["down"]
    BY OwnersAssumption, Kinds, Places
  <2>2. With \in Arguments /\ "down" \in Pcs
    BY DEF Arguments, Flows, Pcs
  <2> QED BY <1>0, <1>11, <2>1, <2>2, ConnectTypes DEF CanConnects, RestOK
<1>12. ASSUME NEW t \in Threads, NEW c \in CanPorts, CanStops(t, c)
       PROVE RestOK' /\ thread' \in [Threads -> ThreadType] /\ PlacesOK'
  <2> PICK record : record = [pc |-> "stop", owner |-> c, argument |-> NotAsked, made |-> FALSE]
    OBVIOUS
  <2>1. record \in ThreadType /\ record.owner \in OwnersAt[record.pc]
    BY Kinds, Places DEF ThreadType, Pcs, Arguments
  <2>2. thread' = [thread EXCEPT ![t] = record]
    BY <1>12 DEF CanStops
  <2>3. thread' \in [Threads -> ThreadType] /\ PlacesOK'
    BY <1>0, <2>1, <2>2, PlacesStep
  <2> QED BY <1>0, <1>12, <2>3 DEF CanStops, RestOK
<1>13. ASSUME NEW t \in Threads, CommandDone(t)
       PROVE RestOK' /\ thread' \in [Threads -> ThreadType] /\ PlacesOK'
  <2>1. thread[t].pc \in {"down", "type", "up", "stop"} /\ thread[t].owner \in CanPorts
    BY <1>0, <1>13, Places DEF CommandDone, PlacesOK
  <2>2. running' \subseteq CanPorts
    BY <1>0, <1>13, <2>1 DEF CommandDone, After, RestOK
  <2>3. cut' \subseteq CanPorts
    BY <1>0, <1>13 DEF CommandDone, RestOK
  <2>4. pins' = pins /\ speed' = speed /\ flowControl' = flowControl /\ gate' = gate
    BY <1>13 DEF CommandDone
  <2>5. \/ Succeeds(t)
        \/ Goes(t, "type") /\ asked' = asked
        \/ Goes(t, "up") /\ asked' = asked
        \/ Goes(t, "disconnect") /\ asked' = asked
    <3>1. NextCommand["down"] = "type" /\ NextCommand["type"] = "up"
      BY DEF NextCommand
    <3>2. CASE thread[t].pc = "down"
      BY <1>13, <3>1, <3>2 DEF CommandDone
    <3>3. CASE thread[t].pc = "type"
      BY <1>13, <3>1, <3>3 DEF CommandDone
    <3>4. CASE thread[t].pc = "up"
      BY <1>13, <3>4 DEF CommandDone
    <3>5. CASE thread[t].pc = "stop"
      BY <1>13, <3>5 DEF CommandDone
    <3> QED BY <2>1, <3>2, <3>3, <3>4, <3>5
  <2>6. \A pc \in {"type", "up", "disconnect"} : pc \in Pcs /\ thread[t].owner \in OwnersAt[pc]
    BY <2>1, Places DEF Pcs
  <2>7. asked' \in [Owners -> Arguments] /\ thread' \in [Threads -> ThreadType] /\ PlacesOK'
    <3>1. CASE Succeeds(t)
      BY <3>1, SucceedsTypes
    <3>2. ASSUME NEW pc \in {"type", "up", "disconnect"}, Goes(t, pc) /\ asked' = asked
          PROVE asked' \in [Owners -> Arguments] /\ thread' \in [Threads -> ThreadType] /\ PlacesOK'
      BY <1>0, <2>6, <3>2, GoesTypes, GoesPlaces DEF RestOK
    <3> QED BY <2>5, <3>1, <3>2
  <2> QED BY <1>0, <2>2, <2>3, <2>4, <2>7 DEF RestOK
<1>14. ASSUME NEW t \in Threads, CommandFails(t)
       PROVE RestOK' /\ thread' \in [Threads -> ThreadType] /\ PlacesOK'
  <2>1. thread[t].owner \in OwnersAt["undo"] /\ "undo" \in Pcs
    BY <1>0, <1>14, Places DEF CommandFails, PlacesOK, Pcs
  <2>2. CASE Returns(t)
    BY <1>0, <1>14, <2>2, ReturnsTypes, ReturnsPlaces DEF CommandFails, RestOK
  <2>3. CASE Goes(t, "undo")
    BY <1>0, <1>14, <2>1, <2>3, GoesTypes, GoesPlaces DEF CommandFails, RestOK
  <2> QED BY <1>14, <2>2, <2>3 DEF CommandFails
<1>15. ASSUME NEW t \in Threads, CommandCut(t)
       PROVE RestOK' /\ thread' \in [Threads -> ThreadType] /\ PlacesOK'
  <2>1. thread[t].pc \in {"down", "up", "stop"} /\ thread[t].owner \in CanPorts
    BY <1>0, <1>15, Places DEF CommandCut, PlacesOK
  <2>2. running' \subseteq CanPorts /\ cut' \subseteq CanPorts
    BY <1>0, <1>15, <2>1 DEF CommandCut, After, RestOK
  <2>3. pins' = pins /\ asked' = asked /\ speed' = speed /\ flowControl' = flowControl /\ gate' = gate
    BY <1>15 DEF CommandCut
  <2>4. RestOK'
    BY <1>0, <2>2, <2>3 DEF RestOK
  <2>5. thread[t].owner \in OwnersAt["undo"] /\ "undo" \in Pcs
    BY <2>1, Places DEF Pcs
  <2>6. Returns(t) \/ Goes(t, "undo")
    BY <1>15 DEF CommandCut
  <2> QED BY <1>0, <2>4, <2>5, <2>6, ReturnsTypes, ReturnsPlaces, GoesTypes, GoesPlaces
<1>16. ASSUME NEW t \in Threads, CanDisconnects(t)
       PROVE RestOK' /\ thread' \in [Threads -> ThreadType] /\ PlacesOK'
  <2>1. thread[t].owner \in Owners
    BY <1>0, <1>16, Places, Kinds DEF CanDisconnects, PlacesOK
  <2> QED BY <1>0, <1>16, <2>1, DisconnectTypes, ReturnsTypes, ReturnsPlaces DEF CanDisconnects, RestOK
<1>17. ASSUME NEW t \in Threads, Undo(t)
       PROVE RestOK' /\ thread' \in [Threads -> ThreadType] /\ PlacesOK'
  BY <1>0, <1>17, ReturnsTypes, ReturnsPlaces DEF Undo, RestOK
<1>18. CASE UNCHANGED vars
  BY <1>0, <1>18 DEF vars, RestOK, PlacesOK
<1> QED BY <1>1, <1>2, <1>3, <1>4, <1>5, <1>6, <1>7, <1>8, <1>9, <1>10, <1>11, <1>12,
           <1>13, <1>14, <1>15, <1>16, <1>17, <1>18 DEF Next, I2cNext, SerialNext, CanNext

\* Type correctness, for any ports, pins, speeds and threads.
THEOREM TypeCorrect == Spec => []TypeOK
<1>1. Init => ArgumentsOK
  BY DEF Init, Idle, ArgumentsOK
<1> QED BY <1>1, InitType, NextType, NextArguments, PTL DEF Spec

-----------------------------------------------------------------------------
\* The places inside SerialPort's gate
Gated == {"record", "erase"}

\* The pins that an entry of flowControl stands for
PinsFor(u, flow) ==
  IF flow = With THEN PinsOf[u] \cup FlowPins[u]
  ELSE IF flow = Without THEN PinsOf[u] ELSE {}

\* The marks of flow control are three.
LEMMA FlowNames == NotAsked # With /\ NotAsked # Without /\ With # Without
BY NamesAssumption DEF With, Without

At(t, u) == thread[t].owner = u /\ thread[t].pc \in Gated

\* The call that has the gate has changed u's pins and not its entry yet.
Pending(t, u) ==
  IF thread[t].pc = "record"
  THEN flowControl[u] = NotAsked /\ pins[u] = PinsFor(u, thread[t].argument)
  ELSE pins[u] = {}

GateOK == \A t \in Threads : gate = t <=> thread[t].pc \in Gated

FlowOK == \A u \in UartPorts :
  /\ \A t \in Threads : At(t, u) => Pending(t, u)
  /\ (\A t \in Threads : ~At(t, u)) => pins[u] = PinsFor(u, flowControl[u])

SerialOK == GateOK /\ FlowOK

\* A step outside SerialPort leaves its ports and the gate alone.
LEMMA SerialFrame ==
  ASSUME NEW t \in Threads, SerialOK,
         \A s \in Threads \ {t} : thread'[s] = thread[s],
         thread[t].pc \notin Gated, thread'[t].pc \notin Gated,
         gate' = gate, flowControl' = flowControl,
         \A u \in UartPorts : pins'[u] = pins[u]
  PROVE  SerialOK'
<1>1. GateOK'
  BY DEF SerialOK, GateOK
<1>2. ASSUME NEW u \in UartPorts, NEW s \in Threads
      PROVE (At(s, u)' <=> At(s, u)) /\ (At(s, u) /\ Pending(s, u) => Pending(s, u)')
  BY <1>2 DEF At, Pending, PinsFor
<1>3. \A u \in UartPorts : PinsFor(u, flowControl[u])' = PinsFor(u, flowControl[u])
  BY DEF PinsFor
<1>4. FlowOK'
  BY <1>2, <1>3 DEF SerialOK, FlowOK
<1> QED BY <1>1, <1>4 DEF SerialOK

\* A step of a call inside a bus or a CAN port is outside SerialPort.
LEMMA SerialAway ==
  ASSUME TypeOK, NEW t \in Threads, SerialOK, thread[t].pc \notin Gated,
         Returns(t) \/ \E pc \in Pcs \ Gated : Goes(t, pc),
         gate' = gate, flowControl' = flowControl,
         \A u \in UartPorts : pins'[u] = pins[u]
  PROVE  SerialOK'
<1>0. thread \in [Threads -> ThreadType] /\ Idle.pc = "idle"
  BY Parts DEF Idle
<1>1. thread'[t].pc \notin Gated /\ \A s \in Threads \ {t} : thread'[s] = thread[s]
  BY <1>0 DEF Returns, Goes, ThreadType, Gated
<1> QED BY <1>1, SerialFrame

\* Every step keeps the gate and the ports in agreement.
LEMMA NextSerial == TypeOK /\ ArgumentsOK /\ SerialOK /\ [Next]_vars => SerialOK'
<1> SUFFICES ASSUME TypeOK, ArgumentsOK, SerialOK, [Next]_vars PROVE SerialOK'
  OBVIOUS
<1>0. RestOK /\ thread \in [Threads -> ThreadType] /\ PlacesOK /\ Idle.pc = "idle"
  BY Parts DEF Idle
<1>1. ASSUME NEW t \in Threads, NEW o \in Owners \ UartPorts, NEW list, NEW argument,
             NEW pc \in Pcs \ Gated, thread[t] = Idle, ConnectTo(t, o, list, argument, pc),
             UNCHANGED <<gate, flowControl>>
      PROVE SerialOK'
  <2>1. thread'[t].pc \notin Gated /\ \A s \in Threads \ {t} : thread'[s] = thread[s]
    BY <1>0, <1>1 DEF ConnectTo
  <2>2. \A u \in UartPorts : pins'[u] = pins[u]
    BY <1>0, <1>1, Kinds DEF ConnectTo, RestOK
  <2> QED BY <1>0, <1>1, <2>1, <2>2, SerialFrame DEF Gated
<1>2. ASSUME NEW t \in Threads, NEW b \in I2cBuses, NEW f \in Speeds, I2cConnects(t, b, f)
      PROVE SerialOK'
  BY <1>1, <1>2, Kinds DEF I2cConnects, Calls, Pcs, Gated
<1>3. ASSUME NEW t \in Threads, NEW c \in CanPorts, CanConnects(t, c)
      PROVE SerialOK'
  BY <1>1, <1>3, Kinds DEF CanConnects, Calls, Pcs, Gated
<1>4. ASSUME NEW t \in Threads, I2cWrites(t) \/ I2cWriteFails(t) \/ I2cChecks(t)
      PROVE SerialOK'
  <2>1. thread[t].pc \notin Gated /\ UNCHANGED <<pins, gate, flowControl>>
    BY <1>4 DEF I2cWrites, I2cWriteFails, I2cChecks, Gated
  <2>2. Returns(t) \/ \E pc \in Pcs \ Gated : Goes(t, pc)
    BY <1>4 DEF I2cWrites, I2cWriteFails, I2cChecks, Succeeds, Pcs, Gated
  <2> QED BY <2>1, <2>2, SerialAway
<1>5. ASSUME NEW t \in Threads, CommandDone(t) \/ CommandFails(t) \/ CommandCut(t)
      PROVE SerialOK'
  <2>1. thread[t].pc \in {"down", "type", "up", "stop"} /\ UNCHANGED <<pins, gate, flowControl>>
    BY <1>5 DEF CommandDone, CommandFails, CommandCut
  <2>2. Returns(t) \/ \E pc \in Pcs \ Gated : Goes(t, pc)
    <3>1. CASE CommandDone(t)
      <4>1. NextCommand["down"] = "type" /\ NextCommand["type"] = "up"
        BY DEF NextCommand
      <4>2. CASE thread[t].pc = "down"
        BY <3>1, <4>1, <4>2 DEF CommandDone, Pcs, Gated
      <4>3. CASE thread[t].pc = "type"
        BY <3>1, <4>1, <4>3 DEF CommandDone, Pcs, Gated
      <4>4. CASE thread[t].pc = "up"
        BY <3>1, <4>4 DEF CommandDone, Succeeds
      <4>5. CASE thread[t].pc = "stop"
        BY <3>1, <4>5 DEF CommandDone, Pcs, Gated
      <4> QED BY <2>1, <4>2, <4>3, <4>4, <4>5
    <3>2. CASE CommandFails(t) \/ CommandCut(t)
      BY <3>2 DEF CommandFails, CommandCut, Pcs, Gated
    <3> QED BY <1>5, <3>1, <3>2
  <2> QED BY <2>1, <2>2, SerialAway DEF Gated
<1>6. ASSUME NEW t \in Threads, Undo(t) \/ CanDisconnects(t)
      PROVE SerialOK'
  <2>1. thread[t].pc \in {"undo", "disconnect"} /\ Returns(t) /\ UNCHANGED <<gate, flowControl>>
    BY <1>6 DEF Undo, CanDisconnects
  <2>2. thread[t].owner \in I2cBuses \cup CanPorts
    BY <1>0, <2>1, Places DEF PlacesOK
  <2>3. \A u \in UartPorts : pins'[u] = pins[u]
    BY <1>0, <1>6, <2>2, Kinds DEF Undo, CanDisconnects, Disconnect, RestOK
  <2> QED BY <2>1, <2>3, SerialAway DEF Gated
<1>7. ASSUME NEW t \in Threads, NEW c \in CanPorts, CanStops(t, c)
      PROVE SerialOK'
  <2>1. thread[t] = Idle /\ UNCHANGED <<pins, gate, flowControl>> /\ thread'[t].pc = "stop"
        /\ \A s \in Threads \ {t} : thread'[s] = thread[s]
    BY <1>0, <1>7 DEF CanStops, Calls
  <2> QED BY <1>0, <2>1, SerialFrame DEF Gated
<1>8. ASSUME NEW t \in Threads, NEW o \in Owners, UnInitialize(t, o) \/ PlainInitialize(t, o)
      PROVE SerialOK'
  <2>1. thread[t] = Idle /\ UNCHANGED <<thread, gate, flowControl>>
    BY <1>8 DEF UnInitialize, PlainInitialize, Calls
  <2>2. \A u \in UartPorts : pins'[u] = pins[u]
    BY <1>0, <1>8, Kinds DEF UnInitialize, PlainInitialize, Disconnect, RestOK
  <2> QED BY <1>0, <2>1, <2>2, SerialFrame DEF Gated
<1>9. ASSUME NEW t \in Threads, NEW u \in UartPorts, NEW flow \in Flows, SerialConnects(t, u, flow)
      PROVE SerialOK'
  <2> PICK list : list = PinsOf[u] \cup (IF flow = With THEN FlowPins[u] ELSE {})
    OBVIOUS
  <2>1. u \in Owners /\ gate = Free /\ flowControl[u] = NotAsked /\ thread[t] = Idle
        /\ ConnectTo(t, u, list, flow, "record") /\ gate' = t /\ flowControl' = flowControl
    BY <1>9, Kinds DEF SerialConnects, Calls
  <2>2. \A s \in Threads : thread[s].pc \notin Gated
    BY <2>1, NamesAssumption DEF SerialOK, GateOK
  <2>3. \A v \in UartPorts : pins[v] = PinsFor(v, flowControl[v])
    BY <2>2 DEF SerialOK, FlowOK, At
  <2>4. pins[u] = {}
    BY <2>1, <2>3, FlowNames DEF PinsFor
  <2>5. pins' = [pins EXCEPT ![u] = list]
    BY <2>1, <2>4 DEF ConnectTo
  <2>6. thread'[t].pc = "record" /\ thread'[t].owner = u /\ thread'[t].argument = flow
        /\ \A s \in Threads \ {t} : thread'[s] = thread[s]
    BY <1>0, <2>1 DEF ConnectTo
  <2>7. GateOK'
    BY <2>1, <2>2, <2>6 DEF GateOK, Gated
  <2>8. list = PinsFor(u, flow)
    BY DEF PinsFor, Flows, With, Without
  <2>9. Pending(t, u)'
    BY <1>0, <2>1, <2>5, <2>6, <2>8 DEF Pending, RestOK, PinsFor
  <2>10. \A v \in UartPorts \ {u} : pins'[v] = pins[v] /\ flowControl'[v] = flowControl[v]
    BY <1>0, <2>1, <2>5, Kinds DEF RestOK
  <2>11. \A v \in UartPorts \ {u} : pins'[v] = PinsFor(v, flowControl'[v])
    BY <2>3, <2>10
  <2>12. \A s \in Threads, v \in UartPorts : At(s, v)' <=> s = t /\ v = u
    BY <2>2, <2>6 DEF At, Gated
  <2>13. FlowOK'
    BY <2>9, <2>11, <2>12 DEF FlowOK, PinsFor
  <2> QED BY <2>7, <2>13 DEF SerialOK
<1>10. ASSUME NEW t \in Threads, SerialRecords(t) \/ SerialErases(t)
       PROVE SerialOK'
  <2>1. thread[t].pc \in Gated /\ gate' = Free /\ Returns(t) /\ pins' = pins
    BY <1>10 DEF SerialRecords, SerialErases, Succeeds, Gated
  <2>2. gate = t /\ \A s \in Threads \ {t} : thread[s].pc \notin Gated
    BY <2>1 DEF SerialOK, GateOK
  <2>3. \A s \in Threads : thread'[s].pc \notin Gated
    BY <1>0, <2>1, <2>2 DEF Returns, Gated
  <2>4. GateOK'
    BY <2>1, <2>3, NamesAssumption DEF GateOK
  <2> PICK u \in UartPorts : u = thread[t].owner
    BY <1>0, <2>1, Places DEF PlacesOK, Gated
  <2>5. \A v \in UartPorts \ {u} : pins[v] = PinsFor(v, flowControl[v])
    BY <2>2 DEF SerialOK, FlowOK, At
  <2>6. \A v \in UartPorts \ {u} : flowControl'[v] = flowControl[v]
    BY <1>0, <1>10 DEF SerialRecords, SerialErases, RestOK
  <2>7. Pending(t, u)
    BY <2>1 DEF SerialOK, FlowOK, At
  <2>8. pins[u] = PinsFor(u, flowControl'[u])
    <3>1. CASE SerialRecords(t)
      BY <1>0, <2>7, <3>1 DEF SerialRecords, Pending, RestOK
    <3>2. CASE SerialErases(t)
      <4>1. flowControl'[u] = NotAsked /\ pins[u] = {}
        BY <1>0, <2>7, <3>2 DEF SerialErases, Pending, RestOK
      <4> QED BY <4>1, FlowNames DEF PinsFor
    <3> QED BY <1>10, <3>1, <3>2
  <2>9. \A v \in UartPorts : pins'[v] = PinsFor(v, flowControl'[v])
    BY <2>1, <2>5, <2>6, <2>8
  <2>10. FlowOK'
    BY <2>3, <2>9 DEF FlowOK, At, PinsFor
  <2> QED BY <2>4, <2>10 DEF SerialOK
<1>11. ASSUME NEW t \in Threads, NEW u \in UartPorts, SerialDisconnects(t, u)
       PROVE SerialOK'
  <2>1. u \in Owners /\ gate = Free /\ gate' = t /\ Disconnect(u) /\ flowControl' = flowControl
    BY <1>11, Kinds DEF SerialDisconnects
  <2>2. \A s \in Threads : thread[s].pc \notin Gated
    BY <2>1, NamesAssumption DEF SerialOK, GateOK
  <2>3. \A v \in UartPorts : pins[v] = PinsFor(v, flowControl[v])
    BY <2>2 DEF SerialOK, FlowOK, At
  <2>4. thread'[t].pc = "erase" /\ thread'[t].owner = u
        /\ \A s \in Threads \ {t} : thread'[s] = thread[s]
    BY <1>0, <1>11 DEF SerialDisconnects
  <2>5. GateOK'
    BY <2>1, <2>2, <2>4 DEF GateOK, Gated
  <2>6. Pending(t, u)'
    BY <1>0, <2>1, <2>4 DEF Pending, Disconnect, RestOK
  <2>7. \A v \in UartPorts \ {u} : pins'[v] = pins[v]
    BY <1>0, <2>1, Kinds DEF Disconnect, RestOK
  <2>8. \A v \in UartPorts \ {u} : pins'[v] = PinsFor(v, flowControl'[v])
    BY <2>1, <2>3, <2>7
  <2>9. \A s \in Threads, v \in UartPorts : At(s, v)' <=> s = t /\ v = u
    BY <2>2, <2>4 DEF At, Gated
  <2>10. FlowOK'
    BY <2>6, <2>8, <2>9 DEF FlowOK, PinsFor
  <2> QED BY <2>5, <2>10 DEF SerialOK
<1>12. CASE UNCHANGED vars
  BY <1>12 DEF vars, SerialOK, GateOK, FlowOK, At, Pending, PinsFor
<1> QED BY <1>2, <1>3, <1>4, <1>5, <1>6, <1>7, <1>8, <1>9, <1>10, <1>11, <1>12
        DEF Next, I2cNext, SerialNext, CanNext

\* SerialPort's map names exactly the connected ports, and those with RTS and
\* CTS, whenever its gate is free: so Initialize may ignore what Connect says.
THEOREM FlowControlMatches == Spec => []FlowControlMatchesPins
<1>1. Init => ArgumentsOK /\ SerialOK
  <2> SUFFICES ASSUME Init PROVE ArgumentsOK /\ SerialOK
    OBVIOUS
  <2>1. \A t \in Threads : thread[t].pc = "idle" /\ gate # t
    BY NamesAssumption DEF Init, Idle
  <2>2. \A u \in UartPorts : pins[u] = {} /\ flowControl[u] = NotAsked
    BY Kinds DEF Init
  <2>3. ArgumentsOK /\ GateOK
    BY <2>1 DEF ArgumentsOK, GateOK, Gated
  <2>4. FlowOK
    BY <2>1, <2>2, FlowNames DEF FlowOK, At, Gated, PinsFor
  <2> QED BY <2>3, <2>4 DEF SerialOK
<1>2. TypeOK /\ SerialOK => FlowControlMatchesPins
  <2> SUFFICES ASSUME TypeOK, SerialOK, gate = Free, NEW u \in UartPorts
               PROVE pins[u] = CASE flowControl[u] = NotAsked -> {}
                                 [] flowControl[u] = With -> PinsOf[u] \cup FlowPins[u]
                                 [] flowControl[u] = Without -> PinsOf[u]
    BY DEF FlowControlMatchesPins
  <2>1. \A t \in Threads : thread[t].pc \notin Gated
    BY NamesAssumption DEF SerialOK, GateOK
  <2>2. pins[u] = PinsFor(u, flowControl[u])
    BY <2>1 DEF SerialOK, FlowOK, At
  <2>3. flowControl[u] \in {With, Without, NotAsked}
    BY Parts DEF RestOK, Flows
  <2> QED BY <2>2, <2>3, FlowNames DEF PinsFor
<1> QED BY <1>1, <1>2, InitType, NextType, NextArguments, NextSerial, PTL DEF Spec

-----------------------------------------------------------------------------
\* t's call has connected o and has not decided yet.
Making(t, o) ==
  /\ thread[t].owner = o /\ thread[t].made
  /\ thread[t].pc \in {"write", "check", "undo", "record", "down", "type", "up"}

\* A connected port without a success behind it is in the hands of a call
\* that will end it one way or the other.
HalfOK == \A o \in Owners :
  pins[o] # {} /\ asked[o] = NotAsked => \E t \in Threads : Making(t, o)

\* A step of t disturbs HalfOK only for a port that t was making.
LEMMA HalfFrame ==
  ASSUME NEW t \in Threads, HalfOK,
         \A s \in Threads \ {t} : thread'[s] = thread[s],
         \A o \in Owners : pins'[o] # {} /\ asked'[o] = NotAsked =>
           \/ Making(t, o)'
           \/ pins[o] # {} /\ asked[o] = NotAsked /\ ~Making(t, o)
  PROVE  HalfOK'
<1>1. ASSUME NEW s \in Threads \ {t}, NEW o \in Owners, Making(s, o)
      PROVE Making(s, o)'
  BY <1>1 DEF Making
<1> QED BY <1>1 DEF HalfOK

\* A call that goes on at another place still makes its port.
LEMMA HalfGoes ==
  ASSUME NEW t \in Threads, HalfOK, thread \in [Threads -> ThreadType],
         NEW pc \in {"write", "check", "undo", "record", "down", "type", "up"}, Goes(t, pc),
         UNCHANGED <<pins, asked>>
  PROVE  HalfOK'
<1>1. ASSUME NEW o \in Owners, Making(t, o) PROVE Making(t, o)'
  BY <1>1 DEF Making, Goes, ThreadType
<1>2. \A s \in Threads \ {t} : thread'[s] = thread[s]
  BY DEF Goes
<1>3. \A o \in Owners : Making(t, o)' \/ ~Making(t, o)
  BY <1>1
<1>4. ASSUME NEW s \in Threads \ {t}, NEW o \in Owners, Making(s, o)
      PROVE Making(s, o)'
  BY <1>2, <1>4 DEF Making
<1> QED BY <1>1, <1>4 DEF HalfOK

\* A call that was not making a port may end or go on.
LEMMA HalfLeaves ==
  ASSUME NEW t \in Threads, HalfOK, thread \in [Threads -> ThreadType],
         thread[t].pc \notin {"write", "check", "undo", "record", "down", "type", "up"},
         Returns(t) \/ \E pc \in Pcs : Goes(t, pc), UNCHANGED <<pins, asked>>
  PROVE  HalfOK'
<1>1. \A s \in Threads \ {t} : thread'[s] = thread[s]
  BY DEF Goes, Returns
<1>2. \A o \in Owners : ~Making(t, o)
  BY DEF Making
<1> QED BY <1>1, <1>2, HalfFrame

\* Connecting makes the port or finds it as it was.
LEMMA HalfConnect ==
  ASSUME TypeOK, NEW t \in Threads, NEW o \in Owners, NEW list, NEW argument,
         NEW pc \in {"write", "record", "down"}, HalfOK, thread[t] = Idle,
         ConnectTo(t, o, list, argument, pc)
  PROVE  HalfOK'
<1>0. RestOK /\ thread \in [Threads -> ThreadType] /\ Idle.pc = "idle"
  BY Parts DEF Idle
<1>1. \A s \in Threads \ {t} : thread'[s] = thread[s]
  BY <1>0 DEF ConnectTo
<1>2. \A p \in Owners : ~Making(t, p)
  BY <1>0 DEF Making
<1>3. CASE pins[o] = {}
  <2>1. Making(t, o)'
    BY <1>0, <1>3 DEF ConnectTo, Making
  <2>2. \A p \in Owners \ {o} : pins'[p] = pins[p] /\ asked'[p] = asked[p]
    BY <1>0 DEF ConnectTo, RestOK
  <2> QED BY <1>1, <1>2, <2>1, <2>2, HalfFrame
<1>4. CASE pins[o] # {}
  <2>1. UNCHANGED <<pins, asked>>
    BY <1>4 DEF ConnectTo
  <2> QED BY <1>1, <1>2, <2>1, HalfFrame
<1> QED BY <1>3, <1>4

\* A success leaves a port that was asked for.
LEMMA HalfSucceeds ==
  ASSUME TypeOK, ArgumentsOK, NEW t \in Threads, HalfOK, Succeeds(t), pins' = pins,
         thread[t].pc \in {"check", "record", "up"}
  PROVE  HalfOK'
<1>0. RestOK /\ thread \in [Threads -> ThreadType]
  BY Parts
<1>1. \A s \in Threads \ {t} : thread'[s] = thread[s]
  BY <1>0 DEF Succeeds, Returns
<1>2. thread[t].argument # NotAsked
  <2>1. thread[t].argument \in Speeds \cup Flows
    BY DEF ArgumentsOK
  <2>2. Speeds \cup Flows \subseteq Nat
    BY SpeedsAssumption DEF Flows, With, Without
  <2> QED BY <2>1, <2>2, NamesAssumption
<1>3. ASSUME NEW o \in Owners, pins'[o] # {}, asked'[o] = NotAsked
      PROVE pins[o] # {} /\ asked[o] = NotAsked /\ ~Making(t, o)
  <2>1. o # thread[t].owner
    BY <1>0, <1>2, <1>3 DEF Succeeds, RestOK
  <2>2. asked'[o] = asked[o]
    BY <1>0, <2>1 DEF Succeeds, RestOK
  <2> QED BY <1>3, <2>1, <2>2 DEF Making
<1> QED BY <1>1, <1>3, HalfFrame

\* Every step ends a half initialized port or leaves it to its call.
LEMMA NextHalf == TypeOK /\ ArgumentsOK /\ HalfOK /\ [Next]_vars => HalfOK'
<1> SUFFICES ASSUME TypeOK, ArgumentsOK, HalfOK, [Next]_vars PROVE HalfOK'
  OBVIOUS
<1>0. RestOK /\ thread \in [Threads -> ThreadType] /\ PlacesOK /\ Idle.pc = "idle"
  BY Parts DEF Idle
<1>1. ASSUME NEW t \in Threads, NEW b \in I2cBuses, NEW f \in Speeds, I2cConnects(t, b, f)
      PROVE HalfOK'
  BY <1>1, Kinds, HalfConnect DEF I2cConnects, Calls
<1>2. ASSUME NEW t \in Threads, I2cWrites(t) \/ I2cWriteFails(t)
      PROVE HalfOK'
  BY <1>0, <1>2, HalfGoes DEF I2cWrites, I2cWriteFails
<1>3. ASSUME NEW t \in Threads, I2cChecks(t)
      PROVE HalfOK'
  BY <1>0, <1>3, HalfGoes, HalfSucceeds DEF I2cChecks
<1>4. ASSUME NEW t \in Threads, NEW o \in Owners, Disconnect(o),
             \/ UNCHANGED thread
             \/ \E record \in ThreadType : thread' = [thread EXCEPT ![t] = record],
             \A p \in Owners : Making(t, p) => p = o
      PROVE HalfOK'
  <2>1. \A s \in Threads \ {t} : thread'[s] = thread[s]
    BY <1>0, <1>4
  <2>2. pins'[o] = {} /\ \A p \in Owners \ {o} : pins'[p] = pins[p] /\ asked'[p] = asked[p]
    BY <1>0, <1>4 DEF Disconnect, RestOK
  <2> QED BY <1>4, <2>1, <2>2, HalfFrame
<1>5. ASSUME NEW t \in Threads, NEW o \in Owners, UnInitialize(t, o)
      PROVE HalfOK'
  <2>1. \A p \in Owners : ~Making(t, p)
    BY <1>0, <1>5 DEF UnInitialize, Calls, Making
  <2> QED BY <1>4, <1>5, <2>1 DEF UnInitialize
<1>6. ASSUME NEW t \in Threads, NEW o \in Owners, PlainInitialize(t, o)
      PROVE HalfOK'
  <2>1. \A p \in Owners : ~Making(t, p)
    BY <1>0, <1>6 DEF PlainInitialize, Calls, Making
  <2>2. asked'[o] # NotAsked
    BY <1>0, <1>6, FlowNames DEF PlainInitialize, RestOK
  <2>3. \A p \in Owners \ {o} : pins'[p] = pins[p] /\ asked'[p] = asked[p]
    BY <1>0, <1>6 DEF PlainInitialize, RestOK
  <2>4. thread' = thread
    BY <1>6 DEF PlainInitialize
  <2> QED BY <2>1, <2>2, <2>3, <2>4, HalfFrame
<1>7. ASSUME NEW t \in Threads, NEW u \in UartPorts, NEW flow \in Flows, SerialConnects(t, u, flow)
      PROVE HalfOK'
  BY <1>7, Kinds, HalfConnect DEF SerialConnects, Calls
<1>8. ASSUME NEW t \in Threads, SerialRecords(t)
      PROVE HalfOK'
  BY <1>8, HalfSucceeds DEF SerialRecords
<1>9. ASSUME NEW t \in Threads, NEW u \in UartPorts, SerialDisconnects(t, u)
      PROVE HalfOK'
  <2> PICK record : record = [pc |-> "erase", owner |-> u, argument |-> NotAsked, made |-> FALSE]
    OBVIOUS
  <2>1. record \in ThreadType
    BY Kinds DEF ThreadType, Pcs, Arguments
  <2>2. \A p \in Owners : ~Making(t, p)
    BY <1>0, <1>9 DEF SerialDisconnects, Calls, Making
  <2>3. Disconnect(u) /\ thread' = [thread EXCEPT ![t] = record]
    BY <1>9 DEF SerialDisconnects
  <2> QED BY <1>4, <2>1, <2>2, <2>3, Kinds
<1>10. ASSUME NEW t \in Threads, SerialErases(t)
       PROVE HalfOK'
  BY <1>0, <1>10, HalfLeaves DEF SerialErases
<1>11. ASSUME NEW t \in Threads, NEW c \in CanPorts, CanConnects(t, c)
       PROVE HalfOK'
  BY <1>11, Kinds, HalfConnect DEF CanConnects, Calls
<1>12. ASSUME NEW t \in Threads, NEW c \in CanPorts, CanStops(t, c)
       PROVE HalfOK'
  <2>1. \A p \in Owners : ~Making(t, p)
    BY <1>0, <1>12 DEF CanStops, Calls, Making
  <2>2. UNCHANGED <<pins, asked>> /\ \A s \in Threads \ {t} : thread'[s] = thread[s]
    BY <1>0, <1>12 DEF CanStops
  <2> QED BY <2>1, <2>2, HalfFrame
<1>13. ASSUME NEW t \in Threads, CommandDone(t)
       PROVE HalfOK'
  <2>1. NextCommand["down"] = "type" /\ NextCommand["type"] = "up"
    BY DEF NextCommand
  <2>2. thread[t].pc \in {"down", "type", "up", "stop"} /\ pins' = pins
    BY <1>13 DEF CommandDone
  <2>3. CASE thread[t].pc = "down"
    BY <1>0, <1>13, <2>1, <2>3, HalfGoes DEF CommandDone
  <2>4. CASE thread[t].pc = "type"
    BY <1>0, <1>13, <2>1, <2>4, HalfGoes DEF CommandDone
  <2>5. CASE thread[t].pc = "up"
    BY <1>13, <2>2, <2>5, HalfSucceeds DEF CommandDone
  <2>6. CASE thread[t].pc = "stop"
    <3>1. Goes(t, "disconnect") /\ UNCHANGED <<pins, asked>> /\ "disconnect" \in Pcs
      BY <1>13, <2>6 DEF CommandDone, Pcs
    <3> QED BY <1>0, <2>6, <3>1, HalfLeaves
  <2> QED BY <2>2, <2>3, <2>4, <2>5, <2>6
<1>14. ASSUME NEW t \in Threads, CommandFails(t) \/ CommandCut(t)
       PROVE HalfOK'
  <2>1. pins' = pins /\ asked' = asked
    BY <1>14 DEF CommandFails, CommandCut
  <2>4. \/ Goes(t, "undo")
        \/ thread[t].pc = "stop" /\ Returns(t)
    BY <1>14 DEF CommandFails, CommandCut
  <2>2. CASE Goes(t, "undo")
    BY <1>0, <2>1, <2>2, HalfGoes
  <2>3. CASE thread[t].pc = "stop" /\ Returns(t)
    BY <1>0, <2>1, <2>3, HalfLeaves
  <2> QED BY <2>2, <2>3, <2>4
<1>15. ASSUME NEW t \in Threads, CanDisconnects(t)
       PROVE HalfOK'
  <2>1. thread[t].owner \in Owners /\ Idle \in ThreadType
    BY <1>0, <1>15, Places, Kinds DEF CanDisconnects, PlacesOK, Idle, ThreadType, Pcs, Arguments
  <2>2. \A p \in Owners : ~Making(t, p)
    BY <1>15 DEF CanDisconnects, Making
  <2> QED BY <1>4, <1>15, <2>1, <2>2 DEF CanDisconnects, Returns
<1>16. ASSUME NEW t \in Threads, Undo(t)
       PROVE HalfOK'
  <2>1. \A s \in Threads \ {t} : thread'[s] = thread[s]
    BY <1>0, <1>16 DEF Undo, Returns
  <2>2. CASE thread[t].made
    <3>1. \A p \in Owners : pins'[p] # {} => p # thread[t].owner /\ pins'[p] = pins[p]
      BY <1>0, <1>16, <2>2 DEF Undo, RestOK
    <3> QED BY <1>16, <2>1, <3>1, HalfFrame DEF Undo, Making
  <2>3. CASE ~thread[t].made
    BY <1>16, <2>1, <2>3, HalfFrame DEF Undo, Making
  <2> QED BY <2>2, <2>3
<1>17. CASE UNCHANGED vars
  BY <1>17 DEF vars, HalfOK, Making
<1> QED BY <1>1, <1>2, <1>3, <1>5, <1>6, <1>7, <1>8, <1>9, <1>10, <1>11, <1>12, <1>13,
           <1>14, <1>15, <1>16, <1>17 DEF Next, I2cNext, SerialNext, CanNext

\* Whatever fails and however the calls of several threads interleave, a port
\* that is connected with no call inside had a successful Initialize.
THEOREM NothingHalf == Spec => []NothingHalfInitialized
<1>1. Init => ArgumentsOK /\ HalfOK
  BY DEF Init, Idle, ArgumentsOK, HalfOK
<1>2. HalfOK => NothingHalfInitialized
  BY DEF HalfOK, NothingHalfInitialized, Making, Inside
<1> QED BY <1>1, <1>2, InitType, NextType, NextArguments, NextHalf, PTL DEF Spec

-----------------------------------------------------------------------------
\* What is so of a port that one thread uses: what it was asked for is there
\* while it has pins, and a CAN link that was not cut off runs only then.
KeptAt(o) ==
  /\ asked[o] # NotAsked => pins[o] # {}
  /\ o \in CanPorts /\ o \in running /\ o \notin cut => pins[o] # {}

\* What a call inside its port relies on: the pins that it or an earlier call
\* connected, nothing promised since, and a link that is down before they go.
InsideAt(t, o) ==
  /\ thread[t].pc \in {"write", "check", "record", "down", "type", "up"} => pins[o] # {}
  /\ thread[t].made => asked[o] = NotAsked
  /\ thread[t].made /\ o \in CanPorts => o \notin running \/ o \in cut
  /\ thread[t].pc = "disconnect" => o \notin running

\* A thread is inside ports that it uses, a connected port has all its pins, and
\* the two facts above hold of each port that is one thread's.
KeepOK ==
  /\ \A t \in Threads : thread[t].pc # "idle" => thread[t].owner \in Uses[t]
  /\ \A o \in Owners : pins[o] # {} => PinsOf[o] \subseteq pins[o]
  /\ \A o \in Owners : ~Shared(o) =>
       /\ KeptAt(o)
       /\ \A t \in Threads : thread[t].pc # "idle" /\ thread[t].owner = o => InsideAt(t, o)

\* A thread's step in one port: the other ports and calls are as before, and no
\* other call is inside the port when it is the thread's alone.
LEMMA KeepFrame ==
  ASSUME KeepOK, NEW t \in Threads, NEW o \in Owners, o \in Uses[t],
         \A u \in Threads \ {t} : thread'[u] = thread[u],
         thread'[t].pc # "idle" => thread'[t].owner = o,
         \A p \in Owners \ {o} : /\ pins'[p] = pins[p] /\ asked'[p] = asked[p]
                                 /\ p \in running' <=> p \in running
                                 /\ p \in cut' <=> p \in cut,
         pins'[o] # {} => PinsOf[o] \subseteq pins'[o],
         ~Shared(o) => KeptAt(o)' /\ (thread'[t].pc # "idle" => InsideAt(t, o)')
  PROVE  KeepOK'
<1>1. \A u \in Threads : thread'[u].pc # "idle" => thread'[u].owner \in Uses[u]
  BY DEF KeepOK
<1>2. \A p \in Owners : pins'[p] # {} => PinsOf[p] \subseteq pins'[p]
  BY DEF KeepOK
<1>3. ASSUME NEW p \in Owners \ {o}, ~Shared(p) PROVE KeptAt(p)'
  BY <1>3 DEF KeepOK, KeptAt
<1>4. ASSUME NEW p \in Owners, ~Shared(p), NEW u \in Threads,
             thread'[u].pc # "idle", thread'[u].owner = p
      PROVE InsideAt(u, p)'
  <2>1. CASE p = o
    <3>1. u = t
      BY <1>4, <1>1, <2>1 DEF Shared
    <3> QED BY <1>4, <2>1, <3>1
  <2>2. CASE p # o
    <3>1. u # t
      BY <1>4, <2>2
    <3>2. InsideAt(u, p)
      BY <1>4, <3>1 DEF KeepOK
    <3> QED BY <2>2, <3>1, <3>2 DEF InsideAt
  <2> QED BY <2>1, <2>2
<1>5. \A p \in Owners : ~Shared(p) => KeptAt(p)'
  BY <1>3
<1>6. \A p \in Owners : ~Shared(p) =>
        \A u \in Threads : thread'[u].pc # "idle" /\ thread'[u].owner = p => InsideAt(u, p)'
  BY <1>4
<1> QED BY <1>1, <1>2, <1>5, <1>6 DEF KeepOK

\* A connection leaves the port with its pins, and with nothing promised if the
\* call made it.
LEMMA KeepConnect ==
  ASSUME TypeOK, KeepOK, NEW t \in Threads, NEW o \in Owners, NEW list, NEW argument,
         NEW pc \in {"write", "record", "down"}, Calls(t, o), PinsOf[o] \subseteq list,
         ConnectTo(t, o, list, argument, pc), UNCHANGED <<running, cut>>
  PROVE  KeepOK'
<1>0. RestOK /\ thread \in [Threads -> ThreadType]
  BY Parts
<1>1. thread'[t].pc = pc /\ thread'[t].owner = o /\ (thread'[t].made <=> pins[o] = {})
  BY <1>0 DEF ConnectTo
<1>2. \A u \in Threads \ {t} : thread'[u] = thread[u]
  BY <1>0 DEF ConnectTo
<1>3. \A p \in Owners \ {o} : pins'[p] = pins[p] /\ asked'[p] = asked[p]
  BY <1>0 DEF ConnectTo, RestOK
<1>4. CASE pins[o] = {}
  <2>1. pins'[o] = list /\ asked'[o] = NotAsked
    BY <1>0, <1>4 DEF ConnectTo, RestOK
  <2>2. pins'[o] # {}
    BY <2>1, OwnersAssumption
  <2>3. ~Shared(o) => KeptAt(o)' /\ InsideAt(t, o)'
    BY <1>1, <1>4, <2>1, <2>2 DEF KeepOK, KeptAt, InsideAt
  <2> QED BY <1>1, <1>2, <1>3, <2>1, <2>3, KeepFrame DEF Calls
<1>5. CASE pins[o] # {}
  <2>1. pins' = pins /\ asked' = asked
    BY <1>5 DEF ConnectTo
  <2>2. ~Shared(o) => KeptAt(o)' /\ InsideAt(t, o)'
    BY <1>1, <1>5, <2>1 DEF KeepOK, KeptAt, InsideAt
  <2> QED BY <1>1, <1>2, <1>3, <1>5, <2>1, <2>2, KeepFrame DEF Calls, KeepOK
<1> QED BY <1>4, <1>5

\* A call that goes on, and changes neither its port's pins nor what it was
\* asked for, needs only that what it does to its link is in order.
LEMMA KeepGoes ==
  ASSUME TypeOK, KeepOK, NEW t \in Threads, NEW pc \in Pcs, thread[t].pc # "idle",
         Goes(t, pc), UNCHANGED <<pins, asked>>,
         \A p \in Owners \ {thread[t].owner} : /\ p \in running' <=> p \in running
                                               /\ p \in cut' <=> p \in cut,
         pc \in {"write", "check", "record", "down", "type", "up"} =>
           thread[t].pc \in {"write", "check", "record", "down", "type", "up"},
         pc = "disconnect" => thread[t].owner \notin running',
         ~Shared(thread[t].owner) /\ thread[t].owner \in CanPorts =>
           \/ thread[t].owner \notin running'
           \/ thread[t].owner \in cut'
           \/ UNCHANGED <<running, cut>>
  PROVE  KeepOK'
<1>0. RestOK /\ thread \in [Threads -> ThreadType] /\ PlacesOK
  BY Parts
<1> PICK o : o = thread[t].owner
  OBVIOUS
<1>1. o \in Owners /\ o \in Uses[t]
  BY <1>0, Places, Kinds DEF PlacesOK, ThreadType, Pcs, KeepOK
<1>2. /\ thread'[t].pc = pc /\ thread'[t].owner = o /\ thread'[t].made = thread[t].made
      /\ \A u \in Threads \ {t} : thread'[u] = thread[u]
  BY <1>0 DEF Goes, ThreadType
<1>3. ~Shared(o) => InsideAt(t, o) /\ KeptAt(o)
  BY <1>1 DEF KeepOK
<1>4. ~Shared(o) => KeptAt(o)'
  BY <1>3 DEF KeptAt
<1>5. ~Shared(o) => InsideAt(t, o)'
  BY <1>2, <1>3 DEF InsideAt
<1> QED BY <1>1, <1>2, <1>4, <1>5, KeepFrame DEF KeepOK

\* A call that ends leaves a port that is kept.
LEMMA KeepLeaves ==
  ASSUME TypeOK, KeepOK, NEW t \in Threads, NEW o \in Owners, o \in Uses[t], Returns(t),
         \A p \in Owners \ {o} : /\ pins'[p] = pins[p] /\ asked'[p] = asked[p]
                                 /\ p \in running' <=> p \in running
                                 /\ p \in cut' <=> p \in cut,
         pins'[o] # {} => PinsOf[o] \subseteq pins'[o],
         ~Shared(o) => KeptAt(o)'
  PROVE  KeepOK'
<1>1. thread'[t].pc = "idle" /\ \A u \in Threads \ {t} : thread'[u] = thread[u]
  BY Parts DEF Returns, Idle
<1> QED BY <1>1, KeepFrame

\* Where a call is, its port is the thread's.
LEMMA InsideUses ==
  ASSUME TypeOK, KeepOK, NEW t \in Threads, thread[t].pc # "idle"
  PROVE  /\ thread[t].owner \in Owners /\ thread[t].owner \in Uses[t]
         /\ ~Shared(thread[t].owner) => InsideAt(t, thread[t].owner) /\ KeptAt(thread[t].owner)
BY Parts, Places, Kinds DEF PlacesOK, ThreadType, Pcs, KeepOK

\* A success promises the pins that the call found or made.
LEMMA KeepSucceeds ==
  ASSUME TypeOK, KeepOK, NEW t \in Threads, thread[t].pc \in {"check", "record", "up"},
         Succeeds(t), pins' = pins, cut' = cut,
         \A p \in Owners \ {thread[t].owner} : p \in running' <=> p \in running
  PROVE  KeepOK'
<1> PICK o : o = thread[t].owner
  OBVIOUS
<1>1. o \in Owners /\ o \in Uses[t] /\ (~Shared(o) => InsideAt(t, o))
  BY InsideUses
<1>2. \A p \in Owners \ {o} : asked'[p] = asked[p]
  BY Parts DEF Succeeds, RestOK
<1>3. ~Shared(o) => pins'[o] # {}
  BY <1>1 DEF InsideAt
<1>4. ~Shared(o) => KeptAt(o)'
  BY <1>3 DEF KeptAt
<1>5. pins'[o] # {} => PinsOf[o] \subseteq pins'[o]
  BY <1>1 DEF KeepOK
<1>6. Returns(t)
  BY DEF Succeeds
<1> QED BY <1>1, <1>2, <1>4, <1>5, <1>6, KeepLeaves

\* Every step keeps it: UnInitialize, the undo and the commands of a link.
LEMMA NextKeep == TypeOK /\ KeepOK /\ [Next]_vars => KeepOK'
<1> SUFFICES ASSUME TypeOK, KeepOK, [Next]_vars PROVE KeepOK'
  OBVIOUS
<1>0. RestOK /\ thread \in [Threads -> ThreadType] /\ PlacesOK
  BY Parts
<1>1. ASSUME NEW t \in Threads, NEW b \in I2cBuses, NEW f \in Speeds, I2cConnects(t, b, f)
      PROVE KeepOK'
  BY <1>1, Kinds, KeepConnect DEF I2cConnects
<1>2. ASSUME NEW t \in Threads, I2cWrites(t) \/ I2cWriteFails(t)
      PROVE KeepOK'
  <2>1. PICK pc \in {"check", "undo"} : Goes(t, pc)
    BY <1>2 DEF I2cWrites, I2cWriteFails
  <2>2. thread[t].pc = "write" /\ UNCHANGED <<pins, asked, running, cut>> /\ pc \in Pcs
    BY <1>2 DEF I2cWrites, I2cWriteFails, Pcs
  <2> QED BY <2>1, <2>2, KeepGoes
<1>3. ASSUME NEW t \in Threads, I2cChecks(t)
      PROVE KeepOK'
  <2>1. thread[t].pc = "check" /\ UNCHANGED <<pins, running, cut>> /\ "undo" \in Pcs
    BY <1>3 DEF I2cChecks, Pcs
  <2>2. CASE Succeeds(t)
    BY <2>1, <2>2, KeepSucceeds
  <2>3. CASE Goes(t, "undo") /\ UNCHANGED asked
    BY <2>1, <2>3, KeepGoes
  <2> QED BY <1>3, <2>2, <2>3 DEF I2cChecks
<1>4. ASSUME NEW t \in Threads, NEW o \in Owners, UnInitialize(t, o)
      PROVE KeepOK'
  <2>1. thread'[t].pc = "idle" /\ o \in Uses[t] /\ o \notin CanPorts
    BY <1>4, Kinds DEF UnInitialize, Calls, Idle
  <2>2. pins'[o] = {} /\ asked'[o] = NotAsked
    BY <1>0, <1>4 DEF UnInitialize, Disconnect, RestOK
  <2>3. \A p \in Owners \ {o} : pins'[p] = pins[p] /\ asked'[p] = asked[p]
    BY <1>0, <1>4 DEF UnInitialize, Disconnect, RestOK
  <2>4. UNCHANGED <<thread, running, cut>>
    BY <1>4 DEF UnInitialize
  <2>5. KeptAt(o)'
    BY <2>1, <2>2 DEF KeptAt
  <2> QED BY <2>1, <2>2, <2>3, <2>4, <2>5, KeepFrame
<1>5. ASSUME NEW t \in Threads, NEW o \in Owners, PlainInitialize(t, o)
      PROVE KeepOK'
  <2>1. thread'[t].pc = "idle" /\ o \in Uses[t] /\ pins'[o] = PinsOf[o]
    BY <1>0, <1>5 DEF PlainInitialize, Calls, Idle, RestOK
  <2>2. \A p \in Owners \ {o} : pins'[p] = pins[p] /\ asked'[p] = asked[p]
    BY <1>0, <1>5 DEF PlainInitialize, RestOK
  <2>3. UNCHANGED <<thread, running, cut>>
    BY <1>5 DEF PlainInitialize
  <2>4. KeptAt(o)'
    BY <2>1, OwnersAssumption DEF KeptAt
  <2> QED BY <2>1, <2>2, <2>3, <2>4, KeepFrame
<1>6. ASSUME NEW t \in Threads, NEW u \in UartPorts, NEW flow \in Flows, SerialConnects(t, u, flow)
      PROVE KeepOK'
  <2> PICK list : list = PinsOf[u] \cup (IF flow = With THEN FlowPins[u] ELSE {})
    OBVIOUS
  <2>1. ConnectTo(t, u, list, flow, "record") /\ PinsOf[u] \subseteq list /\ u \in Owners
    BY <1>6, Kinds DEF SerialConnects
  <2> QED BY <1>6, <2>1, KeepConnect DEF SerialConnects
<1>7. ASSUME NEW t \in Threads, SerialRecords(t)
      PROVE KeepOK'
  BY <1>7, KeepSucceeds DEF SerialRecords
<1>8. ASSUME NEW t \in Threads, NEW u \in UartPorts, SerialDisconnects(t, u)
      PROVE KeepOK'
  <2>1. u \in Owners /\ u \in Uses[t] /\ u \notin CanPorts
    BY <1>8, Kinds DEF SerialDisconnects, Calls
  <2>2. pins'[u] = {} /\ asked'[u] = NotAsked
    BY <1>0, <1>8, <2>1 DEF SerialDisconnects, Disconnect, RestOK
  <2>3. \A p \in Owners \ {u} : pins'[p] = pins[p] /\ asked'[p] = asked[p]
    BY <1>0, <1>8 DEF SerialDisconnects, Disconnect, RestOK
  <2>4. /\ thread'[t] = [pc |-> "erase", owner |-> u, argument |-> NotAsked, made |-> FALSE]
        /\ \A s \in Threads \ {t} : thread'[s] = thread[s]
    BY <1>0, <1>8 DEF SerialDisconnects
  <2>5. UNCHANGED <<running, cut>>
    BY <1>8 DEF SerialDisconnects
  <2>6. KeptAt(u)' /\ InsideAt(t, u)'
    BY <2>1, <2>2, <2>4 DEF KeptAt, InsideAt
  <2> QED BY <2>1, <2>2, <2>3, <2>4, <2>5, <2>6, KeepFrame
<1>9. ASSUME NEW t \in Threads, thread[t].pc # "idle", Returns(t), UNCHANGED <<pins, asked>>,
             \A p \in Owners \ {thread[t].owner} : /\ p \in running' <=> p \in running
                                                   /\ p \in cut' <=> p \in cut,
             \/ thread[t].owner \notin running'
             \/ thread[t].owner \in cut'
             \/ UNCHANGED <<running, cut>>
      PROVE KeepOK'
  <2> PICK o : o = thread[t].owner
    OBVIOUS
  <2>1. o \in Owners /\ o \in Uses[t] /\ (~Shared(o) => KeptAt(o))
    BY <1>9, InsideUses
  <2>2. ~Shared(o) => KeptAt(o)'
    BY <1>9, <2>1 DEF KeptAt
  <2> QED BY <1>9, <2>1, <2>2, KeepLeaves DEF KeepOK
<1>10. ASSUME NEW t \in Threads, SerialErases(t)
       PROVE KeepOK'
  BY <1>9, <1>10 DEF SerialErases
<1>11. ASSUME NEW t \in Threads, NEW c \in CanPorts, CanConnects(t, c)
       PROVE KeepOK'
  BY <1>11, Kinds, KeepConnect DEF CanConnects
<1>12. ASSUME NEW t \in Threads, NEW c \in CanPorts, CanStops(t, c)
       PROVE KeepOK'
  <2>1. c \in Owners /\ c \in Uses[t] /\ UNCHANGED <<pins, asked, running, cut>>
    BY <1>12, Kinds DEF CanStops, Calls
  <2>2. /\ thread'[t] = [pc |-> "stop", owner |-> c, argument |-> NotAsked, made |-> FALSE]
        /\ \A s \in Threads \ {t} : thread'[s] = thread[s]
    BY <1>0, <1>12 DEF CanStops
  <2>3. InsideAt(t, c)' /\ (~Shared(c) => KeptAt(c)')
    BY <2>1, <2>2 DEF InsideAt, KeepOK, KeptAt
  <2> QED BY <2>1, <2>2, <2>3, KeepFrame DEF KeepOK
<1>13. ASSUME NEW t \in Threads, CommandDone(t)
       PROVE KeepOK'
  <2> PICK c : c = thread[t].owner
    OBVIOUS
  <2>1. NextCommand["down"] = "type" /\ NextCommand["type"] = "up"
    BY DEF NextCommand
  <2>2. /\ thread[t].pc \in {"down", "type", "up", "stop"} /\ pins' = pins
        /\ running' = After(thread[t].pc, c)
        /\ cut' = IF thread[t].pc \in {"down", "stop"} THEN cut \ {c} ELSE cut
    BY <1>13 DEF CommandDone
  <2>3. CASE thread[t].pc = "down"
    <3>1. Goes(t, "type") /\ asked' = asked /\ "type" \in Pcs /\ running' = running \ {c}
      BY <1>13, <2>1, <2>2, <2>3 DEF CommandDone, Pcs, After
    <3> QED BY <2>2, <2>3, <3>1, KeepGoes
  <2>4. CASE thread[t].pc = "type"
    <3>1. Goes(t, "up") /\ asked' = asked /\ "up" \in Pcs /\ running' = running
      BY <1>13, <2>1, <2>2, <2>4 DEF CommandDone, Pcs, After
    <3> QED BY <2>2, <2>4, <3>1, KeepGoes
  <2>5. CASE thread[t].pc = "up"
    <3>1. Succeeds(t) /\ running' = running \cup {c}
      BY <1>13, <2>2, <2>5 DEF CommandDone, After
    <3> QED BY <2>2, <2>5, <3>1, KeepSucceeds
  <2>6. CASE thread[t].pc = "stop"
    <3>1. Goes(t, "disconnect") /\ asked' = asked /\ "disconnect" \in Pcs /\ running' = running \ {c}
      BY <1>13, <2>2, <2>6 DEF CommandDone, Pcs, After
    <3> QED BY <2>2, <2>6, <3>1, KeepGoes
  <2> QED BY <2>2, <2>3, <2>4, <2>5, <2>6
<1>14. ASSUME NEW t \in Threads, CommandFails(t) \/ CommandCut(t)
       PROVE KeepOK'
  <2> PICK c : c = thread[t].owner
    OBVIOUS
  <2>1. /\ thread[t].pc \in {"down", "type", "up", "stop"} /\ UNCHANGED <<pins, asked>>
        /\ Goes(t, "undo") \/ Returns(t)
        /\ \/ UNCHANGED <<running, cut>>
           \/ running' = After(thread[t].pc, c) /\ cut' = cut \cup {c}
    BY <1>14 DEF CommandFails, CommandCut
  <2>2. \A p \in Owners \ {c} : (p \in running' <=> p \in running) /\ (p \in cut' <=> p \in cut)
    BY <2>1 DEF After
  <2>3. c \in cut' \/ UNCHANGED <<running, cut>>
    BY <2>1
  <2>4. CASE Goes(t, "undo")
    <3>1. "undo" \in Pcs
      BY DEF Pcs
    <3> QED BY <2>1, <2>2, <2>3, <2>4, <3>1, KeepGoes
  <2>5. CASE Returns(t)
    BY <1>9, <2>1, <2>2, <2>3, <2>5
  <2> QED BY <2>1, <2>4, <2>5
<1>15. ASSUME NEW t \in Threads, CanDisconnects(t)
       PROVE KeepOK'
  <2> PICK c : c = thread[t].owner
    OBVIOUS
  <2>1. /\ thread[t].pc = "disconnect" /\ Returns(t) /\ Disconnect(c)
        /\ UNCHANGED <<running, cut>>
    BY <1>15 DEF CanDisconnects
  <2>2. c \in Owners /\ c \in Uses[t] /\ (~Shared(c) => c \notin running)
    BY <2>1, InsideUses DEF InsideAt
  <2>3. pins'[c] = {} /\ asked'[c] = NotAsked
    BY <1>0, <2>1, <2>2 DEF Disconnect, RestOK
  <2>4. \A p \in Owners \ {c} : pins'[p] = pins[p] /\ asked'[p] = asked[p]
    BY <1>0, <2>1 DEF Disconnect, RestOK
  <2>5. ~Shared(c) => KeptAt(c)'
    BY <2>1, <2>2, <2>3 DEF KeptAt
  <2> QED BY <2>1, <2>2, <2>3, <2>4, <2>5, KeepLeaves
<1>16. ASSUME NEW t \in Threads, Undo(t)
       PROVE KeepOK'
  <2> PICK o : o = thread[t].owner
    OBVIOUS
  <2>1. thread[t].pc = "undo" /\ Returns(t) /\ UNCHANGED <<asked, running, cut>>
    BY <1>16 DEF Undo
  <2>2. CASE ~thread[t].made
    BY <1>9, <1>16, <2>1, <2>2 DEF Undo
  <2>3. CASE thread[t].made
    <3>1. o \in Owners /\ o \in Uses[t] /\ (~Shared(o) => InsideAt(t, o))
      BY <2>1, InsideUses
    <3>2. pins'[o] = {} /\ \A p \in Owners \ {o} : pins'[p] = pins[p]
      BY <1>0, <1>16, <2>3, <3>1 DEF Undo, RestOK
    <3>3. ~Shared(o) => KeptAt(o)'
      BY <2>1, <2>3, <3>1 DEF KeptAt, InsideAt
    <3> QED BY <2>1, <3>1, <3>2, <3>3, KeepLeaves
  <2> QED BY <2>2, <2>3
<1>17. CASE UNCHANGED vars
  BY <1>17 DEF vars, KeepOK, KeptAt, InsideAt
<1> QED BY <1>1, <1>2, <1>3, <1>4, <1>5, <1>6, <1>7, <1>8, <1>10, <1>11, <1>12, <1>13, <1>14,
           <1>15, <1>16, <1>17 DEF Next, I2cNext, SerialNext, CanNext

\* No port is initialized and no link is up at first.
LEMMA InitKeep == Init => KeepOK
BY DEF Init, Idle, KeepOK, KeptAt

\* What one thread initialized keeps its pins until it gives them back, whatever
\* fails in its own calls and whatever other ports on the same pins try.
THEOREM InitializedKeeps == Spec => []InitializedKeepsPins
<1>1. KeepOK => InitializedKeepsPins
  BY DEF KeepOK, KeptAt, InitializedKeepsPins
<1>2. Init => ArgumentsOK
  BY DEF Init, Idle, ArgumentsOK
<1> QED BY <1>1, <1>2, InitType, NextType, NextArguments, InitKeep, NextKeep, PTL DEF Spec

\* The link of a CAN port that one thread uses is up only on the port's pins,
\* but after a command that was killed when it had done its work.
THEOREM LinkRunsOnPins == Spec => []LinkRunsOnItsPins
<1>1. KeepOK => LinkRunsOnItsPins
  BY Kinds DEF KeepOK, KeptAt, LinkRunsOnItsPins
<1>2. Init => ArgumentsOK
  BY DEF Init, Idle, ArgumentsOK
<1> QED BY <1>1, <1>2, InitType, NextType, NextArguments, InitKeep, NextKeep, PTL DEF Spec

=============================================================================

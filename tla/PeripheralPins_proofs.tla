------------------------ MODULE PeripheralPins_proofs ------------------------
(***************************************************************************)
(* Proofs about PeripheralPins for any pins, peripherals, pin lists and    *)
(* controllers: its invariants, and that it implements PinOwnership.       *)
(***************************************************************************)
EXTENDS PeripheralPins, SequenceTheorems, TLAPS

CallType == [phase : Phases, owner : Peripherals \cup {Absent}, pins : Seq(Pins), saved : Seq(Saved)]

\* The empty map, the idle gates and Init's registers have their types.
LEMMA InitType == Init => TypeOK
BY SettingsAssumption DEF Init, TypeOK, NotConnected, NoCall, NoJob, Phases

\* Every step keeps the variables in their types: no error path and no
\* interleaving leaves a map or a register with a value of another kind.
LEMMA NextType == TypeOK /\ CallOK /\ [Next]_vars => TypeOK'
<1> SUFFICES ASSUME TypeOK, CallOK, [Next]_vars PROVE TypeOK'
  OBVIOUS
<1>0. call \in CallType
  BY DEF TypeOK, CallType
<1>1. ASSUME NEW o \in Peripherals, NEW list \in Lists[o], ConnectReserve(o, list)
      PROVE TypeOK'
  <2>1. list \in Seq(Pins)
    BY ListsAssumption
  <2>2. call' \in CallType
    BY <1>1, <2>1 DEF ConnectReserve, CallType, Phases
  <2>3. owners' \in [Pins -> Peripherals \cup {Gpio, Free}]
    BY <1>1 DEF ConnectReserve, Reserve, TypeOK
  <2> QED BY <1>1, <2>2, <2>3 DEF ConnectReserve, TypeOK, CallType
<1>2. CASE ConnectPin
  <2>1. /\ NextPin \in Pins
        /\ call.owner \in Peripherals
    BY <1>2, SettingsAssumption DEF ConnectPin, CallOK, SettingUp
  <2>2. [pin |-> NextPin, state |-> reg[NextPin]] \in Saved
    BY <2>1 DEF Saved, TypeOK
  <2>3. call' \in CallType
    <3>1. Append(call.saved, [pin |-> NextPin, state |-> reg[NextPin]]) \in Seq(Saved)
      BY <1>0, <2>2 DEF CallType
    <3> QED BY <1>0, <1>2, <3>1 DEF ConnectPin, CallType
  <2>4. reg' \in [Pins -> Settings]
    BY <1>2, <2>1, SettingsAssumption DEF ConnectPin, TypeOK
  <2>5. UNCHANGED <<owners, connected, lines, job>>
    BY <1>2 DEF ConnectPin
  <2> QED BY <2>3, <2>4, <2>5 DEF TypeOK, CallType
<1>3. CASE ConnectFails
  <2>1. call' \in CallType
    BY <1>0, <1>3 DEF ConnectFails, CallType, Phases
  <2> QED BY <1>3, <2>1 DEF ConnectFails, TypeOK, CallType
<1>4. CASE ConnectDone
  <2>1. call.owner \in Peripherals /\ call.saved \in Seq(Saved)
    BY <1>0, <1>4 DEF ConnectDone, CallOK, SettingUp, CallType
  <2>2. connected' \in [Peripherals -> [is : BOOLEAN, list : Seq(Saved)]]
    BY <1>4, <2>1 DEF ConnectDone, Entry, TypeOK
  <2> QED BY <1>4, <2>2 DEF ConnectDone, NoCall, TypeOK, Phases
<1>5. ASSUME NEW o \in Peripherals, DisconnectBegin(o)
      PROVE TypeOK'
  <2> DEFINE saved == connected[o].list
  <2>1. saved \in Seq(Saved)
    BY DEF TypeOK
  <2>2. [i \in 1..Len(saved) |-> saved[i].pin] \in Seq(Pins)
    <3>1. \A i \in 1..Len(saved) : saved[i] \in Saved
      BY <2>1
    <3>2. \A i \in 1..Len(saved) : saved[i].pin \in Pins
      BY <3>1 DEF Saved
    <3> HIDE DEF saved
    <3> QED BY <2>1, <3>2
  <2>3. call' \in CallType
    BY <1>5, <2>1, <2>2 DEF DisconnectBegin, CallType, Phases
  <2> QED BY <1>5, <2>3 DEF DisconnectBegin, TypeOK, CallType
<1>6. CASE RestorePin
  <2>1. Head(call.saved) \in Saved /\ Tail(call.saved) \in Seq(Saved)
    BY <1>0, <1>6 DEF RestorePin, CallType
  <2>2. call' \in CallType
    BY <1>0, <1>6, <2>1 DEF RestorePin, CallType
  <2>3. reg' \in [Pins -> Settings]
    BY <1>6, <2>1 DEF RestorePin, Saved, TypeOK
  <2>4. UNCHANGED <<owners, connected, lines, job>>
    BY <1>6 DEF RestorePin
  <2> QED BY <2>2, <2>3, <2>4 DEF TypeOK, CallType
<1>7. CASE ReleasePins
  <2>1. call' \in CallType
    BY <1>0, <1>7 DEF ReleasePins, NoCall, CallType, Phases
  <2>2. owners' \in [Pins -> Peripherals \cup {Gpio, Free}]
    BY <1>7 DEF ReleasePins, Release, TypeOK
  <2> QED BY <1>7, <2>1, <2>2 DEF ReleasePins, TypeOK, CallType
<1>8. CASE EraseEntry
  <2>1. connected' \in [Peripherals -> [is : BOOLEAN, list : Seq(Saved)]]
    BY <1>0, <1>8 DEF EraseEntry, NotConnected, TypeOK, CallOK
  <2>2. call' \in CallType
    BY <1>8 DEF EraseEntry, NoCall, CallType, Phases
  <2> QED BY <1>8, <2>1, <2>2 DEF EraseEntry, TypeOK, CallType
<1>9. ASSUME NEW c \in Controllers,
             \/ \E p \in Pins : OpenReserve(c, p)
             \/ OpenLine(c)
             \/ OpenFails(c)
             \/ \E p \in Pins : ClosePin(c, p)
             \/ Destroy(c)
             \/ CloseRelease(c)
             \/ \E p \in Pins : SetPinMode(c, p)
      PROVE TypeOK'
  <2>1. ASSUME NEW p \in Pins, OpenReserve(c, p) PROVE TypeOK'
    BY <2>1 DEF OpenReserve, Reserve, TypeOK
  <2>2. CASE OpenLine(c)
    BY <2>2 DEF OpenLine, NoJob, TypeOK
  <2>3. CASE OpenFails(c)
    BY <2>3 DEF OpenFails, Release, NoJob, TypeOK
  <2>4. ASSUME NEW S, CloseLines(c, S) PROVE TypeOK'
    BY <2>4 DEF CloseLines, TypeOK
  <2>5. CASE CloseRelease(c)
    BY <2>5 DEF CloseRelease, Release, NoJob, TypeOK
  <2>6. ASSUME NEW p \in Pins, SetPinMode(c, p) PROVE TypeOK'
    BY <2>6, SettingsAssumption DEF SetPinMode, TypeOK
  <2> QED BY <1>9, <2>1, <2>2, <2>3, <2>4, <2>5, <2>6 DEF ClosePin, Destroy
<1>10. CASE UNCHANGED vars
  BY <1>10 DEF vars, TypeOK
<1> QED
  BY <1>1, <1>2, <1>3, <1>4, <1>5, <1>6, <1>7, <1>8, <1>9, <1>10 DEF Next, ConnectNext, GpioNext

-----------------------------------------------------------------------------
\* Putting the first saved pin back leaves the others saved, once each.
LEMMA SavedPinsTail ==
  ASSUME NEW saved \in Seq(Saved), saved # <<>>, Distinct(saved)
  PROVE  /\ Head(saved).pin \in SavedPins(saved)
         /\ SavedPins(Tail(saved)) = SavedPins(saved) \ {Head(saved).pin}
         /\ Distinct(Tail(saved))
<1>1. /\ Len(saved) \in Nat \ {0}
      /\ Head(saved) = saved[1]
      /\ Len(Tail(saved)) = Len(saved) - 1
      /\ \A i \in 1..(Len(saved) - 1) : Tail(saved)[i] = saved[i + 1]
  OBVIOUS
<1>2. \A i \in 1..Len(saved) : i # 1 => saved[i].pin # saved[1].pin
  BY <1>1 DEF Distinct
<1>3. Distinct(Tail(saved))
  BY <1>1 DEF Distinct
<1>4. SavedPins(Tail(saved)) \subseteq SavedPins(saved) \ {Head(saved).pin}
  BY <1>1, <1>2 DEF SavedPins
<1>5. ASSUME NEW p \in SavedPins(saved), p # Head(saved).pin
      PROVE  p \in SavedPins(Tail(saved))
  <2>1. PICK i \in 1..Len(saved) : saved[i].pin = p
    BY DEF SavedPins
  <2>2. i - 1 \in 1..(Len(saved) - 1) /\ Tail(saved)[i - 1].pin = p
    BY <1>1, <1>5, <2>1
  <2>3. \E j \in 1..Len(Tail(saved)) : p = Tail(saved)[j].pin
    BY <1>1, <2>2
  <2>4. SavedPins(Tail(saved)) = {Tail(saved)[j].pin : j \in 1..Len(Tail(saved))}
    BY DEF SavedPins
  <2> QED BY <2>3, <2>4
<1>6. Head(saved).pin \in SavedPins(saved)
  BY <1>1 DEF SavedPins
<1>7. SavedPins(saved) \ {Head(saved).pin} \subseteq SavedPins(Tail(saved))
  BY <1>5
<1> QED BY <1>3, <1>4, <1>6, <1>7

\* Initially nothing is reserved, connected or under way.
LEMMA InitInv == Init => IInv
<1> SUFFICES ASSUME Init PROVE IInv
  OBVIOUS
<1>1. TypeOK
  BY InitType
<1>2. \A o \in Peripherals : PinsHeld(o) = {}
  BY NamesAssumption DEF Init, PinsHeld, NotConnected, NoCall
<1>3. \A c \in Controllers : LinesHeld(c) = {}
  BY DEF Init, LinesHeld, NoJob
<1>4. EntriesOK /\ CallOK /\ JobsOK
  BY DEF Init, EntriesOK, CallOK, JobsOK, NotConnected, NoCall, NoJob, Distinct
<1>5. ConnectedKeepsFunction
  BY DEF Init, ConnectedKeepsFunction, NotConnected
<1> QED
  BY <1>1, <1>2, <1>3, <1>4, <1>5
     DEF Init, IInv, ConnectedStaysReserved, OneControllerPerPin, NoReservationLeaks

-----------------------------------------------------------------------------
\* The parts of the invariant that relate reservations and holders.
PinsInv == ConnectedStaysReserved /\ OneControllerPerPin /\ NoReservationLeaks

\* Only pins of the chip are held.
LEMMA HeldArePins ==
  ASSUME TypeOK
  PROVE  /\ \A o \in Peripherals : PinsHeld(o) \subseteq Pins
         /\ \A c \in Controllers : LinesHeld(c) \subseteq Pins
<1>1. \A list \in Seq(Pins) : PinSet(list) \subseteq Pins
  BY DEF PinSet
<1>2. \A saved \in Seq(Saved) : SavedPins(saved) \subseteq Pins
  <2> SUFFICES ASSUME NEW saved \in Seq(Saved), NEW i \in 1..Len(saved)
               PROVE  saved[i].pin \in Pins
    BY DEF SavedPins
  <2>1. saved[i] \in Saved
    OBVIOUS
  <2> QED BY <2>1 DEF Saved
<1>3. \A o \in Peripherals : connected[o].list \in Seq(Saved)
  BY DEF TypeOK
<1>4. call.pins \in Seq(Pins)
  BY DEF TypeOK
<1>5. \A c \in Controllers : LinesHeld(c) \subseteq Pins
  BY DEF TypeOK, LinesHeld
<1> QED BY <1>1, <1>2, <1>3, <1>4, <1>5 DEF PinsHeld

\* A pin held by a peripheral is held by nobody else.
LEMMA HeldOnce ==
  ASSUME PinsInv, NEW o \in Peripherals, NEW p \in PinsHeld(o)
  PROVE  /\ owners[p] = o
         /\ \A q \in Peripherals \ {o} : p \notin PinsHeld(q)
         /\ \A c \in Controllers : p \notin LinesHeld(c)
BY NamesAssumption DEF PinsInv, ConnectedStaysReserved, OneControllerPerPin

\* A step that changes neither the reservations nor who holds what.
LEMMA HeldUnchanged ==
  ASSUME PinsInv,
         owners' = owners,
         \A o \in Peripherals : PinsHeld(o)' = PinsHeld(o),
         \A c \in Controllers : LinesHeld(c)' = LinesHeld(c)
  PROVE  PinsInv'
BY DEF PinsInv, ConnectedStaysReserved, OneControllerPerPin, NoReservationLeaks

\* A step that reserves free pins for a peripheral, which holds them then.
LEMMA PeripheralReserves ==
  ASSUME PinsInv, TypeOK, NEW o \in Peripherals, NEW S \in SUBSET Pins,
         Reserve(o, S),
         PinsHeld(o)' = PinsHeld(o) \cup S,
         \A q \in Peripherals \ {o} : PinsHeld(q)' = PinsHeld(q),
         \A c \in Controllers : LinesHeld(c)' = LinesHeld(c)
  PROVE  PinsInv'
<1>1. \A p \in Pins : owners'[p] = IF p \in S THEN o ELSE owners[p]
  BY DEF Reserve
<1>2. \A p \in S : owners[p] = Free
  BY DEF Reserve
<1>3. ConnectedStaysReserved'
  BY <1>1, <1>2, NamesAssumption, HeldArePins DEF PinsInv, ConnectedStaysReserved
<1>4. OneControllerPerPin'
  BY <1>1, <1>2, NamesAssumption, HeldArePins DEF PinsInv, OneControllerPerPin
<1>5. NoReservationLeaks'
  BY <1>1 DEF PinsInv, NoReservationLeaks
<1> QED BY <1>3, <1>4, <1>5 DEF PinsInv

\* A step that frees pins a peripheral held.
LEMMA PeripheralReleases ==
  ASSUME PinsInv, TypeOK, NEW o \in Peripherals, NEW S \in SUBSET PinsHeld(o),
         Release(S),
         PinsHeld(o)' = PinsHeld(o) \ S,
         \A q \in Peripherals \ {o} : PinsHeld(q)' = PinsHeld(q),
         \A c \in Controllers : LinesHeld(c)' = LinesHeld(c)
  PROVE  PinsInv'
<1>1. \A p \in Pins : owners'[p] = IF p \in S THEN Free ELSE owners[p]
  BY DEF Release
<1>2. /\ \A q \in Peripherals \ {o} : PinsHeld(q) \cap S = {}
      /\ \A c \in Controllers : LinesHeld(c) \cap S = {}
  BY HeldOnce
<1>3. ConnectedStaysReserved'
  BY <1>1, <1>2, HeldArePins DEF PinsInv, ConnectedStaysReserved
<1>4. OneControllerPerPin'
  BY <1>1, <1>2, HeldArePins DEF PinsInv, OneControllerPerPin
<1>5. NoReservationLeaks'
  BY <1>1 DEF PinsInv, NoReservationLeaks
<1> QED BY <1>3, <1>4, <1>5 DEF PinsInv

\* A step that reserves free pins for a controller.
LEMMA ControllerReserves ==
  ASSUME PinsInv, TypeOK, NEW c \in Controllers, NEW S \in SUBSET Pins,
         Reserve(Gpio, S),
         LinesHeld(c)' = LinesHeld(c) \cup S,
         \A d \in Controllers \ {c} : LinesHeld(d)' = LinesHeld(d),
         \A o \in Peripherals : PinsHeld(o)' = PinsHeld(o)
  PROVE  PinsInv'
<1>1. \A p \in Pins : owners'[p] = IF p \in S THEN Gpio ELSE owners[p]
  BY DEF Reserve
<1>2. \A p \in S : owners[p] = Free
  BY DEF Reserve
<1>3. \A d \in Controllers : LinesHeld(d) \cap S = {}
  BY <1>2, NamesAssumption DEF PinsInv, OneControllerPerPin
<1>4. ConnectedStaysReserved'
  BY <1>1, <1>2, NamesAssumption, HeldArePins DEF PinsInv, ConnectedStaysReserved
<1>5. OneControllerPerPin'
  <2>1. \A d \in Controllers : \A p \in LinesHeld(d)' : owners'[p] = Gpio
    BY <1>1, HeldArePins DEF PinsInv, OneControllerPerPin
  <2>2. \A d, e \in Controllers : d # e => LinesHeld(d)' \cap LinesHeld(e)' = {}
    BY <1>3 DEF PinsInv, OneControllerPerPin
  <2> QED BY <2>1, <2>2 DEF OneControllerPerPin
<1>6. NoReservationLeaks'
  BY <1>1 DEF PinsInv, NoReservationLeaks
<1> QED BY <1>4, <1>5, <1>6 DEF PinsInv

\* A step that frees pins a controller held.
LEMMA ControllerReleases ==
  ASSUME PinsInv, TypeOK, NEW c \in Controllers, NEW S \in SUBSET LinesHeld(c),
         Release(S),
         LinesHeld(c)' = LinesHeld(c) \ S,
         \A d \in Controllers \ {c} : LinesHeld(d)' = LinesHeld(d),
         \A o \in Peripherals : PinsHeld(o)' = PinsHeld(o)
  PROVE  PinsInv'
<1>1. \A p \in Pins : owners'[p] = IF p \in S THEN Free ELSE owners[p]
  BY DEF Release
<1>2. /\ \A o \in Peripherals : PinsHeld(o) \cap S = {}
      /\ \A d \in Controllers \ {c} : LinesHeld(d) \cap S = {}
  BY HeldOnce DEF PinsInv, OneControllerPerPin
<1>3. ConnectedStaysReserved'
  BY <1>1, <1>2, HeldArePins DEF PinsInv, ConnectedStaysReserved
<1>4. OneControllerPerPin'
  BY <1>1, <1>2, HeldArePins DEF PinsInv, OneControllerPerPin
<1>5. NoReservationLeaks'
  BY <1>1 DEF PinsInv, NoReservationLeaks
<1> QED BY <1>3, <1>4, <1>5 DEF PinsInv

-----------------------------------------------------------------------------
\* What IInv adds to the types; the lemmas below show that each action keeps it.
Rest == EntriesOK /\ CallOK /\ JobsOK /\ PinsInv /\ ConnectedKeepsFunction

\* IInv is the types and Rest.
LEMMA InvParts == IInv <=> TypeOK /\ Rest
BY DEF IInv, Rest, PinsInv

\* The pins the thread inside Connect or Disconnect works on are held by its
\* owner, so by no other peripheral that is connected.
LEMMA CallPinsHeld ==
  ASSUME TypeOK, Rest, call.phase \in {"set", "restore"},
         NEW p \in PinSet(call.pins),
         NEW o \in Peripherals, connected[o].is, call.owner # o
  PROVE  p \notin SavedPins(connected[o].list)
<1>1. call.owner \in Peripherals
  BY DEF Rest, CallOK, SettingUp, Restoring
<1>2. p \in PinsHeld(call.owner)
  BY DEF PinsHeld
<1>3. SavedPins(connected[o].list) \subseteq PinsHeld(o)
  BY DEF PinsHeld
<1> QED BY <1>1, <1>2, <1>3, HeldOnce DEF Rest

\* Connect's Reserve: the pins are held from the same step on.
LEMMA ConnectReserveInv ==
  ASSUME TypeOK, Rest, TypeOK',
         NEW o \in Peripherals, NEW list \in Lists[o], ConnectReserve(o, list)
  PROVE  Rest'
<1>1. /\ list \in Seq(Pins)
      /\ \A i, j \in 1..Len(list) : list[i] = list[j] => i = j
  BY ListsAssumption
<1>2. /\ call = NoCall
      /\ call' = [phase |-> "set", owner |-> o, pins |-> list, saved |-> <<>>]
      /\ ~connected[o].is
      /\ Reserve(o, PinSet(list))
      /\ UNCHANGED <<connected, reg, lines, job>>
  BY DEF ConnectReserve
<1>3. EntriesOK' /\ JobsOK'
  BY <1>2 DEF Rest, EntriesOK, JobsOK
<1>4. CallOK'
  BY <1>1, <1>2 DEF CallOK, SettingUp
<1>5. PinsInv'
  <2>1. PinSet(list) \in SUBSET Pins
    BY <1>1 DEF PinSet
  <2>2. PinsHeld(o) = {} /\ PinsHeld(o)' = PinSet(list)
    BY <1>2, NamesAssumption DEF PinsHeld, NoCall
  <2>3. \A q \in Peripherals \ {o} : PinsHeld(q)' = PinsHeld(q)
    BY <1>2, NamesAssumption DEF PinsHeld, NoCall
  <2>4. \A c \in Controllers : LinesHeld(c)' = LinesHeld(c)
    BY <1>2 DEF LinesHeld
  <2> QED BY <1>2, <2>1, <2>2, <2>3, <2>4, PeripheralReserves DEF Rest
<1>6. ConnectedKeepsFunction'
  BY <1>2, NamesAssumption DEF Rest, ConnectedKeepsFunction, NoCall
<1> QED BY <1>3, <1>4, <1>5, <1>6 DEF Rest

\* Connect sets up the next pin, which nobody else has connected.
LEMMA ConnectPinInv ==
  ASSUME TypeOK, Rest, TypeOK', ConnectPin
  PROVE  Rest'
<1>0. call \in CallType
  BY DEF TypeOK, CallType
<1>1. /\ call.phase = "set"
      /\ Len(call.saved) < Len(call.pins)
      /\ call' = [call EXCEPT !.saved = Append(@, [pin |-> NextPin, state |-> reg[NextPin]])]
      /\ reg' = [reg EXCEPT ![NextPin] = Alternate[call.owner]]
      /\ UNCHANGED <<owners, connected, lines, job>>
  BY DEF ConnectPin
<1>2. SettingUp
  BY <1>1 DEF Rest, CallOK
<1>3. /\ call'.phase = "set"
      /\ call'.owner = call.owner
      /\ call'.pins = call.pins
      /\ call'.saved = Append(call.saved, [pin |-> NextPin, state |-> reg[NextPin]])
  BY <1>0, <1>1 DEF CallType
<1>4. /\ NextPin \in Pins
      /\ NextPin \in PinSet(call.pins)
  BY <1>0, <1>1 DEF NextPin, PinSet, CallType
<1>5. EntriesOK' /\ JobsOK'
  BY <1>1 DEF Rest, EntriesOK, JobsOK
<1>6. CallOK'
  <2>1. /\ Len(call.saved) \in Nat
        /\ Len(call.pins) \in Nat
        /\ Len(call'.saved) = Len(call.saved) + 1
        /\ \A i \in 1..Len(call.saved) : call'.saved[i] = call.saved[i]
        /\ call'.saved[Len(call.saved) + 1] = [pin |-> NextPin, state |-> reg[NextPin]]
    BY <1>0, <1>3 DEF CallType
  <2>2. reg'[NextPin] = Alternate[call.owner] /\ \A p \in Pins \ {NextPin} : reg'[p] = reg[p]
    BY <1>1, <1>4 DEF TypeOK
  <2>3. \A i \in 1..Len(call.pins) : call.pins[i] \in Pins
    BY <1>0 DEF CallType
  <2>4. ASSUME NEW i \in 1..Len(call'.saved)
        PROVE  call'.saved[i].pin = call.pins[i] /\ reg'[call.pins[i]] = Alternate[call.owner]
    <3>1. CASE i = Len(call.saved) + 1
      BY <2>1, <2>2, <3>1 DEF NextPin
    <3>2. CASE i \in 1..Len(call.saved)
      BY <1>1, <1>2, <2>1, <2>2, <2>3, <3>2 DEF SettingUp
    <3> QED BY <2>1, <3>1, <3>2
  <2>5. Len(call'.saved) <= Len(call.pins)
    BY <1>1, <2>1
  <2> QED BY <1>1, <1>2, <1>3, <2>4, <2>5 DEF CallOK, SettingUp
<1>7. PinsInv'
  <2>1. \A q \in Peripherals : PinsHeld(q)' = PinsHeld(q)
    BY <1>1, <1>3 DEF PinsHeld
  <2>2. \A c \in Controllers : LinesHeld(c)' = LinesHeld(c)
    BY <1>1 DEF LinesHeld
  <2> QED BY <1>1, <2>1, <2>2, HeldUnchanged DEF Rest
<1>8. ConnectedKeepsFunction'
  <2> SUFFICES ASSUME NEW o \in Peripherals, connected[o].is, call.owner # o,
                      NEW i \in 1..Len(connected[o].list)
               PROVE  reg'[connected[o].list[i].pin] = Alternate[o]
    BY <1>1, <1>3 DEF ConnectedKeepsFunction
  <2>1. reg[connected[o].list[i].pin] = Alternate[o]
    BY DEF Rest, ConnectedKeepsFunction
  <2>2. connected[o].list[i].pin # NextPin
    BY <1>1, <1>4, CallPinsHeld DEF SavedPins
  <2> QED BY <1>1, <2>1, <2>2 DEF TypeOK
<1> QED BY <1>5, <1>6, <1>7, <1>8 DEF Rest

\* Save throws: what was set up so far is about to be put back.
LEMMA ConnectFailsInv ==
  ASSUME TypeOK, Rest, TypeOK', ConnectFails
  PROVE  Rest'
<1>0. call \in CallType
  BY DEF TypeOK, CallType
<1>1. /\ call.phase = "set"
      /\ Len(call.saved) < Len(call.pins)
      /\ call' = [call EXCEPT !.phase = "restore"]
      /\ UNCHANGED <<owners, connected, reg, lines, job>>
  BY DEF ConnectFails
<1>2. SettingUp
  BY <1>1 DEF Rest, CallOK
<1>3. /\ call'.phase = "restore"
      /\ call'.owner = call.owner
      /\ call'.pins = call.pins
      /\ call'.saved = call.saved
  BY <1>0, <1>1 DEF CallType
<1>4. EntriesOK' /\ JobsOK'
  BY <1>1 DEF Rest, EntriesOK, JobsOK
<1>5. CallOK'
  <2>1. Len(call.saved) \in Nat /\ Len(call.pins) \in Nat
    BY <1>0 DEF CallType
  <2>2. Distinct(call.saved)
    BY <1>1, <1>2, <2>1 DEF SettingUp, Distinct
  <2>3. SavedPins(call.saved) \subseteq PinSet(call.pins)
    BY <1>1, <1>2, <2>1 DEF SettingUp, SavedPins, PinSet
  <2>4. Restoring'
    BY <1>1, <1>2, <1>3, <2>2, <2>3 DEF Restoring, SettingUp, Distinct, SavedPins, PinSet
  <2> QED BY <1>3, <2>4 DEF CallOK
<1>6. PinsInv'
  <2>1. \A q \in Peripherals : PinsHeld(q)' = PinsHeld(q)
    BY <1>1, <1>3 DEF PinsHeld
  <2>2. \A c \in Controllers : LinesHeld(c)' = LinesHeld(c)
    BY <1>1 DEF LinesHeld
  <2> QED BY <1>1, <2>1, <2>2, HeldUnchanged DEF Rest
<1>7. ConnectedKeepsFunction'
  BY <1>1, <1>3 DEF Rest, ConnectedKeepsFunction
<1> QED BY <1>4, <1>5, <1>6, <1>7 DEF Rest

\* Connect is done: the list it built becomes the owner's entry.
LEMMA ConnectDoneInv ==
  ASSUME TypeOK, Rest, TypeOK', ConnectDone
  PROVE  Rest'
<1>0. call \in CallType
  BY DEF TypeOK, CallType
<1>o. PICK o : o = call.owner
  OBVIOUS
<1>1. /\ call.phase = "set"
      /\ Len(call.saved) = Len(call.pins)
      /\ connected' = [connected EXCEPT ![o] = Entry(call.saved)]
      /\ call' = NoCall
      /\ UNCHANGED <<owners, reg, lines, job>>
  BY <1>o DEF ConnectDone
<1>2. SettingUp
  BY <1>1 DEF Rest, CallOK
<1>3. /\ o \in Peripherals
      /\ connected'[o] = Entry(call.saved)
      /\ \A q \in Peripherals \ {o} : connected'[q] = connected[q]
  BY <1>o, <1>1, <1>2 DEF SettingUp, TypeOK
<1>4. EntriesOK'
  <2>1. Distinct(call.saved)
    BY <1>0, <1>1, <1>2 DEF SettingUp, Distinct, CallType
  <2>2. \A q \in Peripherals : Distinct(connected'[q].list)
    BY <1>3, <2>1 DEF Rest, EntriesOK, Entry
  <2>3. \A q \in Peripherals : ~connected'[q].is => connected'[q].list = <<>>
    BY <1>3 DEF Rest, EntriesOK, Entry
  <2> QED BY <2>2, <2>3 DEF EntriesOK, Distinct
<1>5. CallOK' /\ JobsOK'
  BY <1>1 DEF Rest, CallOK, JobsOK, NoCall
<1>6. PinsInv'
  <2>1. SavedPins(call.saved) = PinSet(call.pins)
    BY <1>0, <1>1, <1>2 DEF SettingUp, SavedPins, PinSet, CallType
  <2>2. PinsHeld(o) = PinSet(call.pins)
    BY <1>o, <1>1, <1>2, <1>3 DEF SettingUp, PinsHeld
  <2>3. connected'[o].is /\ connected'[o].list = call.saved
    BY <1>3 DEF Entry
  <2>4. call'.owner = Absent /\ call'.phase = "idle"
    BY <1>1 DEF NoCall
  <2>5. PinsHeld(o)' = SavedPins(call.saved)
    <3>1. PinsHeld(o)' = SavedPins(connected[o].list)'
      BY <2>3, <2>4, <1>3, NamesAssumption DEF PinsHeld
    <3> QED BY <2>3, <3>1 DEF SavedPins
  <2>6. ASSUME NEW q \in Peripherals \ {o}
        PROVE  PinsHeld(q)' = PinsHeld(q)
    BY <1>o, <1>1, <1>3, <2>4, NamesAssumption DEF PinsHeld, SavedPins
  <2>7. \A c \in Controllers : LinesHeld(c)' = LinesHeld(c)
    BY <1>1 DEF LinesHeld
  <2> QED BY <1>1, <2>1, <2>2, <2>5, <2>6, <2>7, <1>3, HeldUnchanged DEF Rest
<1>7. ConnectedKeepsFunction'
  <2> SUFFICES ASSUME NEW q \in Peripherals, connected'[q].is,
                      NEW i \in 1..Len(connected'[q].list)
               PROVE  reg[connected'[q].list[i].pin] = Alternate[q]
    BY <1>1 DEF ConnectedKeepsFunction
  <2>1. CASE q = o
    BY <1>o, <1>0, <1>1, <1>2, <1>3, <2>1 DEF SettingUp, Entry, CallType
  <2>2. CASE q # o
    BY <1>o, <1>3, <2>2 DEF Rest, ConnectedKeepsFunction
  <2> QED BY <2>1, <2>2
<1> QED BY <1>4, <1>5, <1>6, <1>7 DEF Rest

-----------------------------------------------------------------------------
\* Disconnect starts from the owner's entry: what it restores and releases are
\* the pins the owner has.
LEMMA DisconnectBeginInv ==
  ASSUME TypeOK, Rest, TypeOK', NEW o \in Peripherals, DisconnectBegin(o)
  PROVE  Rest'
<1>s. PICK saved : saved = connected[o].list
  OBVIOUS
<1>1. /\ call = NoCall
      /\ connected[o].is
      /\ call' = [phase |-> "restore", owner |-> o,
                  pins |-> [i \in 1..Len(saved) |-> saved[i].pin], saved |-> saved]
      /\ UNCHANGED <<owners, connected, reg, lines, job>>
  BY <1>s DEF DisconnectBegin
<1>2. saved \in Seq(Saved) /\ Distinct(saved)
  BY <1>s DEF TypeOK, Rest, EntriesOK
<1>3. PinSet(call'.pins) = SavedPins(saved)
  <2>1. Len(saved) \in Nat
    BY <1>2
  <2>2. Len([i \in 1..Len(saved) |-> saved[i].pin]) = Len(saved)
    BY <2>1
  <2>3. PinSet([i \in 1..Len(saved) |-> saved[i].pin])
          = {[i \in 1..Len(saved) |-> saved[i].pin][j] : j \in 1..Len(saved)}
    BY <2>2 DEF PinSet
  <2> QED BY <1>1, <2>3 DEF SavedPins
<1>4. EntriesOK' /\ JobsOK'
  BY <1>1 DEF Rest, EntriesOK, JobsOK
<1>5. CallOK'
  <2>1. Restoring'
    BY <1>s, <1>1, <1>2, <1>3 DEF Restoring, Distinct, SavedPins, PinSet
  <2> QED BY <1>1, <2>1 DEF CallOK
<1>6. PinsInv'
  <2>1. ASSUME NEW q \in Peripherals
        PROVE  PinsHeld(q)' = PinsHeld(q)
    <3>1. /\ PinsHeld(q) = IF connected[q].is THEN SavedPins(connected[q].list) ELSE {}
          /\ SavedPins(connected[q].list)' = SavedPins(connected[q].list)
          /\ PinSet(call.pins)' = PinSet(call'.pins)
      BY <1>1, NamesAssumption DEF PinsHeld, NoCall, SavedPins, PinSet
    <3>2. PinsHeld(q)' = (IF connected[q].is THEN SavedPins(connected[q].list) ELSE {})
                           \cup (IF o = q THEN PinSet(call'.pins) ELSE {})
      BY <1>1, <3>1 DEF PinsHeld
    <3> QED BY <1>s, <1>1, <1>3, <3>1, <3>2
  <2>2. \A c \in Controllers : LinesHeld(c)' = LinesHeld(c)
    BY <1>1 DEF LinesHeld
  <2> QED BY <1>1, <2>1, <2>2, HeldUnchanged DEF Rest
<1>7. ConnectedKeepsFunction'
  BY <1>1, NamesAssumption DEF Rest, ConnectedKeepsFunction, NoCall
<1> QED BY <1>4, <1>5, <1>6, <1>7 DEF Rest

\* Putting a pin back disturbs nobody: its owner still has it reserved.
LEMMA RestorePinInv ==
  ASSUME TypeOK, Rest, TypeOK', RestorePin
  PROVE  Rest'
<1>0. call \in CallType
  BY DEF TypeOK, CallType
<1>s. PICK s : s = Head(call.saved)
  OBVIOUS
<1>1. /\ call.phase = "restore"
      /\ call.saved # <<>>
      /\ reg' = [reg EXCEPT ![s.pin] = s.state]
      /\ call' = [call EXCEPT !.saved = Tail(@)]
      /\ UNCHANGED <<owners, connected, lines, job>>
  BY <1>s DEF RestorePin
<1>2. Restoring
  BY <1>1 DEF Rest, CallOK
<1>3. /\ call'.phase = "restore"
      /\ call'.owner = call.owner
      /\ call'.pins = call.pins
      /\ call'.saved = Tail(call.saved)
  BY <1>0, <1>1 DEF CallType
<1>4. /\ s.pin \in SavedPins(call.saved)
      /\ SavedPins(Tail(call.saved)) \subseteq SavedPins(call.saved)
      /\ Distinct(Tail(call.saved))
  BY <1>0, <1>s, <1>1, <1>2, SavedPinsTail DEF Restoring, CallType
<1>5. s.pin \in PinSet(call.pins)
  BY <1>2, <1>4 DEF Restoring
<1>6. EntriesOK' /\ JobsOK'
  BY <1>1 DEF Rest, EntriesOK, JobsOK
<1>7. CallOK'
  <2>1. Distinct(call'.saved)
    BY <1>3, <1>4
  <2>2. SavedPins(call'.saved) \subseteq PinSet(call.pins)
    BY <1>2, <1>3, <1>4 DEF Restoring
  <2>3. connected'[call'.owner].is
          => SavedPins(connected'[call'.owner].list) = PinSet(call'.pins)
    BY <1>1, <1>2, <1>3 DEF Restoring
  <2>4. Restoring'
    BY <1>2, <1>3, <2>1, <2>2, <2>3 DEF Restoring
  <2> QED BY <1>3, <2>4 DEF CallOK
<1>8. PinsInv'
  <2>1. \A q \in Peripherals : PinsHeld(q)' = PinsHeld(q)
    BY <1>1, <1>3 DEF PinsHeld
  <2>2. \A c \in Controllers : LinesHeld(c)' = LinesHeld(c)
    BY <1>1 DEF LinesHeld
  <2> QED BY <1>1, <2>1, <2>2, HeldUnchanged DEF Rest
<1>9. ConnectedKeepsFunction'
  <2> SUFFICES ASSUME NEW o \in Peripherals, connected[o].is, call.owner # o,
                      NEW i \in 1..Len(connected[o].list)
               PROVE  reg'[connected[o].list[i].pin] = Alternate[o]
    BY <1>1, <1>3 DEF ConnectedKeepsFunction
  <2>1. reg[connected[o].list[i].pin] = Alternate[o]
    BY DEF Rest, ConnectedKeepsFunction
  <2>2. connected[o].list[i].pin # s.pin
    BY <1>1, <1>5, CallPinsHeld DEF SavedPins
  <2> QED BY <1>1, <2>1, <2>2 DEF TypeOK
<1> QED BY <1>6, <1>7, <1>8, <1>9 DEF Rest

\* Release after a Disconnect or a failed Connect frees exactly what the owner
\* held.
LEMMA ReleasePinsInv ==
  ASSUME TypeOK, Rest, TypeOK', ReleasePins
  PROVE  Rest'
<1>0. call \in CallType
  BY DEF TypeOK, CallType
<1>o. PICK o : o = call.owner
  OBVIOUS
<1>s. PICK S : S = PinSet(call.pins)
  OBVIOUS
<1>1. /\ call.phase = "restore"
      /\ call.saved = <<>>
      /\ Release(S)
      /\ call' = IF connected[o].is THEN [call EXCEPT !.phase = "erase"] ELSE NoCall
      /\ UNCHANGED <<connected, reg, lines, job>>
  BY <1>o, <1>s DEF ReleasePins
<1>2. Restoring /\ o \in Peripherals
  BY <1>o, <1>1 DEF Rest, CallOK, Restoring
<1>3. \/ connected[o].is /\ call'.phase = "erase" /\ call'.owner = o /\ call'.saved = <<>>
      \/ ~connected[o].is /\ call' = NoCall
  BY <1>0, <1>o, <1>1 DEF CallType
<1>4. EntriesOK' /\ JobsOK'
  BY <1>1 DEF Rest, EntriesOK, JobsOK
<1>5. CallOK'
  BY <1>1, <1>2, <1>3 DEF CallOK, NoCall
<1>6. PinsInv'
  <2>1. PinsHeld(o) = S
    BY <1>o, <1>s, <1>1, <1>2 DEF Restoring, PinsHeld
  <2>2. PinsHeld(o)' = {}
    BY <1>1, <1>2, <1>3, NamesAssumption DEF PinsHeld, NoCall
  <2>3. ASSUME NEW q \in Peripherals \ {o} PROVE PinsHeld(q)' = PinsHeld(q)
    <3>1. call.owner # q /\ call'.owner # q
      BY <1>o, <1>3, NamesAssumption DEF NoCall
    <3> QED BY <1>1, <3>1 DEF PinsHeld, SavedPins
  <2>4. \A c \in Controllers : LinesHeld(c)' = LinesHeld(c)
    BY <1>1 DEF LinesHeld
  <2> QED BY <1>1, <1>2, <2>1, <2>2, <2>3, <2>4, PeripheralReleases DEF Rest
<1>7. ConnectedKeepsFunction'
  BY <1>o, <1>1, <1>3 DEF Rest, ConnectedKeepsFunction, NoCall
<1> QED BY <1>4, <1>5, <1>6, <1>7 DEF Rest

\* The entry goes when its pins are free already.
LEMMA EraseEntryInv ==
  ASSUME TypeOK, Rest, TypeOK', EraseEntry
  PROVE  Rest'
<1>o. PICK o : o = call.owner
  OBVIOUS
<1>1. /\ call.phase = "erase"
      /\ connected' = [connected EXCEPT ![o] = NotConnected]
      /\ call' = NoCall
      /\ UNCHANGED <<owners, reg, lines, job>>
  BY <1>o DEF EraseEntry
<1>2. o \in Peripherals
  BY <1>o, <1>1 DEF Rest, CallOK
<1>3. /\ connected'[o] = NotConnected
      /\ \A q \in Peripherals \ {o} : connected'[q] = connected[q]
  BY <1>1, <1>2 DEF TypeOK
<1>4. EntriesOK'
  BY <1>3 DEF Rest, EntriesOK, NotConnected, Distinct
<1>5. CallOK' /\ JobsOK'
  BY <1>1 DEF Rest, CallOK, JobsOK, NoCall
<1>6. PinsInv'
  <2>1. PinsHeld(o) = {} /\ PinsHeld(o)' = {}
    BY <1>o, <1>1, <1>2, <1>3, NamesAssumption DEF PinsHeld, NoCall, NotConnected
  <2>2. ASSUME NEW q \in Peripherals \ {o} PROVE PinsHeld(q)' = PinsHeld(q)
    BY <1>o, <1>1, <1>3, NamesAssumption DEF PinsHeld, NoCall, SavedPins
  <2>3. \A c \in Controllers : LinesHeld(c)' = LinesHeld(c)
    BY <1>1 DEF LinesHeld
  <2> QED BY <1>1, <1>2, <2>1, <2>2, <2>3, HeldUnchanged DEF Rest
<1>7. ConnectedKeepsFunction'
  BY <1>o, <1>1, <1>3 DEF Rest, ConnectedKeepsFunction, NotConnected
<1> QED BY <1>4, <1>5, <1>6, <1>7 DEF Rest

-----------------------------------------------------------------------------
\* A controller's steps change neither what peripherals hold, nor the registers
\* of pins that are not its own.
LEMMA PeripheralsUntouched ==
  ASSUME Rest, UNCHANGED <<connected, call>>,
         \/ UNCHANGED reg
         \/ \E p \in Pins : \E s : /\ \A o \in Peripherals : p \notin PinsHeld(o)
                                   /\ reg' = [reg EXCEPT ![p] = s],
         TypeOK
  PROVE  /\ EntriesOK' /\ CallOK' /\ ConnectedKeepsFunction'
         /\ \A o \in Peripherals : PinsHeld(o)' = PinsHeld(o)
<1>1. EntriesOK'
  BY DEF Rest, EntriesOK
<1>2. \A o \in Peripherals : PinsHeld(o)' = PinsHeld(o)
  BY DEF PinsHeld
<1>3. CASE UNCHANGED reg
  BY <1>1, <1>2, <1>3 DEF Rest, CallOK, SettingUp, Restoring, ConnectedKeepsFunction, SavedPins
<1>4. ASSUME NEW p \in Pins, NEW s, \A o \in Peripherals : p \notin PinsHeld(o),
             reg' = [reg EXCEPT ![p] = s]
      PROVE  CallOK' /\ ConnectedKeepsFunction'
  <2>1. \A q \in Pins \ {p} : reg'[q] = reg[q]
    BY <1>4 DEF TypeOK
  <2>2. CallOK'
    <3>1. CASE call.phase = "set"
      <4>1. SettingUp /\ call.pins \in Seq(Pins)
        BY <3>1 DEF Rest, CallOK, TypeOK
      <4>2. \A i \in 1..Len(call.pins) : call.pins[i] \in PinsHeld(call.owner)
        BY <3>1 DEF PinsHeld, PinSet
      <4>3. \A i \in 1..Len(call.pins) : call.pins[i] \in Pins \ {p}
        BY <1>4, <4>1, <4>2 DEF SettingUp
      <4>4. Len(call.saved) \in Nat /\ Len(call.pins) \in Nat
        BY DEF TypeOK
      <4> QED BY <2>1, <3>1, <4>1, <4>3, <4>4 DEF CallOK, SettingUp
    <3>2. CASE call.phase # "set"
      BY <3>2 DEF Rest, CallOK, Restoring, SavedPins
    <3> QED BY <3>1, <3>2
  <2>3. ConnectedKeepsFunction'
    <3> SUFFICES ASSUME NEW o \in Peripherals, connected[o].is, call.owner # o,
                        NEW i \in 1..Len(connected[o].list)
                 PROVE  reg'[connected[o].list[i].pin] = Alternate[o]
      BY DEF ConnectedKeepsFunction
    <3>1. reg[connected[o].list[i].pin] = Alternate[o]
      BY DEF Rest, ConnectedKeepsFunction
    <3>2. connected[o].list[i].pin \in PinsHeld(o)
      BY DEF PinsHeld, SavedPins
    <3>3. PinsHeld(o) \subseteq Pins
      BY HeldArePins
    <3> QED BY <1>4, <2>1, <3>1, <3>2, <3>3
  <2> QED BY <2>2, <2>3
<1> QED BY <1>1, <1>2, <1>3, <1>4

\* Every step of a controller keeps Rest.
LEMMA GpioInv ==
  ASSUME TypeOK, Rest, TypeOK', GpioNext
  PROVE  Rest'
<1>c. PICK c \in Controllers :
        \/ \E p \in Pins : OpenReserve(c, p)
        \/ OpenLine(c)
        \/ OpenFails(c)
        \/ \E p \in Pins : ClosePin(c, p)
        \/ Destroy(c)
        \/ CloseRelease(c)
        \/ \E p \in Pins : SetPinMode(c, p)
  BY DEF GpioNext
<1>0. job \in [Controllers -> [kind : {"idle", "open", "close"}, pins : SUBSET Pins]]
  BY DEF TypeOK
<1>1. ASSUME NEW p \in Pins, OpenReserve(c, p) PROVE Rest'
  <2>1. /\ job[c] = NoJob
        /\ p \notin lines[c]
        /\ Reserve(Gpio, {p})
        /\ job' = [job EXCEPT ![c] = [kind |-> "open", pins |-> {p}]]
        /\ UNCHANGED <<connected, reg, call, lines>>
    BY <1>1 DEF OpenReserve
  <2>2. JobsOK'
    BY <1>0, <2>1 DEF Rest, JobsOK
  <2>3. LinesHeld(c)' = LinesHeld(c) \cup {p}
    BY <1>0, <2>1 DEF LinesHeld, NoJob
  <2>4. \A d \in Controllers \ {c} : LinesHeld(d)' = LinesHeld(d)
    BY <1>0, <2>1 DEF LinesHeld
  <2> QED BY <2>1, <2>2, <2>3, <2>4, PeripheralsUntouched, ControllerReserves DEF Rest
<1>2. CASE OpenLine(c)
  <2>1. /\ lines' = [lines EXCEPT ![c] = @ \cup job[c].pins]
        /\ job' = [job EXCEPT ![c] = NoJob]
        /\ UNCHANGED <<owners, connected, reg, call>>
    BY <1>2 DEF OpenLine
  <2>2. JobsOK'
    BY <1>0, <2>1 DEF Rest, JobsOK, NoJob, TypeOK
  <2>3. \A d \in Controllers : LinesHeld(d)' = LinesHeld(d)
    BY <1>0, <2>1 DEF LinesHeld, NoJob, TypeOK
  <2> QED BY <2>1, <2>2, <2>3, PeripheralsUntouched, HeldUnchanged DEF Rest
<1>3. ASSUME job[c].pins \cap lines[c] = {}, Release(job[c].pins),
             job' = [job EXCEPT ![c] = NoJob],
             UNCHANGED <<connected, reg, call, lines>>
      PROVE  Rest'
  <2>1. JobsOK'
    BY <1>0, <1>3 DEF Rest, JobsOK, NoJob
  <2>2. /\ LinesHeld(c)' = LinesHeld(c) \ job[c].pins
        /\ job[c].pins \in SUBSET LinesHeld(c)
    BY <1>0, <1>3 DEF LinesHeld, NoJob
  <2>3. \A d \in Controllers \ {c} : LinesHeld(d)' = LinesHeld(d)
    BY <1>0, <1>3 DEF LinesHeld
  <2> QED BY <1>3, <2>1, <2>2, <2>3, PeripheralsUntouched, ControllerReleases DEF Rest
<1>4. CASE OpenFails(c) \/ CloseRelease(c)
  BY <1>3, <1>4 DEF OpenFails, CloseRelease, Rest, JobsOK
<1>5. ASSUME NEW S, CloseLines(c, S) PROVE Rest'
  <2>1. /\ job[c] = NoJob
        /\ S \subseteq lines[c]
        /\ lines' = [lines EXCEPT ![c] = @ \ S]
        /\ job' = [job EXCEPT ![c] = [kind |-> "close", pins |-> S]]
        /\ UNCHANGED <<owners, connected, reg, call>>
    BY <1>5 DEF CloseLines
  <2>2. JobsOK'
    BY <1>0, <2>1 DEF Rest, JobsOK, TypeOK
  <2>3. \A d \in Controllers : LinesHeld(d)' = LinesHeld(d)
    BY <1>0, <2>1 DEF LinesHeld, NoJob, TypeOK
  <2> QED BY <2>1, <2>2, <2>3, PeripheralsUntouched, HeldUnchanged DEF Rest
<1>6. ASSUME NEW p \in Pins, SetPinMode(c, p) PROVE Rest'
  <2>1. /\ p \in lines[c]
        /\ \E s \in GpioSettings : reg' = [reg EXCEPT ![p] = s]
        /\ UNCHANGED <<owners, connected, call, lines, job>>
    BY <1>6 DEF SetPinMode
  <2>2. \A o \in Peripherals : p \notin PinsHeld(o)
    BY <2>1, HeldOnce DEF LinesHeld, Rest
  <2>3. JobsOK' /\ \A d \in Controllers : LinesHeld(d)' = LinesHeld(d)
    BY <2>1 DEF Rest, JobsOK, LinesHeld
  <2> QED BY <2>1, <2>2, <2>3, PeripheralsUntouched, HeldUnchanged DEF Rest
<1> QED BY <1>c, <1>1, <1>2, <1>4, <1>5, <1>6 DEF ClosePin, Destroy

-----------------------------------------------------------------------------
\* Rest only reads the state, so a step that changes nothing keeps it.
LEMMA StutterInv ==
  ASSUME TypeOK, Rest, UNCHANGED vars
  PROVE  Rest'
<1>1. UNCHANGED <<owners, connected, reg, call, lines, job>>
  BY DEF vars
<1>2. JobsOK' /\ \A c \in Controllers : LinesHeld(c)' = LinesHeld(c)
  BY <1>1 DEF Rest, JobsOK, LinesHeld
<1> QED BY <1>1, <1>2, PeripheralsUntouched, HeldUnchanged DEF Rest

\* The invariant is inductive: one lemma per action above.
LEMMA NextInv == IInv /\ [Next]_vars => IInv'
<1> SUFFICES ASSUME TypeOK, Rest, [Next]_vars PROVE TypeOK' /\ Rest'
  BY InvParts DEF IInv, Rest, PinsInv
<1>1. TypeOK'
  BY NextType DEF Rest
<1> QED
  BY <1>1, ConnectReserveInv, ConnectPinInv, ConnectFailsInv, ConnectDoneInv,
     DisconnectBeginInv, RestorePinInv, ReleasePinsInv, EraseEntryInv, GpioInv, StutterInv
     DEF Next, ConnectNext

\* The inductive invariant holds in every reachable state.
THEOREM Invariant == Spec => []IInv
BY InitInv, NextInv, PTL DEF Spec

\* The maps, registers, lists and locks keep their types.
THEOREM TypeCorrect == Spec => []TypeOK
BY Invariant, PTL DEF IInv

\* A connected pin stays reserved for its peripheral, although Release asks
\* nobody (PinReservations.cpp:29-34).
THEOREM ReservedUntilDisconnect == Spec => []ConnectedStaysReserved
BY Invariant, PTL DEF IInv

\* Controllers share one owner name (Gpio.cpp:23), and never a pin.
THEOREM ControllersExclude == Spec => []OneControllerPerPin
BY Invariant, PTL DEF IInv

\* No failed or finished call leaves a pin reserved that nobody accounts for.
THEOREM NothingLeaks == Spec => []NoReservationLeaks
BY Invariant, PTL DEF IInv

\* Between its Connect and its Disconnect a peripheral's pins stay as Connect
\* set them up.
THEOREM FunctionsStay == Spec => []ConnectedKeepsFunction
BY Invariant, PTL DEF IInv

-----------------------------------------------------------------------------
\* The refinement.  SavedOf is where FoundOf looks for what an owner saved.
SavedOf(o) == IF call.owner = o THEN call.saved ELSE connected[o].list

\* What HolderOf and FoundOf come to in a state that satisfies IInv.
HolderFacts == \A p \in Pins :
  /\ owners[p] # Gpio => HolderOf(p) = owners[p]
  /\ owners[p] = Gpio => \E c \in Controllers : p \in LinesHeld(c)
  /\ \A c \in Controllers : p \in LinesHeld(c) => HolderOf(p) = c

FoundFacts == \A p \in Pins :
  /\ owners[p] \notin Peripherals => FoundOf(p) = Unknown
  /\ owners[p] \in Peripherals =>
       /\ p \in PinsHeld(owners[p])
       /\ p \notin SavedPins(SavedOf(owners[p])) => FoundOf(p) = reg[p]
       /\ \A i \in 1..Len(SavedOf(owners[p])) :
            SavedOf(owners[p])[i].pin = p => FoundOf(p) = SavedOf(owners[p])[i].state

\* A pin reserved as "GPIO" has exactly one controller.
LEMMA HolderFactsHold == IInv => HolderFacts
<1> SUFFICES ASSUME IInv, NEW p \in Pins
             PROVE  /\ owners[p] # Gpio => HolderOf(p) = owners[p]
                    /\ owners[p] = Gpio => \E c \in Controllers : p \in LinesHeld(c)
                    /\ \A c \in Controllers : p \in LinesHeld(c) => HolderOf(p) = c
  BY DEF HolderFacts
<1>1. owners[p] # Gpio => HolderOf(p) = owners[p]
  BY DEF HolderOf
<1>2. owners[p] = Gpio => \E c \in Controllers : p \in LinesHeld(c)
  BY NamesAssumption DEF IInv, NoReservationLeaks, ConnectedStaysReserved
<1>3. ASSUME NEW c \in Controllers, p \in LinesHeld(c) PROVE HolderOf(p) = c
  <2>1. /\ owners[p] = Gpio
        /\ \A d \in Controllers : p \in LinesHeld(d) => d = c
    BY <1>3 DEF IInv, OneControllerPerPin
  <2>2. HolderOf(p) = CHOOSE d \in Controllers : p \in LinesHeld(d)
    BY <2>1 DEF HolderOf
  <2> QED BY <1>3, <2>1, <2>2
<1> QED BY <1>1, <1>2, <1>3

\* What an owner saved names each pin once.
LEMMA SavedOfDistinct ==
  ASSUME IInv, NEW o \in Peripherals
  PROVE  SavedOf(o) \in Seq(Saved) /\ Distinct(SavedOf(o))
<1>1. connected[o].list \in Seq(Saved) /\ Distinct(connected[o].list)
  BY DEF IInv, TypeOK, EntriesOK
<1>2. call.saved \in Seq(Saved)
  BY DEF IInv, TypeOK
<1>3. CASE call.owner = o
  <2>1. CASE call.phase = "set"
    <3>1. SettingUp
      BY <2>1 DEF IInv, CallOK
    <3>2. Len(call.saved) \in Nat /\ Len(call.pins) \in Nat
      BY DEF IInv, TypeOK
    <3>3. Distinct(call.saved)
      BY <3>1, <3>2 DEF SettingUp, Distinct
    <3> QED BY <1>2, <1>3, <3>3 DEF SavedOf
  <2>2. CASE call.phase = "restore"
    BY <1>2, <1>3, <2>2 DEF SavedOf, IInv, CallOK, Restoring
  <2>3. CASE call.phase = "erase"
    <3>1. call.saved = <<>>
      BY <2>3 DEF IInv, CallOK
    <3> QED BY <1>3, <3>1 DEF SavedOf, Distinct
  <2>4. call.phase # "idle"
    BY <1>3, NamesAssumption DEF IInv, CallOK, NoCall
  <2> QED BY <2>1, <2>2, <2>3, <2>4 DEF IInv, TypeOK, Phases
<1> QED BY <1>1, <1>3 DEF SavedOf

\* A peripheral's pin is found as it was saved or, not saved, as it is.
LEMMA FoundFactsHold == IInv => FoundFacts
<1> SUFFICES ASSUME IInv, NEW p \in Pins
             PROVE  /\ owners[p] \notin Peripherals => FoundOf(p) = Unknown
                    /\ owners[p] \in Peripherals =>
                         /\ p \in PinsHeld(owners[p])
                         /\ p \notin SavedPins(SavedOf(owners[p])) => FoundOf(p) = reg[p]
                         /\ \A i \in 1..Len(SavedOf(owners[p])) :
                              SavedOf(owners[p])[i].pin = p
                                => FoundOf(p) = SavedOf(owners[p])[i].state
  BY DEF FoundFacts
<1>1. owners[p] \notin Peripherals => FoundOf(p) = Unknown
  BY DEF FoundOf
<1>2. ASSUME owners[p] \in Peripherals PROVE p \in PinsHeld(owners[p])
  BY <1>2, NamesAssumption
     DEF IInv, NoReservationLeaks, ConnectedStaysReserved, OneControllerPerPin
<1>3. ASSUME owners[p] \in Peripherals, p \notin SavedPins(SavedOf(owners[p]))
      PROVE  FoundOf(p) = reg[p]
  BY <1>3 DEF FoundOf, SavedOf
<1>4. ASSUME owners[p] \in Peripherals, NEW i \in 1..Len(SavedOf(owners[p])),
             SavedOf(owners[p])[i].pin = p
      PROVE  FoundOf(p) = SavedOf(owners[p])[i].state
  <2>1. PICK saved : saved = SavedOf(owners[p])
    OBVIOUS
  <2>2. p \in SavedPins(saved)
    BY <1>4, <2>1 DEF SavedPins
  <2>3. FoundOf(p) = SavedState(saved, p)
    BY <1>4, <2>1, <2>2 DEF FoundOf, SavedOf
  <2>4. \A j \in 1..Len(saved) : saved[j].pin = p => j = i
    BY <1>4, <2>1, SavedOfDistinct DEF Distinct
  <2>5. (CHOOSE j \in 1..Len(saved) : saved[j].pin = p) = i
    BY <1>4, <2>1, <2>4
  <2> QED BY <2>1, <2>3, <2>5 DEF SavedState
<1> QED BY <1>1, <1>2, <1>3, <1>4

\* The same facts after a step that keeps IInv.
LEMMA FactsHold == IInv /\ IInv' => HolderFacts /\ HolderFacts' /\ FoundFacts /\ FoundFacts'
BY HolderFactsHold, FoundFactsHold, PTL

\* From facts about each pin to the steps of PinOwnership: a holder takes pins.
LEMMA TakeStep ==
  ASSUME NEW h \in Peripherals \cup Controllers, NEW S \in SUBSET Pins,
         \A p \in S : HolderOf(p) = Free,
         \A p \in Pins : HolderOf(p)' = IF p \in S THEN h ELSE HolderOf(p),
         \A p \in Pins : FoundOf(p)' = IF p \in S /\ h \in Peripherals THEN reg[p] ELSE FoundOf(p),
         reg' = reg
  PROVE  Abstract!Next
<1>1. Abstract!Take(h, S)
  BY DEF Abstract!Take
<1> QED BY <1>1 DEF Abstract!Next, Abstract!Holders

\* Its holder sets one pin up.
LEMMA ConfigureStep ==
  ASSUME NEW h \in Peripherals \cup Controllers, NEW p \in Pins, NEW s \in Settings,
         HolderOf(p) = h,
         reg' = [reg EXCEPT ![p] = s],
         \A q \in Pins : HolderOf(q)' = HolderOf(q),
         \A q \in Pins : FoundOf(q)' = FoundOf(q)
  PROVE  Abstract!Next
<1>1. Abstract!Configure(h, p)
  BY DEF Abstract!Configure
<1> QED BY <1>1 DEF Abstract!Next, Abstract!Holders

\* Its holder gives pins back.
LEMMA GiveStep ==
  ASSUME NEW h \in Peripherals \cup Controllers, NEW S \in SUBSET Pins,
         \A p \in S : HolderOf(p) = h,
         h \in Peripherals => \A p \in S : reg[p] = FoundOf(p),
         \A p \in Pins : HolderOf(p)' = IF p \in S THEN Free ELSE HolderOf(p),
         \A p \in Pins : FoundOf(p)' = IF p \in S THEN Unknown ELSE FoundOf(p),
         reg' = reg
  PROVE  Abstract!Next
<1>1. Abstract!Give(h, S)
  BY DEF Abstract!Give
<1> QED BY <1>1 DEF Abstract!Next, Abstract!Holders

\* Nothing PinOwnership sees changes.
LEMMA NoStep ==
  ASSUME reg' = reg,
         \A p \in Pins : HolderOf(p)' = HolderOf(p),
         \A p \in Pins : FoundOf(p)' = FoundOf(p)
  PROVE  UNCHANGED Abstract!vars
BY DEF Abstract!vars

\* Nobody has reserved or found anything yet.
LEMMA InitRefines == Init => Abstract!Init
<1> SUFFICES ASSUME Init PROVE Abstract!Init
  OBVIOUS
<1>1. \A p \in Pins : owners[p] = Free
  BY DEF Init
<1>2. \A p \in Pins : HolderOf(p) = Free
  BY <1>1, NamesAssumption, InitInv, HolderFactsHold DEF HolderFacts
<1>3. \A p \in Pins : FoundOf(p) = Unknown
  BY <1>1, NamesAssumption DEF FoundOf
<1>4. reg \in [Pins -> Settings]
  BY DEF Init
<1> QED BY <1>2, <1>3, <1>4 DEF Abstract!Init

\* Holders stay when the reservations and the controllers' lines do.
LEMMA HolderSame ==
  ASSUME HolderFacts, HolderFacts', NEW p \in Pins, owners'[p] = owners[p],
         owners[p] = Gpio => \A c \in Controllers : p \in LinesHeld(c) => p \in LinesHeld(c)'
  PROVE  HolderOf(p)' = HolderOf(p)
BY DEF HolderFacts

\* What was found stays for an owner whose saved list does.
LEMMA FoundSame ==
  ASSUME FoundFacts, FoundFacts', NEW p \in Pins, owners'[p] = owners[p],
         owners[p] \in Peripherals => /\ reg'[p] = reg[p]
                                      /\ SavedOf(owners[p])' = SavedOf(owners[p])
  PROVE  FoundOf(p)' = FoundOf(p)
<1>1. CASE owners[p] \notin Peripherals
  BY <1>1 DEF FoundFacts
<1>2. CASE owners[p] \in Peripherals
  <2>1. PICK saved : saved = SavedOf(owners[p])
    OBVIOUS
  <2>2. SavedOf(owners[p])' = saved /\ owners'[p] \in Peripherals
    BY <1>2, <2>1
  <2>3. CASE p \notin SavedPins(saved)
    BY <1>2, <2>1, <2>2, <2>3 DEF FoundFacts, SavedPins
  <2>4. ASSUME NEW i \in 1..Len(saved), saved[i].pin = p PROVE FoundOf(p)' = FoundOf(p)
    BY <1>2, <2>1, <2>2, <2>4 DEF FoundFacts
  <2> QED BY <2>3, <2>4 DEF SavedPins
<1> QED BY <1>1, <1>2

\* Connect takes all its pins in one step, as it finds them.
LEMMA ConnectReserveRefines ==
  ASSUME IInv, IInv', NEW o \in Peripherals, NEW list \in Lists[o], ConnectReserve(o, list)
  PROVE  Abstract!Next
<1>f. HolderFacts /\ HolderFacts' /\ FoundFacts /\ FoundFacts'
  BY FactsHold
<1>s. PICK S : S = PinSet(list)
  OBVIOUS
<1>1. /\ call = NoCall
      /\ ~connected[o].is
      /\ \A p \in S : owners[p] = Free
      /\ owners' = [p \in Pins |-> IF p \in S THEN o ELSE owners[p]]
      /\ call' = [phase |-> "set", owner |-> o, pins |-> list, saved |-> <<>>]
      /\ UNCHANGED <<connected, reg, lines, job>>
  BY <1>s DEF ConnectReserve, Reserve
<1>2. S \in SUBSET Pins
  BY <1>s, ListsAssumption DEF PinSet
<1>3. \A p \in S : HolderOf(p) = Free /\ HolderOf(p)' = o
  BY <1>f, <1>1, <1>2, NamesAssumption DEF HolderFacts
<1>4. \A p \in Pins \ S : HolderOf(p)' = HolderOf(p)
  BY <1>f, <1>1, HolderSame DEF LinesHeld
<1>5. ASSUME NEW p \in S PROVE FoundOf(p)' = reg[p]
  <2>1. p \in Pins /\ owners'[p] = o /\ reg'[p] = reg[p]
    BY <1>1, <1>2
  <2>2. SavedOf(o)' = <<>>
    BY <1>1 DEF SavedOf
  <2>3. p \notin SavedPins(SavedOf(o)')
    BY <2>2 DEF SavedPins
  <2> QED BY <1>f, <2>1, <2>3 DEF FoundFacts, SavedPins
<1>6. ASSUME NEW p \in Pins \ S PROVE FoundOf(p)' = FoundOf(p)
  <2>1. owners[p] \in Peripherals => owners[p] # o
    BY <1>f, <1>1, NamesAssumption DEF FoundFacts, PinsHeld, NoCall
  <2>2. owners[p] \in Peripherals => SavedOf(owners[p])' = SavedOf(owners[p])
    BY <1>1, <2>1, NamesAssumption DEF SavedOf, NoCall
  <2> QED BY <1>f, <1>1, <2>2, FoundSame
<1> QED BY <1>1, <1>2, <1>3, <1>4, <1>5, <1>6, TakeStep

\* Connect sets up one of its pins, and remembers how it found it.
LEMMA ConnectPinRefines ==
  ASSUME IInv, IInv', ConnectPin
  PROVE  Abstract!Next
<1>f. HolderFacts /\ HolderFacts' /\ FoundFacts /\ FoundFacts'
  BY FactsHold
<1>o. PICK o : o = call.owner
  OBVIOUS
<1>n. PICK n : n = NextPin
  OBVIOUS
<1>0. call \in CallType
  BY DEF IInv, TypeOK, CallType
<1>1. /\ call.phase = "set"
      /\ Len(call.saved) < Len(call.pins)
      /\ call' = [call EXCEPT !.saved = Append(@, [pin |-> n, state |-> reg[n]])]
      /\ reg' = [reg EXCEPT ![n] = Alternate[o]]
      /\ UNCHANGED <<owners, connected, lines, job>>
  BY <1>o, <1>n DEF ConnectPin
<1>2. SettingUp /\ o \in Peripherals
  BY <1>o, <1>1 DEF IInv, CallOK, SettingUp
<1>3. /\ call'.owner = o
      /\ call'.saved = Append(call.saved, [pin |-> n, state |-> reg[n]])
  BY <1>o, <1>0, <1>1 DEF CallType
<1>4. n \in Pins /\ n \in PinSet(call.pins)
  BY <1>0, <1>n, <1>1 DEF NextPin, PinSet, CallType
<1>5. owners[n] = o
  BY <1>o, <1>1, <1>2, <1>4 DEF IInv, ConnectedStaysReserved, PinsHeld
<1>6. \A p \in Pins : HolderOf(p)' = HolderOf(p)
  BY <1>f, <1>1, HolderSame DEF LinesHeld
<1>7. HolderOf(n) = o
  BY <1>f, <1>2, <1>4, <1>5, NamesAssumption DEF HolderFacts
<1>8. /\ SavedOf(o) = call.saved
      /\ SavedOf(o)' = Append(call.saved, [pin |-> n, state |-> reg[n]])
  BY <1>o, <1>3 DEF SavedOf
<1>9. /\ Len(call.saved) \in Nat
      /\ Len(SavedOf(o)') = Len(call.saved) + 1
      /\ \A i \in 1..Len(call.saved) : SavedOf(o)'[i] = call.saved[i]
      /\ SavedOf(o)'[Len(call.saved) + 1] = [pin |-> n, state |-> reg[n]]
  BY <1>0, <1>8 DEF CallType
<1>10. n \notin SavedPins(call.saved)
  <2>1. Len(call.pins) \in Nat /\ n = call.pins[Len(call.saved) + 1]
    BY <1>0, <1>n DEF CallType, NextPin
  <2> QED BY <1>1, <1>2, <1>9, <2>1 DEF SettingUp, SavedPins
<1>11. FoundOf(n)' = FoundOf(n)
  <2>1. FoundOf(n) = reg[n]
    BY <1>f, <1>2, <1>4, <1>5, <1>8, <1>10 DEF FoundFacts
  <2>2. FoundOf(n)' = reg[n]
    <3>1. /\ Len(call.saved) + 1 \in 1..Len(SavedOf(o)')
          /\ SavedOf(o)'[Len(call.saved) + 1].pin = n
          /\ SavedOf(o)'[Len(call.saved) + 1].state = reg[n]
      BY <1>9
    <3> QED BY <1>f, <1>1, <1>2, <1>4, <1>5, <3>1 DEF FoundFacts
  <2> QED BY <2>1, <2>2
<1>12. ASSUME NEW p \in Pins, p # n, owners[p] = o PROVE FoundOf(p)' = FoundOf(p)
  <2>1. reg'[p] = reg[p]
    BY <1>1, <1>12 DEF IInv, TypeOK
  <2>2. CASE p \in SavedPins(call.saved)
    <3>1. PICK i \in 1..Len(call.saved) : call.saved[i].pin = p
      BY <2>2 DEF SavedPins
    <3>2. FoundOf(p) = call.saved[i].state
      BY <1>f, <1>2, <1>8, <1>12, <3>1 DEF FoundFacts
    <3>3. i \in 1..Len(SavedOf(o)') /\ SavedOf(o)'[i] = call.saved[i]
      BY <1>9
    <3>4. FoundOf(p)' = call.saved[i].state
      BY <1>f, <1>1, <1>2, <1>12, <3>1, <3>3 DEF FoundFacts
    <3> QED BY <3>2, <3>4
  <2>3. CASE p \notin SavedPins(call.saved)
    <3>1. p \notin SavedPins(SavedOf(o)')
      BY <1>9, <1>12, <2>3 DEF SavedPins
    <3>2. FoundOf(p) = reg[p]
      BY <1>f, <1>2, <1>8, <1>12, <2>3 DEF FoundFacts
    <3>3. FoundOf(p)' = reg[p]
      BY <1>f, <1>1, <1>2, <1>12, <2>1, <3>1 DEF FoundFacts, SavedPins
    <3> QED BY <3>2, <3>3
  <2> QED BY <2>2, <2>3
<1>13. ASSUME NEW p \in Pins, owners[p] # o PROVE FoundOf(p)' = FoundOf(p)
  <2>1. reg'[p] = reg[p]
    BY <1>1, <1>5, <1>13 DEF IInv, TypeOK
  <2>2. SavedOf(owners[p])' = SavedOf(owners[p])
    BY <1>o, <1>1, <1>3, <1>13 DEF SavedOf
  <2> QED BY <1>f, <1>1, <2>1, <2>2, FoundSame
<1>14. Alternate[o] \in Settings
  BY <1>2, SettingsAssumption
<1> QED
  BY <1>1, <1>2, <1>4, <1>6, <1>7, <1>11, <1>12, <1>13, <1>14, ConfigureStep

\* Putting a pin back sets it up as it was found.
LEMMA RestorePinRefines ==
  ASSUME IInv, IInv', RestorePin
  PROVE  Abstract!Next
<1>f. HolderFacts /\ HolderFacts' /\ FoundFacts /\ FoundFacts'
  BY FactsHold
<1>o. PICK o : o = call.owner
  OBVIOUS
<1>s. PICK s : s = Head(call.saved)
  OBVIOUS
<1>0. call \in CallType
  BY DEF IInv, TypeOK, CallType
<1>1. /\ call.phase = "restore"
      /\ call.saved # <<>>
      /\ reg' = [reg EXCEPT ![s.pin] = s.state]
      /\ call' = [call EXCEPT !.saved = Tail(@)]
      /\ UNCHANGED <<owners, connected, lines, job>>
  BY <1>s DEF RestorePin
<1>2. Restoring /\ o \in Peripherals
  BY <1>o, <1>1 DEF IInv, CallOK, Restoring
<1>3. call'.owner = o /\ call'.saved = Tail(call.saved)
  BY <1>o, <1>0, <1>1 DEF CallType
<1>4. /\ s \in Saved
      /\ s.pin \in SavedPins(call.saved)
      /\ SavedPins(Tail(call.saved)) = SavedPins(call.saved) \ {s.pin}
  BY <1>0, <1>s, <1>1, <1>2, SavedPinsTail DEF Restoring, CallType
<1>5. s.pin \in Pins /\ s.state \in Settings
  BY <1>4 DEF Saved
<1>6. owners[s.pin] = o
  BY <1>o, <1>1, <1>2, <1>4 DEF IInv, ConnectedStaysReserved, PinsHeld, Restoring
<1>7. \A p \in Pins : HolderOf(p)' = HolderOf(p)
  BY <1>f, <1>1, HolderSame DEF LinesHeld
<1>8. HolderOf(s.pin) = o
  BY <1>f, <1>2, <1>5, <1>6, NamesAssumption DEF HolderFacts
<1>9. SavedOf(o) = call.saved /\ SavedOf(o)' = Tail(call.saved)
  BY <1>o, <1>3 DEF SavedOf
<1>10. /\ Len(call.saved) \in Nat \ {0}
       /\ call.saved[1] = s
       /\ Len(SavedOf(o)') = Len(call.saved) - 1
       /\ \A i \in 1..(Len(call.saved) - 1) : SavedOf(o)'[i] = call.saved[i + 1]
  BY <1>0, <1>s, <1>1, <1>9 DEF CallType
<1>11. FoundOf(s.pin)' = FoundOf(s.pin)
  <2>1. FoundOf(s.pin) = s.state
    <3>1. 1 \in 1..Len(call.saved)
      BY <1>10
    <3> QED BY <1>f, <1>2, <1>5, <1>6, <1>9, <1>10, <3>1 DEF FoundFacts
  <2>2. s.pin \notin SavedPins(SavedOf(o)')
    BY <1>4, <1>9
  <2>3. reg'[s.pin] = s.state
    BY <1>1, <1>5 DEF IInv, TypeOK
  <2>4. FoundOf(s.pin)' = reg'[s.pin]
    BY <1>f, <1>1, <1>2, <1>5, <1>6, <2>2 DEF FoundFacts, SavedPins
  <2> QED BY <2>1, <2>3, <2>4
<1>12. ASSUME NEW p \in Pins, p # s.pin, owners[p] = o PROVE FoundOf(p)' = FoundOf(p)
  <2>1. reg'[p] = reg[p]
    BY <1>1, <1>12 DEF IInv, TypeOK
  <2>2. CASE p \in SavedPins(call.saved)
    <3>1. PICK i \in 1..Len(call.saved) : call.saved[i].pin = p
      BY <2>2 DEF SavedPins
    <3>2. i # 1 /\ i - 1 \in 1..(Len(call.saved) - 1)
      BY <1>10, <1>12, <3>1
    <3>3. FoundOf(p) = call.saved[i].state
      BY <1>f, <1>2, <1>9, <1>12, <3>1 DEF FoundFacts
    <3>4. i - 1 \in 1..Len(SavedOf(o)') /\ SavedOf(o)'[i - 1] = call.saved[i]
      BY <1>10, <3>2
    <3>5. FoundOf(p)' = call.saved[i].state
      BY <1>f, <1>1, <1>2, <1>12, <3>1, <3>4 DEF FoundFacts
    <3> QED BY <3>3, <3>5
  <2>3. CASE p \notin SavedPins(call.saved)
    <3>1. p \notin SavedPins(SavedOf(o)')
      BY <1>4, <1>9, <2>3
    <3>2. FoundOf(p) = reg[p]
      BY <1>f, <1>2, <1>9, <1>12, <2>3 DEF FoundFacts
    <3>3. FoundOf(p)' = reg[p]
      BY <1>f, <1>1, <1>2, <1>12, <2>1, <3>1 DEF FoundFacts, SavedPins
    <3> QED BY <3>2, <3>3
  <2> QED BY <2>2, <2>3
<1>13. ASSUME NEW p \in Pins, owners[p] # o PROVE FoundOf(p)' = FoundOf(p)
  <2>1. reg'[p] = reg[p]
    BY <1>1, <1>6, <1>13 DEF IInv, TypeOK
  <2>2. SavedOf(owners[p])' = SavedOf(owners[p])
    BY <1>o, <1>1, <1>3, <1>13 DEF SavedOf
  <2> QED BY <1>f, <1>1, <2>1, <2>2, FoundSame
<1> QED
  BY <1>1, <1>2, <1>5, <1>7, <1>8, <1>11, <1>12, <1>13, ConfigureStep

\* Freeing the pins gives them all back, each set up as it was found.
LEMMA ReleasePinsRefines ==
  ASSUME IInv, IInv', ReleasePins
  PROVE  Abstract!Next
<1>f. HolderFacts /\ HolderFacts' /\ FoundFacts /\ FoundFacts'
  BY FactsHold
<1>o. PICK o : o = call.owner
  OBVIOUS
<1>s. PICK S : S = PinSet(call.pins)
  OBVIOUS
<1>0. call \in CallType
  BY DEF IInv, TypeOK, CallType
<1>1. /\ call.phase = "restore"
      /\ call.saved = <<>>
      /\ owners' = [p \in Pins |-> IF p \in S THEN Free ELSE owners[p]]
      /\ call' = IF connected[o].is THEN [call EXCEPT !.phase = "erase"] ELSE NoCall
      /\ UNCHANGED <<connected, reg, lines, job>>
  BY <1>o, <1>s DEF ReleasePins, Release
<1>2. Restoring /\ o \in Peripherals
  BY <1>o, <1>1 DEF IInv, CallOK, Restoring
<1>3. S \in SUBSET Pins
  BY <1>0, <1>s DEF PinSet, CallType
<1>4. PinsHeld(o) = S
  BY <1>o, <1>s, <1>1, <1>2 DEF Restoring, PinsHeld
<1>5. \A p \in S : owners[p] = o
  BY <1>2, <1>4 DEF IInv, ConnectedStaysReserved
<1>6. \A p \in S : HolderOf(p) = o /\ HolderOf(p)' = Free
  BY <1>f, <1>1, <1>2, <1>3, <1>5, NamesAssumption DEF HolderFacts
<1>7. \A p \in Pins \ S : HolderOf(p)' = HolderOf(p)
  BY <1>f, <1>1, HolderSame DEF LinesHeld
<1>8. ASSUME NEW p \in S PROVE reg[p] = FoundOf(p) /\ FoundOf(p)' = Unknown
  <2>1. p \notin SavedPins(SavedOf(o))
    BY <1>o, <1>1 DEF SavedOf, SavedPins
  <2>2. reg[p] = FoundOf(p)
    BY <1>f, <1>2, <1>3, <1>5, <2>1 DEF FoundFacts
  <2>3. owners'[p] = Free
    BY <1>1, <1>3
  <2> QED BY <1>f, <1>3, <2>2, <2>3, NamesAssumption DEF FoundFacts
<1>9. ASSUME NEW p \in Pins \ S PROVE FoundOf(p)' = FoundOf(p)
  <2>1. owners[p] \in Peripherals => owners[p] # o
    BY <1>f, <1>4 DEF FoundFacts
  <2>2. call'.owner \in {o, Absent}
    BY <1>0, <1>o, <1>1 DEF CallType, NoCall
  <2>3. owners[p] \in Peripherals => SavedOf(owners[p])' = SavedOf(owners[p])
    BY <1>o, <1>1, <2>1, <2>2, NamesAssumption DEF SavedOf
  <2> QED BY <1>f, <1>1, <2>3, FoundSame
<1> QED BY <1>1, <1>2, <1>3, <1>6, <1>7, <1>8, <1>9, GiveStep

\* The steps of Connect and Disconnect that PinOwnership does not see: the
\* saved list changes hands, and nothing else.
LEMMA CallStutters ==
  ASSUME IInv, IInv',
         \/ ConnectFails
         \/ ConnectDone
         \/ \E o \in Peripherals : DisconnectBegin(o)
         \/ EraseEntry
  PROVE  UNCHANGED Abstract!vars
<1>f. HolderFacts /\ HolderFacts' /\ FoundFacts /\ FoundFacts'
  BY FactsHold
<1>0. call \in CallType
  BY DEF IInv, TypeOK, CallType
<1>1. UNCHANGED <<owners, reg, lines, job>>
  BY DEF ConnectFails, ConnectDone, DisconnectBegin, EraseEntry
<1>2. \A p \in Pins : HolderOf(p)' = HolderOf(p)
  BY <1>f, <1>1, HolderSame DEF LinesHeld
<1>3. ASSUME NEW p \in Pins, NEW o \in Peripherals, owners[p] = o
      PROVE  SavedOf(o)' = SavedOf(o)
  <2>1. CASE ConnectFails
    <3>1. call'.owner = call.owner /\ call'.saved = call.saved
      BY <1>0, <2>1 DEF ConnectFails, CallType
    <3> QED BY <2>1, <3>1 DEF ConnectFails, SavedOf
  <2>2. CASE ConnectDone
    <3>1. call.owner \in Peripherals
      BY <2>2 DEF ConnectDone, IInv, CallOK, SettingUp
    <3>2. /\ connected'[call.owner].list = call.saved
          /\ \A q \in Peripherals : q # call.owner => connected'[q] = connected[q]
      BY <2>2, <3>1 DEF ConnectDone, Entry, IInv, TypeOK
    <3> QED BY <2>2, <3>2, NamesAssumption DEF ConnectDone, SavedOf, NoCall
  <2>3. ASSUME NEW q \in Peripherals, DisconnectBegin(q) PROVE SavedOf(o)' = SavedOf(o)
    BY <2>3, NamesAssumption DEF DisconnectBegin, SavedOf, NoCall
  <2>4. CASE EraseEntry
    <3>1. o # call.owner
      BY <1>f, <1>3, <2>4 DEF FoundFacts, PinsHeld, EraseEntry
    <3> QED BY <2>4, <3>1, NamesAssumption DEF EraseEntry, SavedOf, NoCall, IInv, TypeOK
  <2> QED BY <2>1, <2>2, <2>3, <2>4
<1>4. \A p \in Pins : FoundOf(p)' = FoundOf(p)
  BY <1>f, <1>1, <1>3, FoundSame
<1> QED BY <1>1, <1>2, <1>4, NoStep

\* A controller's steps: it takes a pin, sets one up, gives one back, or does
\* what PinOwnership does not see.
LEMMA GpioRefines ==
  ASSUME IInv, IInv', GpioNext
  PROVE  Abstract!Next \/ UNCHANGED Abstract!vars
<1>f. HolderFacts /\ HolderFacts' /\ FoundFacts /\ FoundFacts'
  BY FactsHold
<1>c. PICK c \in Controllers :
        \/ \E p \in Pins : OpenReserve(c, p)
        \/ OpenLine(c)
        \/ OpenFails(c)
        \/ \E p \in Pins : ClosePin(c, p)
        \/ Destroy(c)
        \/ CloseRelease(c)
        \/ \E p \in Pins : SetPinMode(c, p)
  BY DEF GpioNext
<1>0. job \in [Controllers -> [kind : {"idle", "open", "close"}, pins : SUBSET Pins]]
  BY DEF IInv, TypeOK
<1>n. c \notin Peripherals
  BY NamesAssumption
<1>w. UNCHANGED <<connected, call>>
  BY <1>c DEF OpenReserve, OpenLine, OpenFails, ClosePin, Destroy, CloseLines, CloseRelease,
              SetPinMode
<1>p. \A o : SavedOf(o)' = SavedOf(o)
  BY <1>w DEF SavedOf
<1>1. ASSUME NEW p \in Pins, OpenReserve(c, p) PROVE Abstract!Next
  <2>1. /\ owners[p] = Free
        /\ owners' = [q \in Pins |-> IF q \in {p} THEN Gpio ELSE owners[q]]
        /\ job[c] = NoJob
        /\ job' = [job EXCEPT ![c] = [kind |-> "open", pins |-> {p}]]
        /\ UNCHANGED <<reg, lines>>
    BY <1>1 DEF OpenReserve, Reserve
  <2>2. \A d \in Controllers : LinesHeld(d)' = IF d = c THEN LinesHeld(d) \cup {p} ELSE LinesHeld(d)
    BY <1>0, <2>1 DEF LinesHeld, NoJob
  <2>3. HolderOf(p) = Free /\ HolderOf(p)' = c
    BY <1>f, <2>1, <2>2, NamesAssumption DEF HolderFacts
  <2>4. \A q \in Pins \ {p} : HolderOf(q)' = HolderOf(q)
    BY <1>f, <2>1, <2>2, HolderSame
  <2>5. FoundOf(p)' = FoundOf(p)
    BY <1>f, <2>1, NamesAssumption DEF FoundFacts
  <2>6. \A q \in Pins \ {p} : FoundOf(q)' = FoundOf(q)
    BY <1>f, <1>p, <2>1, FoundSame
  <2>7. \A q \in Pins : HolderOf(q)' = IF q \in {p} THEN c ELSE HolderOf(q)
    BY <2>3, <2>4
  <2>8. \A q \in Pins :
          FoundOf(q)' = IF q \in {p} /\ c \in Peripherals THEN reg[q] ELSE FoundOf(q)
    BY <1>n, <2>5, <2>6
  <2>9. {p} \in SUBSET Pins /\ c \in Peripherals \cup Controllers
    OBVIOUS
  <2> QED BY <2>1, <2>3, <2>7, <2>8, <2>9, TakeStep
<1>2. ASSUME UNCHANGED <<owners, reg>>,
             \A d \in Controllers : LinesHeld(d)' = LinesHeld(d)
      PROVE  UNCHANGED Abstract!vars
  <2>1. \A p \in Pins : HolderOf(p)' = HolderOf(p)
    BY <1>f, <1>2, HolderSame
  <2>2. \A p \in Pins : FoundOf(p)' = FoundOf(p)
    BY <1>f, <1>p, <1>2, FoundSame
  <2> QED BY <1>2, <2>1, <2>2, NoStep
<1>3. CASE OpenLine(c)
  <2>1. \A d \in Controllers : LinesHeld(d)' = LinesHeld(d)
    BY <1>0, <1>3 DEF OpenLine, LinesHeld, NoJob, IInv, TypeOK
  <2> QED BY <1>2, <1>3, <2>1 DEF OpenLine
<1>4. ASSUME NEW S, CloseLines(c, S) PROVE UNCHANGED Abstract!vars
  <2>1. \A d \in Controllers : LinesHeld(d)' = LinesHeld(d)
    BY <1>0, <1>4 DEF CloseLines, LinesHeld, NoJob, IInv, TypeOK
  <2> QED BY <1>2, <1>4, <2>1 DEF CloseLines
<1>5. CASE OpenFails(c) \/ CloseRelease(c)
  <2>s. PICK S : S = job[c].pins
    OBVIOUS
  <2>1. /\ owners' = [p \in Pins |-> IF p \in S THEN Free ELSE owners[p]]
        /\ job' = [job EXCEPT ![c] = NoJob]
        /\ UNCHANGED <<reg, lines>>
    BY <1>5, <2>s DEF OpenFails, CloseRelease, Release
  <2>2. S \in SUBSET Pins /\ S \subseteq LinesHeld(c)
    BY <1>0, <2>s DEF LinesHeld
  <2>3. \A p \in S : owners[p] = Gpio /\ HolderOf(p) = c
    BY <1>f, <2>2 DEF IInv, OneControllerPerPin, HolderFacts
  <2>4. \A p \in S : HolderOf(p)' = Free
    BY <1>f, <2>1, <2>2, NamesAssumption DEF HolderFacts
  <2>5. \A d \in Controllers : LinesHeld(d) \ S \subseteq LinesHeld(d)'
    BY <1>0, <2>s, <2>1 DEF LinesHeld, NoJob
  <2>6. \A p \in Pins \ S : HolderOf(p)' = HolderOf(p)
    BY <1>f, <2>1, <2>5, HolderSame
  <2>7. \A p \in S : FoundOf(p)' = Unknown
    BY <1>f, <2>1, <2>2, NamesAssumption DEF FoundFacts
  <2>8. \A p \in Pins \ S : FoundOf(p)' = FoundOf(p)
    BY <1>f, <1>p, <2>1, FoundSame
  <2> QED BY <1>n, <2>1, <2>2, <2>3, <2>4, <2>6, <2>7, <2>8, GiveStep
<1>6. ASSUME NEW p \in Pins, SetPinMode(c, p) PROVE Abstract!Next
  <2>1. PICK s \in GpioSettings : reg' = [reg EXCEPT ![p] = s]
    BY <1>6 DEF SetPinMode
  <2>2. p \in LinesHeld(c) /\ UNCHANGED <<owners, lines, job>>
    BY <1>6 DEF SetPinMode, LinesHeld
  <2>3. owners[p] = Gpio /\ HolderOf(p) = c
    BY <1>f, <2>2 DEF IInv, OneControllerPerPin, HolderFacts
  <2>4. \A q \in Pins : HolderOf(q)' = HolderOf(q)
    BY <1>f, <2>2, HolderSame DEF LinesHeld
  <2>5. \A q \in Pins : owners[q] \in Peripherals => reg'[q] = reg[q]
    BY <2>1, <2>3, NamesAssumption DEF IInv, TypeOK
  <2>6. \A q \in Pins : FoundOf(q)' = FoundOf(q)
    BY <1>f, <1>p, <2>2, <2>5, FoundSame
  <2> QED BY <2>1, <2>3, <2>4, <2>6, SettingsAssumption, ConfigureStep
<1> QED BY <1>c, <1>1, <1>3, <1>4, <1>5, <1>6 DEF ClosePin, Destroy

\* Every step is a step of PinOwnership or none.
LEMMA NextRefines ==
  IInv /\ IInv' /\ [Next]_vars => [Abstract!Next]_Abstract!vars
<1> SUFFICES ASSUME IInv, IInv', [Next]_vars
             PROVE  Abstract!Next \/ UNCHANGED Abstract!vars
  OBVIOUS
<1>1. CASE UNCHANGED vars
  <2>1. UNCHANGED <<owners, connected, reg, call, lines, job>>
    BY <1>1 DEF vars
  <2>2. HolderFacts /\ HolderFacts' /\ FoundFacts /\ FoundFacts'
    BY FactsHold
  <2>3. \A p \in Pins : HolderOf(p)' = HolderOf(p)
    BY <2>1, <2>2, HolderSame DEF LinesHeld
  <2>4. \A p \in Pins : FoundOf(p)' = FoundOf(p)
    BY <2>1, <2>2, FoundSame DEF SavedOf
  <2> QED BY <2>1, <2>3, <2>4, NoStep
<1> QED
  BY <1>1, ConnectReserveRefines, ConnectPinRefines, RestorePinRefines, ReleasePinsRefines,
     CallStutters, GpioRefines DEF Next, ConnectNext

\* The pin bookkeeping keeps the promise of PeripheralPins.h:25-33, whatever
\* the pins, their lists and the interleaving: one holder per pin, only the
\* holder sets it up, and a peripheral gives it back as it found it.
THEOREM Refinement == Spec => ImplementsPinOwnership
BY Invariant, InitRefines, NextRefines, PTL DEF Spec, ImplementsPinOwnership, Abstract!Spec

=============================================================================

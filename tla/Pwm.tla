-------------------------------- MODULE Pwm --------------------------------
(***************************************************************************)
(* A PWM channel (Buses.cpp, PwmChannelImpl): the object keeps the period  *)
(* it last wrote (period_), the frequency and the duty cycle it was given; *)
(* the kernel keeps a period and a duty time of its own and refuses a      *)
(* write that would make the duty time longer than the period.  Apply      *)
(* changes both with two writes, and either of them may fail.              *)
(*                                                                         *)
(* Duty cycles are in quarters, Second is the number of time units (the    *)
(* code's nanoseconds) in one period at frequency 1.                       *)
(***************************************************************************)
EXTENDS Integers

CONSTANTS Frequencies,   \* the frequencies callers ask for, all above 0
          Second         \* time units per second (1e9 in the code)

\* "The frequency must be more than 0", a whole number of Hz
ASSUME UnitsAssumption == Second \in Nat /\ Frequencies \subseteq Nat \ {0}

VARIABLES pc,            \* "closed", "open", or the next write of Apply
          period_,       \* the object's copy of the kernel's period
          frequency_, dutyCycle_,
          wanted,        \* what the Apply under way was called with
          settled,       \* the last Apply ended without an exception
          exported,      \* the kernel shows the channel's folder
          kperiod, kduty, enabled    \* the kernel's state of the channel

pwmVars == <<pc, period_, frequency_, dutyCycle_, wanted, settled, exported,
             kperiod, kduty, enabled>>
kernelVars == <<exported, kperiod, kduty, enabled>>

Quarters == 0..4
Wishes == [frequency : Frequencies, duty : Quarters]

(* llround(1e9 / frequency) and llround(period * dutyCycle).  A frequency  *)
(* above two per time unit has period 0, which the kernel refuses.         *)
Period(f) == (2 * Second + f) \div (2 * f)
Duty(p, q) == (2 * p * q + 4) \div 8

WantedPeriod == Period(wanted.frequency)
WantedDuty == Duty(WantedPeriod, wanted.duty)

(* What pwm_apply_state refuses: no period, or a longer duty time.         *)
Legal(p, d) == p > 0 /\ d <= p

PwmInit ==
  /\ pc = "closed"
  /\ period_ = 0 /\ frequency_ = 0 /\ dutyCycle_ = 0
  /\ wanted \in Wishes
  /\ settled = FALSE
  /\ exported \in BOOLEAN
  /\ kperiod \in {0} \cup {Period(f) : f \in Frequencies}
  /\ kduty = 0
  /\ enabled = FALSE

(* Mutant: the period is always written first.                             *)
OrderPeriodFirst(p, old) == "periodFirst"

(* period < period_ writes the duty time first, else the period first.     *)
Order(p, old) == IF p < old THEN "dutyFirst" ELSE "periodFirst"

(* The constructor: exports the channel unless an earlier program left it  *)
(* exported, reads its period and applies the frequency and duty cycle.    *)
Open(w) ==
  /\ pc = "closed"
  /\ exported' = TRUE
  /\ period_' = kperiod
  /\ wanted' = w
  /\ settled' = FALSE
  /\ pc' = Order(Period(w.frequency), kperiod)
  /\ UNCHANGED <<frequency_, dutyCycle_, kperiod, kduty, enabled>>

(* Frequency(f) and DutyCycle(d): Apply with the other value as it is.     *)
Set(w) ==
  /\ pc = "open"
  /\ w.frequency = frequency_ \/ w.duty = dutyCycle_
  /\ wanted' = w
  /\ settled' = FALSE
  /\ pc' = Order(Period(w.frequency), period_)
  /\ UNCHANGED <<period_, frequency_, dutyCycle_, kernelVars>>

(* Mutant: the period is kept where the frequency belongs.                 *)
AssignsPeriod ==
  /\ pc' = "open"
  /\ period_' = WantedPeriod
  /\ frequency_' = WantedPeriod
  /\ dutyCycle_' = wanted.duty
  /\ settled' = TRUE

(* Apply's last assignments, after both writes went through.               *)
Assigns ==
  /\ pc' = "open"
  /\ period_' = WantedPeriod
  /\ frequency_' = wanted.frequency
  /\ dutyCycle_' = wanted.duty
  /\ settled' = TRUE

WriteDutyFirst ==
  /\ pc = "dutyFirst"
  /\ Legal(kperiod, WantedDuty)
  /\ kduty' = WantedDuty
  /\ pc' = "periodLast"
  /\ UNCHANGED <<period_, frequency_, dutyCycle_, wanted, settled, exported,
                 kperiod, enabled>>

WritePeriodLast ==
  /\ pc = "periodLast"
  /\ Legal(WantedPeriod, kduty)
  /\ kperiod' = WantedPeriod
  /\ Assigns
  /\ UNCHANGED <<wanted, exported, kduty, enabled>>

WritePeriodFirst ==
  /\ pc = "periodFirst"
  /\ Legal(WantedPeriod, kduty)
  /\ kperiod' = WantedPeriod
  /\ pc' = "dutyLast"
  /\ UNCHANGED <<period_, frequency_, dutyCycle_, wanted, settled, exported,
                 kduty, enabled>>

WriteDutyLast ==
  /\ pc = "dutyLast"
  /\ Legal(kperiod, WantedDuty)
  /\ kduty' = WantedDuty
  /\ Assigns
  /\ UNCHANGED <<wanted, exported, kperiod, enabled>>

Writing == pc \in {"dutyFirst", "periodLast", "periodFirst", "dutyLast"}

(* A write fails, because the kernel refuses the value or for any other    *)
(* reason: Apply ends with an exception and the object keeps its values.   *)
(* An object whose constructor has not ended is gone, its channel stays    *)
(* exported.                                                               *)
WriteFails ==
  /\ Writing
  /\ pc' = IF frequency_ = 0 THEN "closed" ELSE "open"
  /\ UNCHANGED <<period_, frequency_, dutyCycle_, wanted, settled, kernelVars>>

Start ==
  /\ pc = "open"
  /\ Legal(kperiod, kduty)
  /\ enabled' = TRUE
  /\ UNCHANGED <<pc, period_, frequency_, dutyCycle_, wanted, settled, exported,
                 kperiod, kduty>>

Stop ==
  /\ pc = "open"
  /\ enabled' = FALSE
  /\ UNCHANGED <<pc, period_, frequency_, dutyCycle_, wanted, settled, exported,
                 kperiod, kduty>>

(* The destructor: stops and unexports; an exception of either is dropped. *)
(* The kernel keeps the channel's period and duty time.                    *)
Close(stopped, unexported) ==
  /\ pc = "open"
  /\ unexported => stopped
  /\ pc' = "closed"
  /\ enabled' = (enabled /\ ~stopped)
  /\ exported' = ~unexported
  /\ frequency_' = 0 /\ dutyCycle_' = 0
  /\ settled' = FALSE
  /\ UNCHANGED <<period_, wanted, kperiod, kduty>>

PwmNext ==
  \/ \E w \in Wishes : Open(w) \/ Set(w)
  \/ WriteDutyFirst
  \/ WritePeriodLast
  \/ WritePeriodFirst
  \/ WriteDutyLast
  \/ WriteFails
  \/ Start
  \/ Stop
  \/ \E s, u \in BOOLEAN : Close(s, u)

PwmSpec == PwmInit /\ [][PwmNext]_pwmVars

-----------------------------------------------------------------------------
PwmTypeOK ==
  /\ pc \in {"closed", "open", "dutyFirst", "periodLast", "periodFirst", "dutyLast"}
  /\ period_ \in Nat /\ kperiod \in Nat /\ kduty \in Nat
  /\ frequency_ \in {0} \cup Frequencies
  /\ dutyCycle_ \in Quarters
  /\ wanted \in Wishes
  /\ settled \in BOOLEAN /\ exported \in BOOLEAN /\ enabled \in BOOLEAN

(* "The duty cycle may never be longer than the period, also between the   *)
(* two writes" (Buses.cpp:194): no write asks the kernel for a duty time   *)
(* longer than the period it would then have, whichever earlier calls      *)
(* failed half way and whatever an earlier program left in the kernel.     *)
DutyFits ==
  /\ pc \in {"dutyFirst", "dutyLast"} => WantedDuty <= kperiod
  /\ pc \in {"periodFirst", "periodLast"} => kduty <= WantedPeriod

(* After a call that ended without an exception the kernel produces what   *)
(* the object says, and the object's copy of the period is right.          *)
SettledIsApplied ==
  pc = "open" /\ settled =>
    /\ kperiod = period_
    /\ period_ = Period(frequency_)
    /\ kduty = Duty(period_, dutyCycle_)

(* Both: no write is refused for its value, and what was written is there. *)
WritesFit == DutyFits /\ SettledIsApplied

=============================================================================

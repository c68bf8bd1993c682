------------------------------- MODULE Watchdog -------------------------------
(***************************************************************************)
(* System.cpp's WatchdogImpl: the watchdog that programs use, which one    *)
(* controller of one program at a time has open.  The chip's watchdog does *)
(* not stop: the kernel feeds it until the device is opened, and again     *)
(* after it was closed with a "V" before (Disable).                        *)
(*                                                                         *)
(* Time goes in ticks; the kernel counts whole seconds.                    *)
(***************************************************************************)
EXTENDS Integers

CONSTANTS
  Watchdogs,    \* WatchdogControllers, of one program or of several
  Second,       \* ticks in a second; the code asks in milliseconds
  Timeouts,     \* ticks that Enable is asked for, legal ones
  Default,      \* seconds, the driver's when it starts
  None

VARIABLES
  enabled,      \* controllers that have the device open (fd_ >= 0)
  user,         \* the kernel's: the controller that has it open, or None
  counts,       \* the kernel does not feed it: the program has to
  timeout,      \* the kernel's, in seconds
  left,         \* ticks until the board restarts
  restarted,
  since,        \* history: ticks since the program last fed it
  asked         \* history: ticks that the last Enable asked for and was granted

watchdogVars == <<enabled, user, counts, timeout, left, restarted, since, asked>>

Init ==
  /\ enabled = {} /\ user = None /\ counts = FALSE
  /\ timeout = Default /\ left = 0 /\ restarted = FALSE
  /\ since = 0 /\ asked = 0

\* Enable counts in whole seconds, and not fewer than it was asked for
Seconds(ticks) == (ticks + Second - 1) \div Second

\* Feed
Feeds(seconds) == left' = seconds * Second /\ since' = 0

\* Enable: opens the device, which starts it, unless it is open; the time; Feed
Enable(c, ticks) ==
  /\ ~restarted
  /\ c \in enabled \/ user = None
  /\ enabled' = enabled \cup {c} /\ user' = c /\ counts' = TRUE
  /\ timeout' = Seconds(ticks) /\ asked' = ticks
  /\ Feeds(timeout')
  /\ UNCHANGED restarted

\* ... or the driver does not take the time: the call throws, and the device
\* stays open with the time that it had (one that counts already goes on)
EnableFails(c) ==
  /\ ~restarted
  /\ c \in enabled \/ user = None
  /\ enabled' = enabled \cup {c} /\ user' = c /\ counts' = TRUE
  /\ IF counts
     THEN UNCHANGED <<left, since, asked>>
     ELSE left' = timeout * Second /\ since' = 0 /\ asked' = 0
  /\ UNCHANGED <<timeout, restarted>>

Reset(c) ==
  /\ ~restarted /\ c \in enabled
  /\ Feeds(timeout)
  /\ UNCHANGED <<enabled, user, counts, timeout, restarted, asked>>

\* Disable: from now on the kernel feeds it
Disable(c) ==
  /\ ~restarted /\ c \in enabled
  /\ enabled' = enabled \ {c} /\ user' = None /\ counts' = FALSE
  /\ UNCHANGED <<timeout, left, restarted, since, asked>>

\* Dispose, and the end of the program: an enabled watchdog stays enabled, and
\* the kernel feeds it once more
Dispose(c) ==
  /\ ~restarted /\ c \in enabled
  /\ enabled' = enabled \ {c} /\ user' = None
  /\ Feeds(timeout)
  /\ UNCHANGED <<counts, timeout, restarted, asked>>

Tick ==
  /\ ~restarted /\ counts
  /\ left' = left - 1 /\ since' = since + 1
  /\ restarted' = (left' = 0)
  /\ UNCHANGED <<enabled, user, counts, timeout, asked>>

Next ==
  \/ \E c \in Watchdogs :
       \/ \E ticks \in Timeouts : Enable(c, ticks)
       \/ EnableFails(c) \/ Reset(c) \/ Disable(c) \/ Dispose(c)
  \/ Tick

Spec == Init /\ [][Next]_watchdogVars

-----------------------------------------------------------------------------
\* The controllers, the kernel's watchdog and the clock have their types.
TypeOK ==
  /\ enabled \subseteq Watchdogs /\ user \in Watchdogs \cup {None}
  /\ counts \in BOOLEAN /\ restarted \in BOOLEAN
  /\ timeout \in Nat /\ left \in Nat /\ since \in Nat /\ asked \in Nat

\* One controller has the watchdog, IsEnabled says so, and while it does the
\* board is watched: also after an Enable that threw.
EnabledIsWatched ==
  /\ enabled = {c \in Watchdogs : c = user}
  /\ user # None => counts

\* The board does not restart before the time that Enable was asked for has gone
\* by without a Reset, whichever controllers had the watchdog before, and a
\* program that was left hanging gets no more than what that is in whole seconds.
RestartsInTime ==
  /\ restarted => since >= asked
  /\ counts /\ asked > 0 => since <= Seconds(asked) * Second

=============================================================================

------------------------------ MODULE SerialPort ------------------------------
(***************************************************************************)
(* Ports.h and Ports.cpp: a serial port, with ReadLine, which keeps what   *)
(* came after a line for the next read, and writes that the driver takes   *)
(* piece by piece.  One thread of the program uses the port; bytes come    *)
(* when they like, and an adapter may be pulled out: a terminal that hung  *)
(* up reads as at its end and refuses everything else.                     *)
(*                                                                         *)
(* Time only says that a wait was too long.  How the line is set up (baud  *)
(* rate, parity...) is left out.                                           *)
(***************************************************************************)
EXTENDS Integers, Sequences, SequencesExt

CONSTANTS
  Symbols,      \* what a byte may be
  NewLine,      \* a sequence of Symbols
  Text,         \* the text that the program writes
  Chunk,        \* bytes that ReadLine asks for, 256 in the code
  Room,         \* bytes that the driver takes before they are sent
  MaxArrived    \* bound: bytes that come

VARIABLES
  device,       \* "there" or "gone"
  open,         \* the program has the port open
  kernel,       \* bytes that came and were not read
  pending,      \* pending_: read for a line that has not ended
  call,         \* "none", "read", "existing", "line", "wait", "write"
  timed,        \* the call has a time limit
  late,         \* ReadLine's deadline has passed
  count,        \* bytes that Read has room for, or ReadExisting found
  text,         \* what ReadExisting has so far
  rest,         \* the buffers that Write and WriteLine have still to write
  queue,        \* bytes that the driver has still to send
  arrived,      \* history: what came and was not discarded
  past,         \* history: what the program was given of it
  sent,         \* history: what the driver took of this write
  asked         \* history: what it was given to write

how == <<timed, late, count>>
reading == <<kernel, pending, text, arrived, past>>
writing == <<rest, queue, sent, asked>>
portVars == <<device, open, call, how, reading, writing>>

Init ==
  /\ device = "there" /\ open = FALSE
  /\ call = "none" /\ timed = FALSE /\ late = FALSE
  /\ kernel = <<>> /\ pending = <<>> /\ count = 0 /\ text = <<>>
  /\ arrived = <<>> /\ past = <<>>
  /\ rest = <<>> /\ queue = 0 /\ sent = <<>> /\ asked = <<>>

Returns == call' = "none" /\ timed' = FALSE /\ late' = FALSE /\ count' = 0
Least(m, n) == IF m < n THEN m ELSE n

-----------------------------------------------------------------------------
(* The line, and time.                                                     *)

Arrives(b) ==
  /\ open /\ device = "there" /\ Len(arrived) < MaxArrived
  /\ kernel' = Append(kernel, b) /\ arrived' = Append(arrived, b)
  /\ UNCHANGED <<device, open, call, how, pending, text, past, writing>>

Sends ==
  /\ queue > 0 /\ queue' = queue - 1
  /\ UNCHANGED <<device, open, call, how, reading, rest, sent, asked>>

Unplug ==
  /\ device = "there" /\ device' = "gone"
  /\ kernel' = <<>> /\ queue' = 0
  /\ UNCHANGED <<open, call, how, pending, text, arrived, past, rest, sent, asked>>

TimePasses ==
  /\ call \in {"line", "wait"} /\ timed /\ ~late /\ late' = TRUE
  /\ UNCHANGED <<device, open, call, timed, count, reading, writing>>

-----------------------------------------------------------------------------
\* Open: the bytes that ReadLine kept are not of this connection
Open ==
  /\ call = "none" /\ ~open /\ device = "there"
  /\ open' = TRUE /\ pending' = <<>> /\ arrived' = past
  /\ UNCHANGED <<device, call, how, kernel, text, past, writing>>

\* Close: what the kernel has is gone; what ReadLine kept is still there to read
Close ==
  /\ call = "none" /\ open
  /\ open' = FALSE /\ kernel' = <<>> /\ arrived' = past \o pending /\ queue' = 0
  /\ UNCHANGED <<device, call, how, pending, text, past, rest, sent, asked>>

DiscardInBuffer ==
  /\ call = "none"
  /\ pending' = <<>> /\ kernel' = <<>> /\ arrived' = past
  /\ UNCHANGED <<device, open, call, how, text, past, writing>>

DiscardOutBuffer ==
  /\ call = "none" /\ open /\ queue' = 0
  /\ UNCHANGED <<device, open, call, how, reading, rest, sent, asked>>

-----------------------------------------------------------------------------
(* What poll and read do: bytes, or 0 of them after a hang-up.             *)

Readable == kernel # <<>> \/ device = "gone"
Gets(n) == SubSeq(kernel, 1, Least(n, Len(kernel)))
Taken(n) == SubSeq(kernel, Least(n, Len(kernel)) + 1, Len(kernel))
Given(bytes) == past' = past \o bytes

\* Read (and ReadByte, with n = 1): what was kept, else what comes
Read(n, limit) ==
  /\ call = "none"
  /\ IF pending # <<>>
     THEN /\ Given(SubSeq(pending, 1, Least(n, Len(pending))))
          /\ pending' = SubSeq(pending, Least(n, Len(pending)) + 1, Len(pending))
          /\ UNCHANGED <<call, timed, count>>
     ELSE /\ open
          /\ call' = "read" /\ timed' = limit /\ count' = n
          /\ UNCHANGED <<pending, past>>
  /\ UNCHANGED <<device, open, late, kernel, text, arrived, writing>>

ReadGets ==
  /\ call = "read" /\ Readable
  /\ Given(Gets(count)) /\ kernel' = Taken(count)
  /\ Returns
  /\ UNCHANGED <<device, open, pending, text, arrived, writing>>

ReadTimesOut ==
  /\ call = "read" /\ timed /\ ~Readable
  /\ Returns
  /\ UNCHANGED <<device, open, reading, writing>>

\* ReadExisting: takes what was kept, then asks how much more there is; when
\* the port cannot say (it hung up, or is closed) what was kept is lost
ReadExisting ==
  /\ call = "none"
  /\ pending' = <<>>
  /\ IF open /\ device = "there" /\ kernel # <<>>
     THEN /\ call' = "existing" /\ text' = pending /\ count' = Len(kernel)
          /\ UNCHANGED past
     ELSE /\ IF open /\ device = "there" THEN Given(pending) ELSE UNCHANGED past
          /\ UNCHANGED <<call, text, count>>
  /\ UNCHANGED <<device, open, timed, late, kernel, arrived, writing>>

ReadExistingGets ==
  /\ call = "existing" /\ Readable
  /\ Given(text \o Gets(count)) /\ kernel' = Taken(count) /\ text' = <<>>
  /\ Returns
  /\ UNCHANGED <<device, open, pending, arrived, writing>>

\* ReadLine
ReadLine(limit) ==
  /\ call = "none" /\ call' = "line" /\ timed' = limit
  /\ UNCHANGED <<device, open, late, count, reading, writing>>

Ends == {i \in 1..Len(pending) : IsPrefix(NewLine, SubSeq(pending, i, Len(pending)))}
LineLength == (CHOOSE i \in Ends : \A j \in Ends : i <= j) - 1 + Len(NewLine)

ReadLineLoops ==
  /\ call = "line"
  /\ IF Ends # {}
     THEN /\ Given(SubSeq(pending, 1, LineLength))
          /\ pending' = SubSeq(pending, LineLength + 1, Len(pending))
          /\ Returns
     ELSE /\ UNCHANGED <<past, pending>>
          /\ IF (timed /\ late) \/ ~open THEN Returns ELSE call' = "wait" /\ UNCHANGED how
  /\ UNCHANGED <<device, open, kernel, text, arrived, writing>>

ReadLineGets ==
  /\ call = "wait" /\ Readable
  /\ pending' = pending \o Gets(Chunk) /\ kernel' = Taken(Chunk)
  /\ call' = "line"
  /\ UNCHANGED <<device, open, how, text, arrived, past, writing>>

\* poll waits for the time that is left
ReadLineTimesOut ==
  /\ call = "wait" /\ timed /\ late /\ ~Readable
  /\ Returns
  /\ UNCHANGED <<device, open, reading, writing>>

-----------------------------------------------------------------------------
\* Write, and WriteLine: the text, then the new line
Write(line, limit) ==
  /\ call = "none" /\ open
  /\ call' = "write" /\ timed' = limit
  /\ rest' = IF line THEN <<Text, NewLine>> ELSE <<Text>>
  /\ asked' = IF line THEN Text \o NewLine ELSE Text
  /\ UNCHANGED <<device, open, late, count, reading, queue, sent>>

\* write takes as much as there is room for
WriteStep ==
  /\ call = "write" /\ rest # <<>> /\ Head(rest) # <<>> /\ queue < Room /\ device = "there"
  /\ LET n == Least(Room - queue, Len(Head(rest)))
     IN  /\ queue' = queue + n
         /\ sent' = sent \o SubSeq(Head(rest), 1, n)
         /\ rest' = [rest EXCEPT ![1] = SubSeq(@, n + 1, Len(@))]
  /\ UNCHANGED <<device, open, call, how, reading, asked>>

\* A buffer is written: the next one
NextBuffer ==
  /\ call = "write" /\ rest # <<>> /\ Head(rest) = <<>> /\ rest' = Tail(rest)
  /\ UNCHANGED <<device, open, call, how, reading, queue, sent, asked>>

\* All is written; or there was no room within the time, or no port: how far
\* it came is not told
WriteEnds ==
  /\ rest' = <<>> /\ sent' = <<>> /\ asked' = <<>>
  /\ Returns
  /\ UNCHANGED <<device, open, reading, queue>>

WriteDone == call = "write" /\ rest = <<>> /\ WriteEnds

WriteFails ==
  /\ call = "write" /\ rest # <<>> /\ Head(rest) # <<>>
  /\ (queue = Room /\ timed) \/ device = "gone"
  /\ WriteEnds

-----------------------------------------------------------------------------
CallStep ==
  \/ ReadGets \/ ReadTimesOut
  \/ ReadExistingGets
  \/ ReadLineLoops \/ ReadLineGets \/ ReadLineTimesOut
  \/ WriteStep \/ NextBuffer \/ WriteDone \/ WriteFails

Next ==
  \/ \E b \in Symbols : Arrives(b)
  \/ Sends \/ Unplug \/ TimePasses
  \/ Open \/ Close \/ DiscardInBuffer \/ DiscardOutBuffer
  \/ \E limit \in BOOLEAN :
       \/ \E n \in 1..2 : Read(n, limit)
       \/ ReadLine(limit)
       \/ \E line \in BOOLEAN : Write(line, limit)
  \/ ReadExisting
  \/ CallStep

\* The calling thread runs, and time passes.
Fairness == WF_portVars(CallStep) /\ WF_portVars(TimePasses)

Spec == Init /\ [][Next]_portVars /\ Fairness

-----------------------------------------------------------------------------
\* The port, the buffers and the calls have their types.
TypeOK ==
  /\ device \in {"there", "gone"} /\ open \in BOOLEAN
  /\ call \in {"none", "read", "existing", "line", "wait", "write"}
  /\ timed \in BOOLEAN /\ late \in BOOLEAN /\ count \in Nat
  /\ {kernel, pending, text, arrived, past, sent, asked} \subseteq Seq(Symbols)
  /\ rest \in Seq(Seq(Symbols)) /\ queue \in 0..Room

\* What the reads gave, in whatever mixture, is what came, in its order: while
\* the port is there nothing is lost or given twice, also by a ReadLine that
\* timed out; after it hung up, the program has a beginning of it.
BytesInOrder ==
  /\ open /\ device = "there" => past \o text \o pending \o kernel = arrived
  /\ IsPrefix(past \o text, arrived)

\* A write that ends well gave the driver all of its buffers, once and in order,
\* however it took them; one that fails, a beginning of them.
WrittenOnce ==
  /\ IsPrefix(sent, asked)
  /\ call = "write" /\ rest = <<>> => sent = asked

\* A call with a time limit comes back, whatever the line does: also when the
\* port hangs up, or bytes come but never a new line.
TimedCallsReturn == (call # "none" /\ timed) ~> call = "none"

=============================================================================

-------------------------------- MODULE Sound --------------------------------
(***************************************************************************)
(* Sound.cpp: playing a WAV or MP3, recording for a time, and recording in *)
(* the background until StopRecording.  The sound card takes and gives as  *)
(* many frames as it likes, has underruns and overruns that it recovers    *)
(* from, and may be pulled out.  Samples are counted, not kept; volumes    *)
(* and mute switches go straight to the card and are left out.             *)
(*                                                                         *)
(* One thread of the program calls; a recorder thread runs beside it.      *)
(***************************************************************************)
EXTENDS Integers

CONSTANTS
  FrameSize,    \* bytes of a frame
  Buffer,       \* frames of PlayWav's buffer, 4096 in the code
  Lengths,      \* bytes that a played file's "data" chunk has
  MaxData,      \* the largest size that a recording's header can say
  MaxFrames     \* bound: frames that are recorded

VARIABLES
  call,         \* the program's call: "none", "play", "write", "record", "stop", "dispose", "disposed"
  card,         \* "there" or "gone"
  pcms,         \* PCM devices that are open: subset of {"play", "record", "recorder"}
  source,       \* bytes of the file still unread by PlayWav
  left,         \* ... that it means to read
  pending,      \* bytes in its buffer
  toWrite,      \* frames that WritePcm has still to write
  played,       \* frames the card took
  length,       \* the played file's data
  recording,    \* the flag
  recorder,     \* the thread: "none", "reads", "ended"
  bytes,        \* what it has written after the header
  output        \* the recording: [open, says, holds]

soundVars == <<call, card, pcms, source, left, pending, toWrite, played, length,
               recording, recorder, bytes, output>>
playing == <<source, left, pending, toWrite, played, length>>
taping == <<recording, recorder, bytes, output>>

Min(m, n) == IF m < n THEN m ELSE n
NoFile == [open |-> FALSE, says |-> 0, holds |-> 0]

Init ==
  /\ call = "none" /\ card = "there" /\ pcms = {}
  /\ source = 0 /\ left = 0 /\ pending = 0 /\ toWrite = 0 /\ played = 0 /\ length = 0
  /\ recording = FALSE /\ recorder = "none" /\ bytes = 0 /\ output = NoFile

Unplug ==
  /\ card = "there" /\ card' = "gone"
  /\ UNCHANGED <<call, pcms, playing, taping>>

-----------------------------------------------------------------------------
\* PlayWav: the chunks up to "data", then buffer after buffer.  The chunk may
\* say more than there is, or 0 (a stream: all there is, and more if there were).
PlayWav(n, says) ==
  /\ call = "none" /\ card = "there"
  /\ call' = "play" /\ pcms' = pcms \cup {"play"}
  /\ source' = n /\ left' = (IF says = 0 THEN n + 1 ELSE says) /\ length' = Min(n, left')
  /\ pending' = 0 /\ toWrite' = 0 /\ played' = 0
  /\ UNCHANGED <<card, taping>>

\* Mutant: what was played is not taken off what is pending
ReadBufferKeepsAll ==
  LET got == Min(Min(Buffer * FrameSize - pending, left), source) IN
  /\ call = "play" /\ left > 0 /\ got > 0
  /\ source' = source - got /\ left' = left - got
  /\ toWrite' = (pending + got) \div FrameSize
  /\ pending' = pending + got
  /\ call' = "write"
  /\ UNCHANGED <<card, pcms, played, length, taping>>

\* The reader gives what there is, up to what was asked for
ReadBuffer ==
  LET got == Min(Min(Buffer * FrameSize - pending, left), source) IN
  /\ call = "play" /\ left > 0 /\ got > 0
  /\ source' = source - got /\ left' = left - got
  /\ toWrite' = (pending + got) \div FrameSize
  /\ pending' = (pending + got) % FrameSize
  /\ call' = "write"
  /\ UNCHANGED <<card, pcms, played, length, taping>>

\* WritePcm: the card takes some frames, or none and recovers
WritePcm(n) ==
  /\ call = "write" /\ card = "there" /\ n <= toWrite
  /\ toWrite' = toWrite - n /\ played' = played + n
  /\ call' = IF toWrite' = 0 THEN "play" ELSE "write"
  /\ UNCHANGED <<card, pcms, source, left, pending, length, taping>>

\* pcm_recover cannot: the device is closed, and the call throws
WriteFails ==
  /\ call = "write" /\ card = "gone"
  /\ pcms' = pcms \ {"play"} /\ call' = "none"
  /\ source' = 0 /\ left' = 0 /\ pending' = 0 /\ toWrite' = 0 /\ played' = 0 /\ length' = 0
  /\ UNCHANGED <<card, taping>>

\* pcm_drain and pcm_close
PlayEnds ==
  /\ call = "play" /\ (left = 0 \/ source = 0)
  /\ pcms' = pcms \ {"play"} /\ call' = "none"
  /\ UNCHANGED <<card, playing, taping>>

-----------------------------------------------------------------------------
\* Record: the header says what it is going to be, and the card fills it.
\* Bound: not more than a header can say (4 GB).
Record(frames) ==
  /\ call = "none" /\ ~recording /\ recorder = "none" /\ card = "there"
  /\ frames * FrameSize <= MaxData
  /\ call' = "record" /\ pcms' = pcms \cup {"record"}
  /\ toWrite' = frames
  /\ output' = [open |-> TRUE, says |-> frames * FrameSize, holds |-> 0]
  /\ UNCHANGED <<card, source, left, pending, played, length, recording, recorder, bytes>>

RecordReads(n) ==
  /\ call = "record" /\ card = "there" /\ n <= toWrite
  /\ toWrite' = toWrite - n
  /\ output' = [output EXCEPT !.holds = @ + n * FrameSize]
  /\ UNCHANGED <<call, card, pcms, source, left, pending, played, length, recording, recorder, bytes>>

RecordEnds ==
  /\ call = "record" /\ (toWrite = 0 \/ card = "gone")
  /\ call' = "none" /\ pcms' = pcms \ {"record"}
  /\ output' = IF toWrite = 0 THEN [output EXCEPT !.open = FALSE] ELSE NoFile
  /\ toWrite' = 0
  /\ UNCHANGED <<card, source, left, pending, played, length, recording, recorder, bytes>>

-----------------------------------------------------------------------------
\* StartRecording: refused while it records; the file and the card, which may
\* refuse; a header without sizes; the flag; the thread
StartRecording ==
  /\ call = "none" /\ ~recording
  /\ IF card = "gone"
     THEN UNCHANGED <<pcms, taping>>
     ELSE /\ pcms' = pcms \cup {"recorder"}
          /\ output' = [open |-> TRUE, says |-> 0, holds |-> 0]
          /\ recording' = TRUE /\ recorder' = "reads" /\ bytes' = 0
  /\ UNCHANGED <<call, card, playing>>

\* The recorder: reads until the flag is off or the card is gone
Records(n) ==
  /\ recorder = "reads" /\ recording /\ card = "there"
  /\ output.holds + n * FrameSize <= MaxFrames * FrameSize
  /\ bytes' = bytes + n * FrameSize
  /\ output' = [output EXCEPT !.holds = @ + n * FrameSize]
  /\ UNCHANGED <<call, card, pcms, playing, recording, recorder>>

\* ... then the header's sizes, as far as they can say it
RecorderEnds ==
  /\ recorder = "reads" /\ (~recording \/ card = "gone")
  /\ recorder' = "ended"
  /\ pcms' = pcms \ {"recorder"}
  /\ output' = [output EXCEPT !.open = FALSE, !.says = Min(bytes, MaxData)]
  /\ UNCHANGED <<call, card, playing, recording, bytes>>

\* StopRecording, and the destructor, which begins with it
StopRecording(next) ==
  /\ call = "none" /\ next \in {"stop", "dispose"}
  /\ recording' = FALSE
  /\ call' = next
  /\ UNCHANGED <<card, pcms, playing, recorder, bytes, output>>

Joined ==
  /\ call \in {"stop", "dispose"} /\ recorder \in {"none", "ended"}
  /\ recorder' = "none"
  /\ call' = IF call = "dispose" THEN "disposed" ELSE "none"
  /\ UNCHANGED <<card, pcms, playing, recording, bytes, output>>

Next ==
  \/ Unplug
  \/ \E n, says \in Lengths : PlayWav(n, says)
  \/ ReadBuffer
  \/ \E n \in 0..Buffer : WritePcm(n)
  \/ WriteFails \/ PlayEnds
  \/ \E n \in 0..MaxFrames : Record(n) \/ RecordReads(n) \/ Records(n)
  \/ RecordEnds
  \/ StartRecording \/ RecorderEnds
  \/ \E next \in {"stop", "dispose"} : StopRecording(next)
  \/ Joined

\* The recorder runs on, and the program's call.
Fairness == WF_soundVars(RecorderEnds) /\ WF_soundVars(Joined)

Spec == Init /\ [][Next]_soundVars /\ Fairness

-----------------------------------------------------------------------------
\* The call, the card, the counters and the files have their types.
TypeOK ==
  /\ call \in {"none", "play", "write", "record", "stop", "dispose", "disposed"}
  /\ card \in {"there", "gone"} /\ pcms \subseteq {"play", "record", "recorder"}
  /\ pending \in 0..FrameSize - 1 /\ toWrite \in Nat /\ played \in Nat
  /\ recording \in BOOLEAN /\ recorder \in {"none", "reads", "ended"}
  /\ output.open \in BOOLEAN

\* Every whole frame of a file is played once, and nothing but whole frames,
\* however the reader and the card cut it.
PlaysItAll ==
  /\ call \in {"play", "write"} =>
       played * FrameSize + toWrite * FrameSize + pending + Min(left, source) = length
  /\ call = "none" => played = length \div FrameSize

\* A recording that is closed says how much it holds, as far as a header can;
\* and when the program's last call is back no device and no file is left open,
\* whether the card was pulled out or not.
RecordsItAll ==
  /\ ~output.open => output.says = Min(output.holds, MaxData)
  /\ call \in {"none", "disposed"} /\ ~recording =>
       ~output.open /\ pcms = {} /\ recorder = "none"

\* StopRecording and the destructor come back.
StopReturns == call \in {"stop", "dispose"} ~> call \in {"none", "disposed"}

=============================================================================

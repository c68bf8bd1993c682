------------------------------- MODULE Commands -------------------------------
(***************************************************************************)
(* SystemCommands.cpp: threads that run the system's tools (modprobe, ip). *)
(* Run makes two pipes, starts the tool with their write ends as its       *)
(* outputs, reads both until the tool closed them or the time is up, and   *)
(* waits for its exit status, which only decides whether Run throws.       *)
(*                                                                         *)
(* A process is named by the thread that started it.  The tools start no   *)
(* others, and poll does not fail.                                         *)
(***************************************************************************)
EXTENDS Integers

CONSTANTS
  Threads,
  Lib,          \* the program's process, which is no thread's tool
  Capacity,     \* bytes that a pipe holds
  Buffer,       \* bytes that Run reads at once, 512 in the code
  MaxWritten    \* bound: thread -> bytes that its tool writes

Outputs == {"out", "error"}
Processes == Threads \cup {Lib}

VARIABLES
  run,          \* thread -> "idle", "piped", "spawned", "poll", "reap"
  late,         \* threads whose deadline has passed
  child,        \* thread -> its tool: "none", "runs", "ended"
  holders,      \* thread -> output -> processes that have the write end open
  inPipe,       \* thread -> output -> bytes
  reads,        \* thread -> outputs that are still read
  text,         \* thread -> output -> bytes that Run has read
  written       \* history: thread -> output -> bytes that the tool wrote

runVars == <<run, late, child, holders, inPipe, reads, text, written>>

Nothing == [o \in Outputs |-> 0]
NoHolder == [o \in Outputs |-> {}]

Init ==
  /\ run = [t \in Threads |-> "idle"] /\ late = {}
  /\ child = [t \in Threads |-> "none"]
  /\ holders = [t \in Threads |-> NoHolder]
  /\ inPipe = [t \in Threads |-> Nothing] /\ reads = [t \in Threads |-> {}]
  /\ text = [t \in Threads |-> Nothing] /\ written = [t \in Threads |-> Nothing]

-----------------------------------------------------------------------------
(* The tool of thread t.                                                   *)

ToolWrites(t, o) ==
  /\ child[t] = "runs" /\ t \in holders[t][o]
  /\ inPipe[t][o] < Capacity /\ written[t]["out"] + written[t]["error"] < MaxWritten[t]
  /\ inPipe' = [inPipe EXCEPT ![t][o] = @ + 1]
  /\ written' = [written EXCEPT ![t][o] = @ + 1]
  /\ UNCHANGED <<run, late, child, holders, reads, text>>

ToolCloses(t, o) ==
  /\ child[t] = "runs" /\ t \in holders[t][o]
  /\ holders' = [holders EXCEPT ![t][o] = @ \ {t}]
  /\ UNCHANGED <<run, late, child, inPipe, reads, text, written>>

\* What a process has open is closed when it ends
Without(p) == [t \in Threads |-> [o \in Outputs |-> holders[t][o] \ {p}]]

ToolEnds(t) ==
  /\ child[t] = "runs"
  /\ child' = [child EXCEPT ![t] = "ended"]
  /\ holders' = Without(t)
  /\ UNCHANGED <<run, late, inPipe, reads, text, written>>

-----------------------------------------------------------------------------
(* Run.                                                                    *)

\* Two pipes, not inherited by what is started meanwhile (O_CLOEXEC)
Run(t) ==
  /\ run[t] = "idle" /\ run' = [run EXCEPT ![t] = "piped"]
  /\ holders' = [holders EXCEPT ![t] = [o \in Outputs |-> {Lib}]]
  /\ reads' = [reads EXCEPT ![t] = Outputs]
  /\ UNCHANGED <<late, child, inPipe, text, written>>

\* The tool gets the write ends that dup2 made its outputs, and no other
Inherited(t) ==
  [holders EXCEPT ![t] = [o \in Outputs |-> @[o] \cup {t}]]

Spawn(t) ==
  /\ run[t] = "piped" /\ run' = [run EXCEPT ![t] = "spawned"]
  /\ child' = [child EXCEPT ![t] = "runs"]
  /\ holders' = Inherited(t)
  /\ UNCHANGED <<late, inPipe, reads, text, written>>

\* The end of Run: its read ends are closed, and what it read is dropped
Leaves(t) ==
  /\ run' = [run EXCEPT ![t] = "idle"] /\ late' = late \ {t}
  /\ reads' = [reads EXCEPT ![t] = {}]
  /\ inPipe' = [inPipe EXCEPT ![t] = Nothing]
  /\ text' = [text EXCEPT ![t] = Nothing] /\ written' = [written EXCEPT ![t] = Nothing]

\* No such tool
SpawnFails(t) ==
  /\ run[t] = "piped"
  /\ holders' = [holders EXCEPT ![t] = [o \in Outputs |-> @[o] \ {Lib}]]
  /\ Leaves(t)
  /\ UNCHANGED child

\* Run's own write ends are closed: only the tool's keep the pipes open
ClosesWriteEnds(t) ==
  /\ run[t] = "spawned" /\ run' = [run EXCEPT ![t] = "poll"]
  /\ holders' = [holders EXCEPT ![t] = [o \in Outputs |-> @[o] \ {Lib}]]
  /\ UNCHANGED <<late, child, inPipe, reads, text, written>>

\* What poll tells: there are bytes, or no one has the write end open
Ready(t, o) == o \in reads[t] /\ (inPipe[t][o] > 0 \/ holders[t][o] = {})
Asleep(t) == run[t] = "poll" /\ reads[t] # {} /\ \A o \in Outputs : ~Ready(t, o)

TimePasses(t) ==
  /\ run[t] = "poll" /\ t \notin late /\ late' = late \cup {t}
  /\ UNCHANGED <<run, child, holders, inPipe, reads, text, written>>

Read(t, o) == IF ~Ready(t, o) THEN 0
              ELSE IF inPipe[t][o] < Buffer THEN inPipe[t][o] ELSE Buffer

\* One read from each output that is ready; one with nothing left is done
Reads(t) ==
  /\ run[t] = "poll" /\ t \notin late
  /\ \E o \in Outputs : Ready(t, o)
  /\ inPipe' = [inPipe EXCEPT ![t] = [o \in Outputs |-> @[o] - Read(t, o)]]
  /\ text' = [text EXCEPT ![t] = [o \in Outputs |-> @[o] + Read(t, o)]]
  /\ reads' = [reads EXCEPT ![t] = {o \in @ : ~Ready(t, o) \/ inPipe[t][o] > 0}]
  /\ run' = IF reads'[t] = {} THEN [run EXCEPT ![t] = "reap"] ELSE run
  /\ UNCHANGED <<late, child, holders, written>>

\* Too long: SIGKILL, waitpid, and an error
GivesUp(t) ==
  /\ run[t] = "poll" /\ t \in late
  /\ child' = [child EXCEPT ![t] = "none"]
  /\ holders' = Without(t)
  /\ Leaves(t)

\* waitpid, however long it takes
Reaps(t) ==
  /\ run[t] = "reap" /\ child[t] = "ended"
  /\ child' = [child EXCEPT ![t] = "none"]
  /\ Leaves(t)
  /\ UNCHANGED holders

RunStep(t) ==
  Spawn(t) \/ SpawnFails(t) \/ ClosesWriteEnds(t) \/ Reads(t) \/ GivesUp(t) \/ Reaps(t)

Next ==
  \E t \in Threads :
    \/ \E o \in Outputs : ToolWrites(t, o) \/ ToolCloses(t, o)
    \/ ToolEnds(t)
    \/ Run(t) \/ TimePasses(t) \/ RunStep(t)

\* The threads run on, and time passes; a tool may hang.
Fairness == \A t \in Threads : WF_runVars(RunStep(t)) /\ WF_runVars(TimePasses(t))

Spec == Init /\ [][Next]_runVars /\ Fairness

-----------------------------------------------------------------------------
\* The threads, the tools and the pipes have their types.
TypeOK ==
  \A t \in Threads :
    /\ run[t] \in {"idle", "piped", "spawned", "poll", "reap"}
    /\ child[t] \in {"none", "runs", "ended"}
    /\ reads[t] \subseteq Outputs
    /\ \A o \in Outputs : holders[t][o] \subseteq Processes /\ inPipe[t][o] \in 0..Capacity

\* Run does not sleep until its deadline when the tool has ended, whatever
\* other tools other threads started in the meantime.
EndIsSeen == \A t \in Threads : Asleep(t) => child[t] # "ended"

\* When Run has the tool's status it has everything that the tool wrote (its
\* error message is the reason it gives); when it returns the tool is not left
\* running or unreaped, and no pipe is left open.
NothingLeft ==
  \A t \in Threads :
    /\ run[t] = "reap" => text[t] = written[t]
    /\ run[t] = "idle" => child[t] = "none" /\ reads[t] = {} /\ holders[t] = NoHolder

\* Run comes back, however much the tool writes to whichever output and also
\* when it hangs - unless it closed its outputs before.
Silent(t) == child[t] = "runs" /\ \A o \in Outputs : t \notin holders[t][o]
RunReturns == \A t \in Threads : run[t] # "idle" ~> (run[t] = "idle" \/ Silent(t))

=============================================================================

-------------------------------- MODULE Display --------------------------------
(***************************************************************************)
(* Display.cpp, DisplayStm32.cpp and Display.h: a panel on the display bus *)
(* is two kernel modules and /dev/fb0, which comes a moment after them;    *)
(* its backlight is a GPIO line that a gpioset process holds, and keeps    *)
(* on holding when the program ends.  A file names the process for the     *)
(* next Enable or Disable, of this program or a later one.                 *)
(*                                                                         *)
(* One program at a time uses the display, with one controller; it may     *)
(* end at any step.  fork does not fail, and a gpioset that is told to end *)
(* does so within the second that the library gives it.  What is drawn is  *)
(* left out.                                                               *)
(***************************************************************************)
EXTENDS Integers

CONSTANTS
  Pids,         \* processes that gpioset may be
  None

Levels == {0, 1}
Backlights == {None, "activeHigh", "activeLow"}
Settings == [type : {"none", "parallel"}, panel : BOOLEAN, backlight : Backlights]

VARIABLES
  config,       \* display.json: [type, panel (there are timings), backlight]
  pc,           \* the call's place, "idle" when there is none
  on,           \* what the call does: Enable, or Disable
  loaded,       \* kernel modules
  fb,           \* /dev/fb0 exists
  stream,       \* the controller's framebuffer: "closed", "open", "failed"
  gpioset,      \* process -> "none", "starts", "holds", "told" (to end), "zombie"
  level,        \* process -> the level it was started with
  mine,         \* processes that this program started
  child,        \* the process that ApplyBacklight has just started
  pidfile,      \* the process that the file names, or None
  asked,        \* history: the level that this program last asked for, or None
  strangers     \* history: another program's process was alive when it did

displayVars ==
  <<config, pc, on, loaded, fb, stream, gpioset, level, mine, child, pidfile, asked, strangers>>
panel == <<loaded, fb, stream>>
light == <<gpioset, level, mine, child, pidfile, asked, strangers>>

Init ==
  /\ config \in Settings
  /\ pc = "idle" /\ on = FALSE
  /\ loaded = {} /\ fb = FALSE /\ stream = "closed"
  /\ gpioset = [p \in Pids |-> "none"] /\ level = [p \in Pids |-> 0]
  /\ mine = {} /\ child = None /\ pidfile = None /\ asked = None /\ strangers = FALSE

Alive == {p \in Pids : gpioset[p] \in {"starts", "holds", "told"}}

-----------------------------------------------------------------------------
(* gpioset, the kernel and the end of the program.                         *)

\* A process that ends stays as a zombie until its parent takes its status;
\* the system's first process takes that of an orphan at once
Ended(p) == IF p \in mine THEN "zombie" ELSE "none"

\* The line has one user: a second gpioset gives up
GpiosetStarts(p) ==
  /\ gpioset[p] = "starts"
  /\ gpioset' = [gpioset EXCEPT ![p] = IF \E q \in Pids \ {p} : gpioset[q] \in {"holds", "told"}
                                       THEN Ended(p) ELSE "holds"]
  /\ UNCHANGED <<config, pc, on, panel, level, mine, child, pidfile, asked, strangers>>

GpiosetEnds(p) ==
  /\ gpioset[p] = "told"
  /\ gpioset' = [gpioset EXCEPT ![p] = Ended(p)]
  /\ UNCHANGED <<config, pc, on, panel, level, mine, child, pidfile, asked, strangers>>

FramebufferAppears ==
  /\ loaded = {"stm_drm", "panel-simple"} /\ ~fb /\ fb' = TRUE
  /\ UNCHANGED <<config, pc, on, loaded, stream, light>>

ProgramEnds ==
  /\ pc' = "idle" /\ on' = FALSE /\ stream' = "closed"
  /\ mine' = {} /\ child' = None /\ asked' = None /\ strangers' = FALSE
  /\ gpioset' = [p \in Pids |-> IF gpioset[p] = "zombie" THEN "none" ELSE gpioset[p]]
  /\ UNCHANGED <<config, loaded, fb, level, pidfile>>

\* endpoint_display_set_settings
SetSettings(c) ==
  /\ pc = "idle" /\ config' = c
  /\ UNCHANGED <<pc, on, panel, light>>

-----------------------------------------------------------------------------
\* Enable: nothing when no panel is configured, and no modules without timings
Enable ==
  /\ pc = "idle" /\ config.type = "parallel"
  /\ on' = TRUE /\ pc' = IF config.panel THEN "drm" ELSE "light"
  /\ UNCHANGED <<config, panel, light>>

\* ApplyPanel: stm_drm, then panel-simple; that one is missing is not noticed here
Modprobe(at, module, next, well) ==
  /\ pc = at /\ pc' = next
  /\ loaded' = IF well THEN loaded \cup {module} ELSE loaded
  /\ UNCHANGED <<config, on, fb, stream, light>>

\* Disable: the controller's stream first
Disable ==
  /\ pc = "idle"
  /\ on' = FALSE /\ pc' = "light" /\ stream' = "closed"
  /\ UNCHANGED <<config, loaded, fb, light>>

-----------------------------------------------------------------------------
(* ApplyBacklight.                                                         *)

After == IF on THEN "framebuffer" ELSE "unpanel"
Wanted == IF (config.backlight = "activeLow") = on THEN 0 ELSE 1

\* Without a backlight in the settings, the one that burns is left alone
NoBacklight ==
  /\ pc = "light" /\ config.backlight = None
  /\ pc' = After
  /\ UNCHANGED <<config, on, panel, light>>

\* StopHeldBacklight: SIGTERM to the process that the file names
StopHeldBacklight ==
  /\ pc = "light" /\ config.backlight # None
  /\ pc' = "reap"
  /\ gpioset' = [p \in Pids |-> IF p = pidfile /\ gpioset[p] \in {"starts", "holds"}
                                THEN "told" ELSE gpioset[p]]
  /\ UNCHANGED <<config, on, panel, level, mine, child, pidfile, asked, strangers>>

\* Mutant: the file's process was told to end, and is not waited for
ReapsAtOnce ==
  /\ pc = "reap" /\ pc' = "fork"
  /\ gpioset' = [p \in Pids |-> IF p = pidfile /\ gpioset[p] = "zombie" THEN "none" ELSE gpioset[p]]
  /\ mine' = {p \in mine : p # pidfile \/ gpioset[p] # "zombie"}
  /\ pidfile' = None
  /\ UNCHANGED <<config, on, panel, level, child, asked, strangers>>

\* waitpid, until a child has ended; for a process that is not a child it fails
\* at once and nothing is waited for.  Then the file is removed.
Reaps ==
  /\ pc = "reap" /\ pc' = "fork"
  /\ pidfile \in mine => gpioset[pidfile] \notin {"starts", "holds", "told"}
  /\ gpioset' = [p \in Pids |-> IF p = pidfile /\ gpioset[p] = "zombie" THEN "none" ELSE gpioset[p]]
  /\ mine' = {p \in mine : p # pidfile \/ gpioset[p] # "zombie"}
  /\ pidfile' = None
  /\ UNCHANGED <<config, on, panel, level, child, asked, strangers>>

Fork(p) ==
  /\ pc = "fork" /\ pc' = "name"
  /\ gpioset[p] = "none"
  /\ gpioset' = [gpioset EXCEPT ![p] = "starts"]
  /\ level' = [level EXCEPT ![p] = Wanted]
  /\ mine' = mine \cup {p} /\ child' = p
  /\ asked' = Wanted /\ strangers' = (Alive \ mine # {})
  /\ UNCHANGED <<config, on, panel, pidfile>>

\* The child's pid goes to the file
NameIt ==
  /\ pc = "name" /\ pc' = After
  /\ pidfile' = child /\ child' = None
  /\ UNCHANGED <<config, on, panel, gpioset, level, mine, asked, strangers>>

-----------------------------------------------------------------------------
\* Enable waits for /dev/fb0, and then the controller opens it: a stream that is
\* open already fails to, and takes nothing from then on
Enabled ==
  /\ pc = "framebuffer" /\ fb
  /\ pc' = "idle"
  /\ stream' = IF stream = "closed" THEN "open" ELSE "failed"
  /\ UNCHANGED <<config, on, loaded, fb, light>>

\* ... not for more than 10 s
EnableTimesOut ==
  /\ pc = "framebuffer" /\ ~fb
  /\ pc' = "idle"
  /\ UNCHANGED <<config, on, panel, light>>

\* UnloadPanel: modprobe -r, panel-simple first; what another program uses stays
ModprobeRemoves(at, module, next, well) ==
  /\ pc = at /\ pc' = next
  /\ loaded' = IF well THEN loaded \ {module} ELSE loaded
  /\ fb' = (fb /\ loaded' = loaded)
  /\ UNCHANGED <<config, on, stream, light>>

Next ==
  \/ \E p \in Pids : GpiosetStarts(p) \/ GpiosetEnds(p) \/ Fork(p)
  \/ FramebufferAppears \/ ProgramEnds
  \/ \E c \in Settings : SetSettings(c)
  \/ Enable \/ Disable
  \/ \E well \in BOOLEAN :
       \/ Modprobe("drm", "stm_drm", "panel", well)
       \/ Modprobe("panel", "panel-simple", "light", well)
       \/ ModprobeRemoves("unpanel", "panel-simple", "undrm", well)
       \/ ModprobeRemoves("undrm", "stm_drm", "idle", well)
  \/ NoBacklight \/ StopHeldBacklight \/ Reaps \/ NameIt
  \/ Enabled \/ EnableTimesOut

Spec == Init /\ [][Next]_displayVars

-----------------------------------------------------------------------------
\* The settings, the modules and the processes have their types.
TypeOK ==
  /\ config \in Settings
  /\ loaded \subseteq {"stm_drm", "panel-simple"} /\ fb \in BOOLEAN
  /\ stream \in {"closed", "open", "failed"}
  /\ level \in [Pids -> Levels] /\ mine \subseteq Pids
  /\ pidfile \in Pids \cup {None} /\ asked \in Levels \cup {None}

\* A program never starts a gpioset beside one of its own that still has the
\* line, so that the newest request wins...
OneHolder == \A p, q \in Alive \cap mine : p = q

\* ... and unless an earlier program's was still there, once the call is over the
\* one that the file names has the line, or is about to, at the level that the
\* last Enable or Disable asked for.
BacklightAsAsked ==
  pc \notin {"light", "reap", "fork", "name"} /\ asked # None /\ ~strangers =>
    /\ Alive = {pidfile} /\ gpioset[pidfile] \in {"starts", "holds"}
    /\ level[pidfile] = asked

=============================================================================

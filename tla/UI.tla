--------------------------------- MODULE UI ---------------------------------
(***************************************************************************)
(* UI.cpp, with what endpoint/UI.h adds: LVGL is initialized once, for the *)
(* framebuffer or for a display that the program flushes itself; Run pumps *)
(* it until Stop; timers call the program from the pump and are made and   *)
(* deleted on any thread; a touch chip's thread feeds points, which the    *)
(* pump reads.  What is pumped, LVGL's own lists, which have no lock       *)
(* either, and the widgets (see Widgets) are left out.                     *)
(***************************************************************************)
EXTENDS Integers, FiniteSets

CONSTANTS
  Threads,      \* the program's, one of which may be in Run
  Timers,
  FedPoints,    \* what the touch chip feeds: [x, y, pressed]
  MaxFeeds,     \* bound: how often it does
  None

VARIABLES
  initialized,  \* g_initialized
  displays,     \* how many displays LVGL was given
  running,      \* g_running
  pc,           \* thread -> where it is
  timers,       \* LVGL's timers
  slots,        \* the TimerSlots allocated
  fires,        \* thread -> the timer whose trampoline it is in
  deleting,     \* thread -> the timer whose slot it is about to free
  overtook,     \* threads whose trampoline had a slot that another has freed (history)
  attached,     \* g_touch_indev
  touch,        \* g_touch_x, g_touch_y, g_touch_pressed
  feed,         \* the feed that goes on: its point, and the stores done
  feeds,
  sees,         \* the point that LVGL has
  readings      \* TouchReadCb's three loads: how many are done

loop == <<initialized, displays, running, pc>>
clock == <<timers, slots, fires, deleting, overtook>>
finger == <<attached, touch, feed, feeds, sees, readings>>
uiVars == <<initialized, displays, running, pc, timers, slots, fires, deleting, overtook,
            attached, touch, feed, feeds, sees, readings>>

\* The point before the first
Untouched == [x |-> 0, y |-> 0, pressed |-> FALSE]

NoFeed == [point |-> Untouched, stored |-> 3]

UIInit ==
  /\ initialized = FALSE /\ displays = 0 /\ running = FALSE
  /\ pc = [t \in Threads |-> "idle"]
  /\ timers = {} /\ slots = {} /\ fires = [t \in Threads |-> None]
  /\ deleting = [t \in Threads |-> None] /\ overtook = {}
  /\ attached = FALSE /\ touch = Untouched /\ feed = NoFeed /\ feeds = 0
  /\ sees = Untouched /\ readings = 3

Goes(t, place) == pc' = [pc EXCEPT ![t] = place]

\* A thread calls the library from its own code or from a timer's callback
MayCall(t) == pc[t] \in {"idle", "call"} /\ deleting[t] = None

-----------------------------------------------------------------------------
\* Mutant: the flag is set, not tested
InitializeAgain(t, how) ==
  /\ pc[t] = "idle" /\ deleting[t] = None
  /\ initialized' = TRUE
  /\ Goes(t, how)
  /\ UNCHANGED <<displays, running, clock, finger>>

\* Both initializations: whoever sets the flag first goes on, others return
Initialize(t, how) ==
  /\ pc[t] = "idle" /\ deleting[t] = None
  /\ initialized' = TRUE
  /\ Goes(t, IF initialized THEN "idle" ELSE how)
  /\ UNCHANGED <<displays, running, clock, finger>>

DisplayMade(t) ==
  /\ pc[t] \in {"framebuffer", "custom"}
  /\ displays' = displays + 1
  /\ Goes(t, "idle")
  /\ UNCHANGED <<initialized, running, clock, finger>>

\* No display, or a custom one of no size or without a flush callback
DisplayFails(t) ==
  /\ pc[t] \in {"framebuffer", "custom"}
  /\ initialized' = FALSE
  /\ Goes(t, "idle")
  /\ UNCHANGED <<displays, running, clock, finger>>

\* ResolveFormat throws past the line that would take the flag back
FormatRefused(t) ==
  /\ pc[t] = "custom"
  /\ Goes(t, "idle")
  /\ UNCHANGED <<initialized, displays, running, clock, finger>>

-----------------------------------------------------------------------------
Run(t) ==
  /\ pc[t] = "idle" /\ deleting[t] = None /\ initialized
  /\ \A u \in Threads : pc[u] \in {"idle", "framebuffer", "custom"}
  /\ running' = TRUE
  /\ Goes(t, "loop")
  /\ UNCHANGED <<initialized, displays, clock, finger>>

Stop(t) ==
  /\ MayCall(t)
  /\ running' = FALSE
  /\ UNCHANGED <<initialized, displays, pc, clock, finger>>

Loop(t) ==
  /\ pc[t] = "loop"
  /\ Goes(t, IF running THEN "pump" ELSE "idle")
  /\ readings' = IF running /\ attached THEN 0 ELSE 3
  /\ UNCHANGED <<initialized, displays, running, clock, attached, touch, feed, feeds, sees>>

\* lv_timer_handler comes back: the pointer is read, and no timer is due (or more)
Pumped(t) ==
  /\ pc[t] = "pump" /\ readings = 3
  /\ Goes(t, "loop")
  /\ UNCHANGED <<initialized, displays, running, clock, finger>>

\* A timer is due: TimerTrampoline has the slot, and then calls what is in it
Fire(t, timer) ==
  /\ pc[t] = "pump" /\ readings = 3 /\ timer \in timers
  /\ fires' = [fires EXCEPT ![t] = timer]
  /\ Goes(t, "fire")
  /\ UNCHANGED <<initialized, displays, running, timers, slots, deleting, overtook, finger>>

Calls(t) ==
  /\ pc[t] = "fire"
  /\ overtook' = overtook \ {t}
  /\ Goes(t, "call")
  /\ UNCHANGED <<initialized, displays, running, timers, slots, fires, deleting, finger>>

CallbackReturns(t) ==
  /\ pc[t] = "call" /\ deleting[t] = None
  /\ fires' = [fires EXCEPT ![t] = None]
  /\ Goes(t, "pump")
  /\ UNCHANGED <<initialized, displays, running, timers, slots, deleting, overtook, finger>>

TimerCreate(t, timer) ==
  /\ MayCall(t) /\ initialized
  /\ timer \notin timers \cup slots
  /\ \A u \in Threads : fires[u] # timer
  /\ timers' = timers \cup {timer} /\ slots' = slots \cup {timer}
  /\ UNCHANGED <<loop, fires, deleting, overtook, finger>>

\* TimerDelete: LVGL's timer, then its slot
TimerDelete(t, timer) ==
  /\ MayCall(t) /\ timer \in timers
  /\ timers' = timers \ {timer} /\ deleting' = [deleting EXCEPT ![t] = timer]
  /\ UNCHANGED <<loop, slots, fires, overtook, finger>>

Frees(t) ==
  LET timer == deleting[t] IN
  /\ timer # None
  /\ slots' = slots \ {timer} /\ deleting' = [deleting EXCEPT ![t] = None]
  /\ overtook' = overtook \cup {u \in Threads \ {t} : pc[u] = "fire" /\ fires[u] = timer}
  /\ UNCHANGED <<loop, timers, fires, finger>>

-----------------------------------------------------------------------------
TouchAttach(t) ==
  /\ MayCall(t) /\ displays > 0
  /\ attached' = TRUE
  /\ UNCHANGED <<loop, clock, touch, feed, feeds, sees, readings>>

\* TouchFeed on the touch chip's thread: three stores, and TouchReadCb on the
\* pump's thread: three loads, each in this order
Coordinate(n) == <<"x", "y", "pressed">>[n]

TouchFeed(point) ==
  /\ feed.stored = 3 /\ feeds < MaxFeeds
  /\ feed' = [point |-> point, stored |-> 0]
  /\ feeds' = feeds + 1
  /\ UNCHANGED <<loop, clock, attached, touch, sees, readings>>

Stores ==
  /\ feed.stored < 3
  /\ LET f == Coordinate(feed.stored + 1) IN touch' = [touch EXCEPT ![f] = feed.point[f]]
  /\ feed' = [feed EXCEPT !.stored = @ + 1]
  /\ UNCHANGED <<loop, clock, attached, feeds, sees, readings>>

TouchReadCb ==
  /\ readings < 3
  /\ LET f == Coordinate(readings + 1) IN sees' = [sees EXCEPT ![f] = touch[f]]
  /\ readings' = readings + 1
  /\ UNCHANGED <<loop, clock, attached, touch, feed, feeds>>

-----------------------------------------------------------------------------
ThreadStep(t) == Loop(t) \/ Pumped(t) \/ Calls(t) \/ CallbackReturns(t) \/ Frees(t)
                 \/ DisplayMade(t) \/ DisplayFails(t) \/ FormatRefused(t)

UINext ==
  \/ \E t \in Threads :
       \/ \E how \in {"framebuffer", "custom"} : Initialize(t, how)
       \/ ThreadStep(t)
       \/ Run(t)
       \/ Stop(t)
       \/ \E timer \in Timers : Fire(t, timer) \/ TimerCreate(t, timer) \/ TimerDelete(t, timer)
       \/ TouchAttach(t)
  \/ \E point \in FedPoints : TouchFeed(point)
  \/ Stores
  \/ TouchReadCb

\* Threads run on, the touch chip's too, no callback lasts for ever, and
\* LVGL's handler comes back: it calls a due timer once.  Of the timers, Stop
\* and the program's calls nothing is assumed.
UIFairness ==
  /\ \A t \in Threads : WF_uiVars(ThreadStep(t)) /\ SF_uiVars(Pumped(t))
  /\ WF_uiVars(Stores) /\ WF_uiVars(TouchReadCb)

UISpec == UIInit /\ [][UINext]_uiVars /\ UIFairness

-----------------------------------------------------------------------------
Places == {"idle", "framebuffer", "custom", "loop", "pump", "fire", "call"}

\* The flags, the threads' places and the touch state have their types.
UITypeOK ==
  /\ initialized \in BOOLEAN /\ displays \in Nat /\ running \in BOOLEAN
  /\ pc \in [Threads -> Places]
  /\ timers \subseteq Timers /\ slots \subseteq Timers
  /\ fires \in [Threads -> Timers \cup {None}] /\ deleting \in [Threads -> Timers \cup {None}]
  /\ overtook \subseteq Threads
  /\ attached \in BOOLEAN /\ readings \in 0..3 /\ feed.stored \in 0..3

\* However the threads that initialize LVGL meet, and whatever failed before,
\* it gets one display: the flag is taken back only where none was made.
OneDisplay == displays <= 1

\* Stop ends Run, wherever the pump and its callbacks are, unless Run is
\* called anew; a Stop before Run is lost.
StopEndsRun ==
  \A t \in Threads : (pc[t] # "idle" /\ ~running) ~> (pc[t] = "idle" \/ running)

\* The last point fed is the one that LVGL has in the end, unless Stop comes.
TouchSettles ==
  (attached /\ running /\ feeds = MaxFeeds) ~> (sees = feed.point \/ ~running)

\* What the trampoline calls has not been freed by a TimerDelete.
NoStaleCallback == \A t \in Threads : pc[t] = "fire" => fires[t] \in slots

\* ... or else it had its slot when another thread deleted the timer: a timer that
\* was deleted before it came due is not called, on whatever thread it was deleted
\* (UI.cpp:234-240 takes it from LVGL before it frees the slot).
NoDeletedFires == \A t \in Threads : pc[t] = "fire" => fires[t] \in slots \/ t \in overtook

=============================================================================

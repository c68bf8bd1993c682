---------------------------- MODULE Devices_proofs ----------------------------
(***************************************************************************)
(* Proofs about the seven components of Devices, one after the other, for  *)
(* any threads, interfaces, fingers, frames, bytes and tools; and about    *)
(* the program that uses them.  What is said of all but UI is said of      *)
(* their instances there.                                                  *)
(***************************************************************************)
EXTENDS Devices, FiniteSetTheorems, SequenceTheorems, WellFoundedInduction, TLAPS

-----------------------------------------------------------------------------
(* UI: LVGL gets one display, and no timer is called after it was freed.   *)

Starting == {t \in Threads : pc[t] \in {"framebuffer", "custom"}}

FeedType == [point : FedPoints \cup {Untouched}, stored : 0..3]

(* UITypeOK, with the feed's fields                                        *)
UITypes == UITypeOK /\ feed \in FeedType

(* Whoever made the flag TRUE is alone until there is a display.           *)
StartsAlone ==
  /\ \A t \in Starting : initialized = TRUE /\ displays = 0
  /\ \A t, u \in Starting : t = u
  /\ displays > 0 => initialized = TRUE
  /\ displays <= 1

UIInv == UITypes /\ StartsAlone

\* A thread that goes on is at its new there, all others are where they were.
LEMMA GoesOn ==
  ASSUME NEW t \in Threads, NEW there \in Places, UITypeOK, Goes(t, there)
  PROVE  /\ pc' \in [Threads -> Places] /\ pc'[t] = there
         /\ \A u \in Threads \ {t} : pc'[u] = pc[u]
BY DEF Goes, UITypeOK

\* Nobody initializes at the start.
LEMMA UIInvInit == UIInit => UIInv
<1> SUFFICES ASSUME UIInit PROVE UIInv
  OBVIOUS
<1>1. initialized \in BOOLEAN /\ running \in BOOLEAN /\ attached \in BOOLEAN
  BY Zenon DEF UIInit
<1>2. UITypeOK
  BY <1>1 DEF UIInit, UITypeOK, Places, NoFeed
<1>3. feed \in FeedType
  BY DEF UIInit, FeedType, NoFeed
<1>4. StartsAlone
  BY DEF UIInit, StartsAlone, Starting
<1> QED BY <1>2, <1>3, <1>4 DEF UIInv, UITypes

-----------------------------------------------------------------------------
\* What moves no thread into an initialization, and leaves the flag and the
\* display alone, leaves whoever initializes alone.
LEMMA OthersStart ==
  ASSUME UIInv, UNCHANGED <<initialized, displays>>,
         \A t \in Threads : pc'[t] = pc[t] \/ pc'[t] \notin {"framebuffer", "custom"}
  PROVE  StartsAlone'
BY DEF UIInv, StartsAlone, Starting

\* The first to set the flag goes on alone; the others return.
LEMMA InitializeKeeps ==
  ASSUME UIInv, NEW t \in Threads, NEW how \in {"framebuffer", "custom"}, Initialize(t, how)
  PROVE  UIInv'
<1> USE DEF UIInv, UITypes
<1>0. /\ initialized' = TRUE /\ Goes(t, IF initialized THEN "idle" ELSE how)
      /\ UNCHANGED <<displays, running, clock, finger>>
  BY DEF Initialize
<1>1. /\ pc' \in [Threads -> Places]
      /\ pc'[t] = (IF initialized THEN "idle" ELSE how)
      /\ \A u \in Threads \ {t} : pc'[u] = pc[u]
  BY <1>0, GoesOn DEF Places
<1>2. UITypes'
  <2>1. initialized' \in BOOLEAN
    BY <1>0, Zenon
  <2> QED BY <1>0, <1>1, <2>1 DEF UITypeOK, clock, finger, FeedType
<1>3. StartsAlone'
  <2>1. CASE initialized = TRUE
    BY <1>0, <1>1, <2>1 DEF StartsAlone, Starting
  <2>2. CASE initialized = FALSE
    <3>1. Starting = {} /\ displays = 0
      BY <2>2 DEF StartsAlone, UITypeOK
    <3>2. Starting' = {t}
      BY <1>1, <2>2, <3>1 DEF Starting
    <3> QED BY <1>0, <3>1, <3>2 DEF StartsAlone
  <2> QED BY <2>1, <2>2 DEF UITypeOK
<1> QED BY <1>2, <1>3

\* ... and makes the display, or takes the flag back, or leaves it.
LEMMA DisplayMadeKeeps ==
  ASSUME UIInv, NEW t \in Threads, DisplayMade(t)
  PROVE  UIInv'
<1> USE DEF UIInv, UITypes
<1>0. /\ t \in Starting /\ displays' = displays + 1 /\ Goes(t, "idle")
      /\ UNCHANGED <<initialized, running, clock, finger>>
  BY DEF DisplayMade, Starting
<1>1. /\ pc' \in [Threads -> Places] /\ pc'[t] = "idle"
      /\ \A u \in Threads \ {t} : pc'[u] = pc[u]
  BY <1>0, GoesOn DEF Places
<1>2. UITypes'
  BY <1>0, <1>1 DEF UITypeOK, clock, finger, FeedType
<1>3. Starting' = {}
  BY <1>0, <1>1 DEF StartsAlone, Starting
<1> QED BY <1>0, <1>2, <1>3 DEF StartsAlone

LEMMA DisplayFailsKeeps ==
  ASSUME UIInv, NEW t \in Threads, DisplayFails(t) \/ FormatRefused(t)
  PROVE  UIInv'
<1> USE DEF UIInv, UITypes
<1>0. /\ t \in Starting /\ initialized' \in {initialized, FALSE} /\ Goes(t, "idle")
      /\ UNCHANGED <<displays, running, clock, finger>>
  BY DEF DisplayFails, FormatRefused, Starting
<1>1. /\ pc' \in [Threads -> Places] /\ pc'[t] = "idle"
      /\ \A u \in Threads \ {t} : pc'[u] = pc[u]
  BY <1>0, GoesOn DEF Places
<1>2. UITypes'
  <2>1. initialized' \in BOOLEAN
    BY <1>0, Zenon DEF UITypeOK
  <2> QED BY <1>0, <1>1, <2>1 DEF UITypeOK, clock, finger, FeedType
<1>3. Starting' = {} /\ displays = 0
  BY <1>0, <1>1 DEF StartsAlone, Starting
<1> QED BY <1>0, <1>2, <1>3 DEF StartsAlone

\* The loop and its pump, which initialize nothing.
LEMMA LoopKeeps ==
  ASSUME UIInv, NEW t \in Threads,
         Run(t) \/ Stop(t) \/ Loop(t) \/ Pumped(t) \/ Calls(t) \/ CallbackReturns(t)
         \/ \E timer \in Timers : Fire(t, timer)
  PROVE  UIInv'
<1> USE DEF UIInv, UITypes
<1>1. CASE Run(t)
  <2>1. running' \in BOOLEAN
    BY <1>1, Zenon DEF Run
  <2>2. /\ pc' \in [Threads -> Places] /\ pc'[t] = "loop"
        /\ \A u \in Threads \ {t} : pc'[u] = pc[u]
    BY <1>1, GoesOn DEF Run, Places
  <2> QED BY <1>1, <2>1, <2>2, OthersStart DEF Run, UITypeOK, clock, finger, FeedType
<1>2. CASE Stop(t)
  <2>1. running' \in BOOLEAN
    BY <1>2, Zenon DEF Stop
  <2> QED BY <1>2, <2>1, OthersStart DEF Stop, UITypeOK, clock, finger, FeedType
<1>3. CASE Loop(t)
  <2>1. /\ pc' \in [Threads -> Places] /\ pc'[t] \in {"pump", "idle"}
        /\ \A u \in Threads \ {t} : pc'[u] = pc[u]
    BY <1>3, GoesOn DEF Loop, Places
  <2>2. readings' \in 0..3
    BY <1>3 DEF Loop
  <2> QED BY <1>3, <2>1, <2>2, OthersStart DEF Loop, UITypeOK, clock, finger, FeedType
<1>4. CASE Pumped(t)
  <2>1. /\ pc' \in [Threads -> Places] /\ pc'[t] = "loop"
        /\ \A u \in Threads \ {t} : pc'[u] = pc[u]
    BY <1>4, GoesOn DEF Pumped, Places
  <2> QED BY <1>4, <2>1, OthersStart DEF Pumped, UITypeOK, clock, finger, FeedType
<1>5. CASE Calls(t)
  <2>1. /\ pc' \in [Threads -> Places] /\ pc'[t] = "call"
        /\ \A u \in Threads \ {t} : pc'[u] = pc[u]
    BY <1>5, GoesOn DEF Calls, Places
  <2> QED BY <1>5, <2>1, OthersStart DEF Calls, UITypeOK, finger, FeedType
<1>6. CASE CallbackReturns(t)
  <2>1. /\ pc' \in [Threads -> Places] /\ pc'[t] = "pump"
        /\ \A u \in Threads \ {t} : pc'[u] = pc[u]
    BY <1>6, GoesOn DEF CallbackReturns, Places
  <2>2. fires' \in [Threads -> Timers \cup {None}]
    BY <1>6 DEF CallbackReturns, UITypeOK
  <2> QED BY <1>6, <2>1, <2>2, OthersStart DEF CallbackReturns, UITypeOK, clock, finger, FeedType
<1>7. ASSUME NEW timer \in Timers, Fire(t, timer) PROVE UIInv'
  <2>1. /\ pc' \in [Threads -> Places] /\ pc'[t] = "fire"
        /\ \A u \in Threads \ {t} : pc'[u] = pc[u]
    BY <1>7, GoesOn DEF Fire, Places
  <2>2. fires' \in [Threads -> Timers \cup {None}]
    BY <1>7 DEF Fire, UITypeOK
  <2> QED BY <1>7, <2>1, <2>2, OthersStart DEF Fire, UITypeOK, clock, finger, FeedType
<1> QED BY <1>1, <1>2, <1>3, <1>4, <1>5, <1>6, <1>7

\* Timers and the touch chip leave the threads where they are.
LEMMA AsideKeeps ==
  ASSUME UIInv,
         \/ \E t \in Threads, timer \in Timers : TimerCreate(t, timer) \/ TimerDelete(t, timer)
         \/ \E t \in Threads : Frees(t)
         \/ \E t \in Threads : TouchAttach(t)
         \/ \E point \in FedPoints : TouchFeed(point)
         \/ Stores \/ TouchReadCb
         \/ UNCHANGED uiVars
  PROVE  UIInv'
<1> USE DEF UIInv, UITypes
<1>1. ASSUME NEW t \in Threads, NEW timer \in Timers, TimerCreate(t, timer) PROVE UIInv'
  BY <1>1, OthersStart DEF TimerCreate, UITypeOK, loop, finger, FeedType
<1>2. ASSUME NEW t \in Threads, NEW timer \in Timers, TimerDelete(t, timer) PROVE UIInv'
  BY <1>2, OthersStart DEF TimerDelete, UITypeOK, loop, finger, FeedType
<1>3. ASSUME NEW t \in Threads, TouchAttach(t) PROVE UIInv'
  <2>1. attached' \in BOOLEAN
    BY <1>3, Zenon DEF TouchAttach
  <2> QED BY <1>3, <2>1, OthersStart DEF TouchAttach, UITypeOK, loop, clock, FeedType
<1>4. ASSUME NEW point \in FedPoints, TouchFeed(point) PROVE UIInv'
  <2>1. feed' \in FeedType
    BY <1>4 DEF TouchFeed, FeedType
  <2> QED BY <1>4, <2>1, OthersStart DEF TouchFeed, UITypeOK, loop, clock, FeedType
<1>5. CASE Stores
  <2>1. feed' \in FeedType
    BY <1>5 DEF Stores, FeedType, UITypeOK
  <2> QED BY <1>5, <2>1, OthersStart DEF Stores, UITypeOK, loop, clock, FeedType
<1>6. CASE TouchReadCb
  BY <1>6, OthersStart DEF TouchReadCb, UITypeOK, loop, clock, FeedType
<1>7. CASE UNCHANGED uiVars
  BY <1>7, OthersStart DEF uiVars, UITypeOK, FeedType
<1>8. ASSUME NEW t \in Threads, Frees(t) PROVE UIInv'
  BY <1>8, OthersStart DEF Frees, UITypeOK, loop, finger, FeedType
<1> QED BY <1>1, <1>2, <1>3, <1>4, <1>5, <1>6, <1>7, <1>8

\* Every step keeps the invariant.
LEMMA UIInvNext == UIInv /\ [UINext]_uiVars => UIInv'
<1> SUFFICES ASSUME UIInv, [UINext]_uiVars PROVE UIInv'
  OBVIOUS
<1>1. ASSUME NEW t \in Threads, NEW how \in {"framebuffer", "custom"}, Initialize(t, how)
      PROVE  UIInv'
  BY <1>1, InitializeKeeps
<1>2. ASSUME NEW t \in Threads, ThreadStep(t) PROVE UIInv'
  BY <1>2, DisplayMadeKeeps, DisplayFailsKeeps, LoopKeeps, AsideKeeps DEF ThreadStep
<1>3. ASSUME NEW t \in Threads, NEW timer \in Timers, Fire(t, timer) PROVE UIInv'
  BY <1>3, LoopKeeps
<1>4. ASSUME NEW t \in Threads, Run(t) \/ Stop(t) PROVE UIInv'
  BY <1>4, LoopKeeps
<1> QED BY <1>1, <1>2, <1>3, <1>4, AsideKeeps, Zenon DEF UINext

\* The flags, the threads and the touch state keep their types.
THEOREM UITypeInvariant == UISpec => []UITypeOK
<1>1. UIInv => UITypeOK
  BY DEF UIInv, UITypes
<1> QED BY <1>1, UIInvInit, UIInvNext, PTL DEF UISpec

\* Whatever number of threads initialize, in either way, and whichever of them
\* fail: LVGL is given one display at most.
THEOREM UIOneDisplay == UISpec => []OneDisplay
<1>1. UIInv => OneDisplay
  BY DEF UIInv, StartsAlone, OneDisplay
<1> QED BY <1>1, UIInvInit, UIInvNext, PTL DEF UISpec

-----------------------------------------------------------------------------
(* Timers: what LVGL has still has its slot, and a TimerDelete under way    *)
(* has the slot of a timer that LVGL has no more, which it alone frees.     *)
Deletes(t) ==
  deleting[t] # None => pc[t] \in {"idle", "call"} /\ deleting[t] \in slots \ timers
DeletesAlone(t, u) == deleting[t] # None /\ deleting[t] = deleting[u] => t = u

FiresLive ==
  /\ timers \subseteq slots
  /\ \A t \in Threads : Deletes(t)
  /\ \A t, u \in Threads : DeletesAlone(t, u)
  /\ NoDeletedFires

LEMMA FiresBegin == UIInit => FiresLive
BY DEF UIInit, FiresLive, Deletes, DeletesAlone, NoDeletedFires

\* A step of a thread that deletes nothing and fires nothing.
LEMMA OthersFire ==
  ASSUME FiresLive, UNCHANGED <<timers, slots, deleting>>, NEW t \in Threads,
         deleting[t] = None \/ pc'[t] \in {"idle", "call"},
         \A u \in Threads \ {t} : pc'[u] = pc[u] /\ fires'[u] = fires[u],
         pc'[t] = "fire" => pc[t] = "fire" /\ fires'[t] = fires[t], overtook \ {t} \subseteq overtook',
         pc'[t] = "fire" => overtook \subseteq overtook'
  PROVE  FiresLive'
<1>1. \A u \in Threads : Deletes(u)'
  BY DEF FiresLive, Deletes
<1>2. \A u, v \in Threads : DeletesAlone(u, v)'
  BY DEF FiresLive, DeletesAlone
<1>3. NoDeletedFires'
  BY DEF FiresLive, NoDeletedFires
<1> QED BY <1>1, <1>2, <1>3 DEF FiresLive

LEMMA FiresKeep ==
  ASSUME UITypeOK, UITypeOK', FiresLive, [UINext]_uiVars
  PROVE  FiresLive'
<1>1. ASSUME NEW t \in Threads, NEW timer \in Timers, TimerDelete(t, timer) PROVE FiresLive'
  <2>1. /\ timers' = timers \ {timer} /\ timer \in timers /\ UNCHANGED <<slots, pc, fires, overtook>>
        /\ pc[t] \in {"idle", "call"} /\ deleting'[t] = timer
        /\ \A u \in Threads \ {t} : deleting'[u] = deleting[u]
    BY <1>1 DEF TimerDelete, MayCall, loop, UITypeOK
  <2>2. \A u \in Threads : Deletes(u)'
    BY <2>1 DEF FiresLive, Deletes
  <2>3. \A u, v \in Threads : DeletesAlone(u, v)'
    BY <2>1 DEF FiresLive, Deletes, DeletesAlone
  <2>4. NoDeletedFires'
    BY <2>1 DEF FiresLive, NoDeletedFires
  <2> QED BY <2>1, <2>2, <2>3, <2>4 DEF FiresLive
<1>2. ASSUME NEW t \in Threads, NEW timer \in Timers, TimerCreate(t, timer) PROVE FiresLive'
  <2>1. /\ timers' = timers \cup {timer} /\ slots' = slots \cup {timer} /\ timer \notin timers \cup slots
        /\ UNCHANGED <<pc, fires, deleting, overtook>>
    BY <1>2 DEF TimerCreate, loop
  <2>2. \A u \in Threads : Deletes(u)'
    BY <2>1 DEF FiresLive, Deletes
  <2>3. \A u, v \in Threads : DeletesAlone(u, v)'
    BY <2>1 DEF FiresLive, DeletesAlone
  <2>4. NoDeletedFires'
    BY <2>1 DEF FiresLive, NoDeletedFires
  <2> QED BY <2>1, <2>2, <2>3, <2>4 DEF FiresLive
<1>3. ASSUME NEW t \in Threads, Frees(t) PROVE FiresLive'
  <2> DEFINE timer == deleting[t]
  <2>1. /\ timer # None /\ slots' = slots \ {timer} /\ UNCHANGED <<timers, pc, fires>>
        /\ deleting'[t] = None /\ \A u \in Threads \ {t} : deleting'[u] = deleting[u]
        /\ overtook' = overtook \cup {u \in Threads \ {t} : pc[u] = "fire" /\ fires[u] = timer}
    BY <1>3 DEF Frees, loop, UITypeOK
  <2>2. pc[t] # "fire" /\ timer \in slots \ timers /\ \A u \in Threads \ {t} : deleting[u] # timer
    BY <2>1 DEF FiresLive, Deletes, DeletesAlone
  <2>3. timers' \subseteq slots'
    BY <2>1, <2>2 DEF FiresLive
  <2>4. \A u \in Threads : Deletes(u)'
    BY <2>1, <2>2 DEF FiresLive, Deletes
  <2>5. \A u, v \in Threads : DeletesAlone(u, v)'
    BY <2>1 DEF FiresLive, DeletesAlone
  <2>6. NoDeletedFires'
    BY <2>1, <2>2 DEF FiresLive, NoDeletedFires
  <2> QED BY <2>3, <2>4, <2>5, <2>6 DEF FiresLive
<1>4. ASSUME NEW t \in Threads, NEW timer \in Timers, Fire(t, timer) PROVE FiresLive'
  <2>1. /\ \A u \in Threads \ {t} : pc'[u] = pc[u] /\ fires'[u] = fires[u]
        /\ fires'[t] = timer /\ timer \in timers /\ pc[t] = "pump" /\ pc'[t] = "fire"
        /\ UNCHANGED <<timers, slots, deleting, overtook>>
    BY <1>4, GoesOn DEF Fire, Places, UITypeOK
  <2>2. \A u \in Threads : Deletes(u)'
    BY <2>1 DEF FiresLive, Deletes
  <2>3. \A u, v \in Threads : DeletesAlone(u, v)'
    BY <2>1 DEF FiresLive, DeletesAlone
  <2>4. NoDeletedFires'
    BY <2>1 DEF FiresLive, NoDeletedFires
  <2> QED BY <2>1, <2>2, <2>3, <2>4 DEF FiresLive
<1>5. ASSUME NEW t \in Threads, NEW how \in {"framebuffer", "custom"}, Initialize(t, how)
      PROVE  FiresLive'
  <2>1. /\ pc'[t] \in {"idle", "framebuffer", "custom"} /\ \A u \in Threads \ {t} : pc'[u] = pc[u]
        /\ UNCHANGED clock /\ deleting[t] = None
    BY <1>5, GoesOn DEF Initialize, Places
  <2> QED BY <2>1, OthersFire DEF clock
<1>6. ASSUME NEW t \in Threads,
             Run(t) \/ Loop(t) \/ Pumped(t) \/ DisplayMade(t) \/ DisplayFails(t) \/ FormatRefused(t)
      PROVE  FiresLive'
  <2>1. UNCHANGED clock /\ (deleting[t] = None \/ pc[t] \notin {"idle", "call"})
    BY <1>6 DEF Run, Loop, Pumped, DisplayMade, DisplayFails, FormatRefused, clock
  <2>2. deleting[t] = None
    BY <2>1 DEF FiresLive, Deletes
  <2>3. pc'[t] # "fire" /\ \A u \in Threads \ {t} : pc'[u] = pc[u]
    BY <1>6, GoesOn DEF Run, Loop, Pumped, DisplayMade, DisplayFails, FormatRefused, Places
  <2> QED BY <2>1, <2>2, <2>3, OthersFire DEF clock
<1>7. ASSUME NEW t \in Threads, Calls(t) \/ CallbackReturns(t) PROVE FiresLive'
  <2>1. /\ UNCHANGED <<timers, slots, deleting>> /\ overtook \ {t} \subseteq overtook'
        /\ deleting[t] = None \/ pc[t] = "fire"
    BY <1>7 DEF Calls, CallbackReturns
  <2>2. deleting[t] = None
    BY <2>1 DEF FiresLive, Deletes
  <2>3. pc'[t] # "fire" /\ \A u \in Threads \ {t} : pc'[u] = pc[u] /\ fires'[u] = fires[u]
    BY <1>7, GoesOn DEF Calls, CallbackReturns, Places, UITypeOK
  <2> QED BY <2>1, <2>2, <2>3, OthersFire
<1>8. CASE UNCHANGED <<pc, clock>>
  BY <1>8 DEF clock, FiresLive, Deletes, DeletesAlone, NoDeletedFires
<1>9. ASSUME NEW t \in Threads, Stop(t) \/ TouchAttach(t) PROVE FiresLive'
  BY <1>8, <1>9 DEF Stop, TouchAttach, loop, clock
<1>10. ASSUME (\E point \in FedPoints : TouchFeed(point)) \/ Stores \/ TouchReadCb PROVE FiresLive'
  BY <1>8, <1>10 DEF TouchFeed, Stores, TouchReadCb, loop, clock
<1>11. CASE UNCHANGED uiVars
  BY <1>8, <1>11 DEF uiVars, clock
<1>12. ASSUME NEW t \in Threads, ThreadStep(t) PROVE FiresLive'
  BY <1>3, <1>6, <1>7, <1>12 DEF ThreadStep
<1> QED
  BY <1>1, <1>2, <1>4, <1>5, <1>6, <1>9, <1>10, <1>11, <1>12, Zenon DEF UINext

\* For any number of threads that make and delete timers, also while another pumps:
\* a timer that LVGL calls has its slot, unless another thread's TimerDelete came
\* when the trampoline had it already.
THEOREM UINoDeletedFires == UISpec => []NoDeletedFires
<1>1. UITypeOK /\ UITypeOK' /\ FiresLive /\ [UINext]_uiVars => FiresLive'
  BY FiresKeep
<1>2. FiresLive => NoDeletedFires
  BY DEF FiresLive
<1> QED BY <1>1, <1>2, FiresBegin, UITypeInvariant, PTL DEF UISpec

-----------------------------------------------------------------------------
(* Commands: no Run sleeps on when its tool has ended, or leaves anything. *)

RunTypes ==
  /\ run \in [Threads -> {"idle", "piped", "spawned", "poll", "reap"}]
  /\ child \in [Threads -> {"none", "runs", "ended"}]
  /\ holders \in [Threads -> [Tools!Outputs -> SUBSET Tools!Processes]]
  /\ inPipe \in [Threads -> [Tools!Outputs -> 0..Capacity]]
  /\ reads \in [Threads -> SUBSET Tools!Outputs]
  /\ readText \in [Threads -> [Tools!Outputs -> Nat]] /\ written \in [Threads -> [Tools!Outputs -> Nat]]

(* A pipe is open in its tool, while that runs, and in Run until it has    *)
(* started the tool - in nobody else.                                      *)
PipesArePrivate(t, o) ==
  /\ holders[t][o] \subseteq {t, Lib}
  /\ t \in holders[t][o] => child[t] = "runs"
  /\ Lib \in holders[t][o] => run[t] \in {"piped", "spawned"}

(* What is no longer read has nothing left, and never will.                *)
DoneIsEmpty(t, o) ==
  run[t] \in {"poll", "reap"} /\ o \notin reads[t] => inPipe[t][o] = 0 /\ holders[t][o] = {}

AllIsRead(t, o) == readText[t][o] + inPipe[t][o] = written[t][o]

IdleHasNothing(t) ==
  /\ run[t] = "idle" => reads[t] = {} /\ holders[t] = Tools!NoHolder
  /\ run[t] \in {"idle", "piped"} => child[t] = "none"
  /\ run[t] \in {"piped", "spawned"} => reads[t] = Tools!Outputs
  /\ run[t] = "reap" => reads[t] = {}

RunOwn(t) ==
  /\ IdleHasNothing(t)
  /\ \A o \in Tools!Outputs : PipesArePrivate(t, o) /\ DoneIsEmpty(t, o) /\ AllIsRead(t, o)

CommandsInv == RunTypes /\ \A t \in Threads : RunOwn(t)

-----------------------------------------------------------------------------
LEMMA CommandsBegin == ASSUME Tools!Init PROVE CommandsInv
BY ToolsAssumption DEF Tools!Init, CommandsInv, RunTypes, RunOwn, IdleHasNothing, PipesArePrivate, DoneIsEmpty,
       AllIsRead, Tools!Nothing, Tools!NoHolder, Tools!Outputs

(* What t does to the state of t alone leaves another thread's as it was.  *)
OtherRuns(t) ==
  \A u \in Threads \ {t} :
    /\ run'[u] = run[u] /\ child'[u] = child[u] /\ reads'[u] = reads[u]
    /\ inPipe'[u] = inPipe[u] /\ readText'[u] = readText[u] /\ written'[u] = written[u]
    /\ holders'[u] = holders[u]

LEMMA OtherRunsInv ==
  ASSUME CommandsInv, NEW t \in Threads, RunTypes', OtherRuns(t), RunOwn(t)'
  PROVE  CommandsInv'
<1>1. ASSUME NEW u \in Threads, u # t PROVE RunOwn(u)'
  BY <1>1 DEF OtherRuns, CommandsInv, RunOwn, IdleHasNothing, PipesArePrivate, DoneIsEmpty,
              AllIsRead
<1> QED
  BY <1>1 DEF CommandsInv

\* The end of a process closes its own pipes only: it has no others.
LEMMA WithoutOwn ==
  ASSUME CommandsInv, NEW t \in Threads, holders' = Tools!Without(t)
  PROVE  /\ holders' \in [Threads -> [Tools!Outputs -> SUBSET Tools!Processes]]
         /\ \A u \in Threads \ {t} : holders'[u] = holders[u]
         /\ \A o \in Tools!Outputs : holders'[t][o] = holders[t][o] \ {t}
<1>1. holders' \in [Threads -> [Tools!Outputs -> SUBSET Tools!Processes]]
  BY DEF Tools!Without, CommandsInv, RunTypes
<1>2. ASSUME NEW u \in Threads \ {t} PROVE holders'[u] = holders[u]
  <2>1. \A o \in Tools!Outputs : holders'[u][o] = holders[u][o] \ {t}
    BY DEF Tools!Without
  <2>2. \A o \in Tools!Outputs : t \notin holders[u][o]
    BY ToolsAssumption DEF CommandsInv, RunOwn, PipesArePrivate
  <2>3. holders[u] \in [Tools!Outputs -> SUBSET Tools!Processes] /\ holders'[u] \in [Tools!Outputs -> SUBSET Tools!Processes]
    BY <1>1 DEF CommandsInv, RunTypes
  <2>4. \A o \in Tools!Outputs : holders'[u][o] = holders[u][o]
    BY <2>1, <2>2
  <2> QED
    BY <2>3, <2>4
<1> QED
  BY <1>1, <1>2 DEF Tools!Without

-----------------------------------------------------------------------------
(* The steps of the tool.                                                  *)

LEMMA ToolWritesInv ==
  ASSUME CommandsInv, NEW t \in Threads, NEW o \in Tools!Outputs, Tools!ToolWrites(t, o)
  PROVE  CommandsInv'
<1> USE DEF Tools!ToolWrites
<1>1. RunTypes'
  BY ToolsAssumption DEF CommandsInv, RunTypes
<1>2. OtherRuns(t)
  BY DEF OtherRuns, CommandsInv, RunTypes
<1>3. \A q \in Tools!Outputs \ {o} : inPipe'[t][q] = inPipe[t][q] /\ written'[t][q] = written[t][q]
  BY DEF CommandsInv, RunTypes
<1>4. inPipe'[t][o] = inPipe[t][o] + 1 /\ written'[t][o] = written[t][o] + 1
  BY DEF CommandsInv, RunTypes
<1>5. RunOwn(t)'
  <2>1. \A q \in Tools!Outputs : AllIsRead(t, q)'
    BY <1>3, <1>4 DEF CommandsInv, RunTypes, RunOwn, AllIsRead
  <2> QED
    BY <2>1, <1>3 DEF CommandsInv, RunOwn, IdleHasNothing, PipesArePrivate, DoneIsEmpty
<1> QED
  BY <1>1, <1>2, <1>5, OtherRunsInv

LEMMA ToolClosesInv ==
  ASSUME CommandsInv, NEW t \in Threads, NEW o \in Tools!Outputs, Tools!ToolCloses(t, o)
  PROVE  CommandsInv'
<1> USE DEF Tools!ToolCloses
<1>1. RunTypes'
  BY DEF CommandsInv, RunTypes
<1>2. OtherRuns(t)
  BY DEF OtherRuns, CommandsInv, RunTypes
<1>3. \A q \in Tools!Outputs : holders'[t][q] \subseteq holders[t][q]
  BY DEF CommandsInv, RunTypes
<1>4. IdleHasNothing(t)'
  BY DEF CommandsInv, RunOwn, IdleHasNothing
<1>5. RunOwn(t)'
  BY <1>3, <1>4 DEF CommandsInv, RunOwn, PipesArePrivate, DoneIsEmpty, AllIsRead
<1> QED
  BY <1>1, <1>2, <1>5, OtherRunsInv

LEMMA ToolEndsInv ==
  ASSUME CommandsInv, NEW t \in Threads, Tools!ToolEnds(t)
  PROVE  CommandsInv'
<1> USE DEF Tools!ToolEnds
<1>1. RunTypes'
  BY WithoutOwn DEF CommandsInv, RunTypes
<1>2. OtherRuns(t)
  BY WithoutOwn DEF OtherRuns, CommandsInv, RunTypes
<1>3. child'[t] = "ended" /\ \A q \in Tools!Outputs : holders'[t][q] = holders[t][q] \ {t}
  BY WithoutOwn DEF CommandsInv, RunTypes
<1>4. IdleHasNothing(t)'
  BY <1>3 DEF CommandsInv, RunOwn, IdleHasNothing
<1>5. RunOwn(t)'
  BY <1>3, <1>4 DEF CommandsInv, RunOwn, PipesArePrivate, DoneIsEmpty, AllIsRead
<1> QED
  BY <1>1, <1>2, <1>5, OtherRunsInv

-----------------------------------------------------------------------------
(* The steps of Run.                                                       *)

LEMMA RunKeeps ==
  ASSUME CommandsInv, NEW t \in Threads, Tools!Run(t)
  PROVE  CommandsInv'
<1> USE DEF Tools!Run
<1>1. RunTypes'
  BY DEF CommandsInv, RunTypes, Tools!Processes
<1>2. OtherRuns(t)
  BY DEF OtherRuns, CommandsInv, RunTypes
<1>3. /\ run'[t] = "piped" /\ child'[t] = "none" /\ reads'[t] = Tools!Outputs
      /\ \A q \in Tools!Outputs : holders'[t][q] = {Lib}
  BY DEF CommandsInv, RunTypes, RunOwn, IdleHasNothing
<1>4. RunOwn(t)'
  BY <1>3, ToolsAssumption DEF CommandsInv, RunOwn, IdleHasNothing, PipesArePrivate, DoneIsEmpty,
              AllIsRead
<1> QED
  BY <1>1, <1>2, <1>4, OtherRunsInv

LEMMA SpawnInv ==
  ASSUME CommandsInv, NEW t \in Threads, Tools!Spawn(t)
  PROVE  CommandsInv'
<1> USE DEF Tools!Spawn, Tools!Inherited
<1>1. RunTypes'
  BY DEF CommandsInv, RunTypes, Tools!Processes
<1>2. OtherRuns(t)
  BY DEF OtherRuns, CommandsInv, RunTypes
<1>3. /\ run'[t] = "spawned" /\ child'[t] = "runs" /\ reads'[t] = Tools!Outputs
      /\ \A q \in Tools!Outputs : holders'[t][q] = holders[t][q] \cup {t}
  BY DEF CommandsInv, RunTypes, RunOwn, IdleHasNothing
<1>4. RunOwn(t)'
  BY <1>3, ToolsAssumption DEF CommandsInv, RunOwn, IdleHasNothing, PipesArePrivate, DoneIsEmpty,
              AllIsRead
<1> QED
  BY <1>1, <1>2, <1>4, OtherRunsInv

LEMMA ClosesWriteEndsInv ==
  ASSUME CommandsInv, NEW t \in Threads, Tools!ClosesWriteEnds(t)
  PROVE  CommandsInv'
<1> USE DEF Tools!ClosesWriteEnds
<1>1. RunTypes'
  BY DEF CommandsInv, RunTypes, Tools!Processes
<1>2. OtherRuns(t)
  BY DEF OtherRuns, CommandsInv, RunTypes
<1>3. /\ run'[t] = "poll" /\ reads'[t] = Tools!Outputs
      /\ \A q \in Tools!Outputs : holders'[t][q] = holders[t][q] \ {Lib}
  BY DEF CommandsInv, RunTypes, RunOwn, IdleHasNothing
<1>4. RunOwn(t)'
  BY <1>3, ToolsAssumption DEF CommandsInv, RunOwn, IdleHasNothing, PipesArePrivate, DoneIsEmpty,
              AllIsRead
<1> QED
  BY <1>1, <1>2, <1>4, OtherRunsInv

LEMMA TimePassesInv ==
  ASSUME CommandsInv, NEW t \in Threads, Tools!TimePasses(t)
  PROVE  CommandsInv'
BY DEF Tools!TimePasses, CommandsInv, RunTypes, RunOwn, IdleHasNothing, PipesArePrivate, DoneIsEmpty,
       AllIsRead

\* What is read of a pipe was in it.
LEMMA ReadIsThere ==
  ASSUME CommandsInv, NEW t \in Threads, NEW o \in Tools!Outputs
  PROVE  Tools!Read(t, o) \in 0..inPipe[t][o]
BY ToolsAssumption DEF Tools!Read, CommandsInv, RunTypes

LEMMA ReadsInv ==
  ASSUME CommandsInv, NEW t \in Threads, Tools!Reads(t)
  PROVE  CommandsInv'
<1> USE DEF Tools!Reads
<1>1. RunTypes'
  <2>1. [o \in Tools!Outputs |-> inPipe[t][o] - Tools!Read(t, o)] \in [Tools!Outputs -> 0..Capacity]
    BY ReadIsThere, ToolsAssumption DEF CommandsInv, RunTypes
  <2>2. [o \in Tools!Outputs |-> readText[t][o] + Tools!Read(t, o)] \in [Tools!Outputs -> Nat]
    BY ReadIsThere, ToolsAssumption DEF CommandsInv, RunTypes
  <2>3. reads' \in [Threads -> SUBSET Tools!Outputs] /\ run' \in [Threads -> {"idle", "piped", "spawned", "poll", "reap"}]
    BY DEF CommandsInv, RunTypes
  <2> QED
    BY <2>1, <2>2, <2>3 DEF CommandsInv, RunTypes
<1>2. OtherRuns(t)
  BY DEF OtherRuns, CommandsInv, RunTypes
<1>3. \A q \in Tools!Outputs : /\ inPipe'[t][q] = inPipe[t][q] - Tools!Read(t, q)
                         /\ readText'[t][q] = readText[t][q] + Tools!Read(t, q)
  BY DEF CommandsInv, RunTypes
<1>4. /\ reads'[t] = {q \in reads[t] : ~Tools!Ready(t, q) \/ inPipe[t][q] > 0}
      /\ run'[t] \in {"poll", "reap"} /\ (run'[t] = "reap" => reads'[t] = {})
  BY DEF CommandsInv, RunTypes
<1>5. ASSUME NEW q \in Tools!Outputs PROVE AllIsRead(t, q)'
  BY <1>3, <1>5, ReadIsThere DEF CommandsInv, RunTypes, RunOwn, AllIsRead
<1>6. ASSUME NEW q \in Tools!Outputs, q \notin reads'[t]
      PROVE  inPipe'[t][q] = 0 /\ holders'[t][q] = {}
  <2>1. inPipe[t][q] = 0 /\ holders[t][q] = {}
    BY <1>4, <1>6 DEF Tools!Ready, CommandsInv, RunTypes, RunOwn, DoneIsEmpty
  <2> QED
    BY <2>1, <1>3, <1>6, ReadIsThere
<1>7. RunOwn(t)'
  BY <1>4, <1>5, <1>6 DEF CommandsInv, RunOwn, IdleHasNothing, PipesArePrivate, DoneIsEmpty
<1> QED
  BY <1>1, <1>2, <1>7, OtherRunsInv

-----------------------------------------------------------------------------
(* The ends of Run: nothing is left, if its pipes and its tool are gone.   *)

LEMMA LeavesTypes ==
  ASSUME CommandsInv, NEW t \in Threads, Tools!Leaves(t)
  PROVE  /\ run' \in [Threads -> {"idle", "piped", "spawned", "poll", "reap"}]
         /\ inPipe' \in [Threads -> [Tools!Outputs -> 0..Capacity]]
         /\ reads' \in [Threads -> SUBSET Tools!Outputs]
         /\ readText' \in [Threads -> [Tools!Outputs -> Nat]]
         /\ written' \in [Threads -> [Tools!Outputs -> Nat]]
<1>1. Tools!Nothing \in [Tools!Outputs -> 0..Capacity] /\ Tools!Nothing \in [Tools!Outputs -> Nat]
  BY ToolsAssumption DEF Tools!Nothing
<1> QED
  BY <1>1 DEF Tools!Leaves, CommandsInv, RunTypes

LEMMA LeavesInv ==
  ASSUME CommandsInv, NEW t \in Threads, Tools!Leaves(t),
         holders' \in [Threads -> [Tools!Outputs -> SUBSET Tools!Processes]],
         child' \in [Threads -> {"none", "runs", "ended"}],
         child'[t] = "none", \A o \in Tools!Outputs : holders'[t][o] = {},
         \A u \in Threads \ {t} : child'[u] = child[u] /\ holders'[u] = holders[u]
  PROVE  CommandsInv'
<1>1. RunTypes'
  BY LeavesTypes DEF RunTypes
<1>2. OtherRuns(t)
  BY DEF Tools!Leaves, OtherRuns, CommandsInv, RunTypes
<1>3. /\ run'[t] = "idle" /\ reads'[t] = {}
      /\ \A o \in Tools!Outputs : readText'[t][o] = 0 /\ inPipe'[t][o] = 0 /\ written'[t][o] = 0
  BY DEF Tools!Leaves, Tools!Nothing, CommandsInv, RunTypes
<1>4. holders'[t] = Tools!NoHolder
  <2>1. holders'[t] \in [Tools!Outputs -> SUBSET Tools!Processes] /\ Tools!NoHolder \in [Tools!Outputs -> SUBSET Tools!Processes]
    BY DEF Tools!NoHolder
  <2>2. \A o \in Tools!Outputs : holders'[t][o] = Tools!NoHolder[o]
    BY DEF Tools!NoHolder
  <2> QED
    BY <2>1, <2>2
<1>5. RunOwn(t)'
  BY <1>3, <1>4 DEF RunOwn, IdleHasNothing, PipesArePrivate, DoneIsEmpty, AllIsRead
<1> QED
  BY <1>1, <1>2, <1>5, OtherRunsInv

LEMMA SpawnFailsInv ==
  ASSUME CommandsInv, NEW t \in Threads, Tools!SpawnFails(t)
  PROVE  CommandsInv'
<1> USE DEF Tools!SpawnFails
<1>1. /\ holders' \in [Threads -> [Tools!Outputs -> SUBSET Tools!Processes]]
      /\ \A u \in Threads \ {t} : child'[u] = child[u] /\ holders'[u] = holders[u]
      /\ \A o \in Tools!Outputs : holders'[t][o] = holders[t][o] \ {Lib}
  BY DEF CommandsInv, RunTypes
<1>2. child' \in [Threads -> {"none", "runs", "ended"}] /\ child'[t] = "none" /\ child[t] = "none"
  BY DEF CommandsInv, RunTypes, RunOwn, IdleHasNothing
<1>3. \A o \in Tools!Outputs : holders'[t][o] = {}
  BY <1>1, <1>2 DEF CommandsInv, RunOwn, PipesArePrivate
<1> QED
  BY <1>1, <1>2, <1>3, LeavesInv

LEMMA GivesUpInv ==
  ASSUME CommandsInv, NEW t \in Threads, Tools!GivesUp(t)
  PROVE  CommandsInv'
<1> USE DEF Tools!GivesUp
<1>1. /\ child' \in [Threads -> {"none", "runs", "ended"}] /\ child'[t] = "none"
      /\ \A u \in Threads \ {t} : child'[u] = child[u]
  BY DEF CommandsInv, RunTypes
<1>2. \A o \in Tools!Outputs : holders'[t][o] = {}
  BY WithoutOwn DEF CommandsInv, RunOwn, PipesArePrivate
<1> QED
  BY <1>1, <1>2, WithoutOwn, LeavesInv

LEMMA ReapsInv ==
  ASSUME CommandsInv, NEW t \in Threads, Tools!Reaps(t)
  PROVE  CommandsInv'
<1> USE DEF Tools!Reaps
<1>1. /\ child' \in [Threads -> {"none", "runs", "ended"}] /\ child'[t] = "none"
      /\ \A u \in Threads \ {t} : child'[u] = child[u] /\ holders'[u] = holders[u]
      /\ holders' \in [Threads -> [Tools!Outputs -> SUBSET Tools!Processes]]
  BY DEF CommandsInv, RunTypes
<1>2. \A o \in Tools!Outputs : holders'[t][o] = {}
  BY DEF CommandsInv, RunOwn, PipesArePrivate
<1> QED
  BY <1>1, <1>2, LeavesInv

LEMMA CommandsKeep == ASSUME CommandsInv, [Tools!Next]_runVars PROVE CommandsInv'
<1>1. ASSUME NEW t \in Threads, NEW o \in Tools!Outputs, Tools!ToolWrites(t, o) \/ Tools!ToolCloses(t, o)
      PROVE  CommandsInv'
  BY <1>1, ToolWritesInv, ToolClosesInv
<1>2. ASSUME NEW t \in Threads, Tools!ToolEnds(t) \/ Tools!Run(t) \/ Tools!TimePasses(t)
      PROVE  CommandsInv'
  BY <1>2, ToolEndsInv, RunKeeps, TimePassesInv
<1>3. ASSUME NEW t \in Threads, Tools!RunStep(t)
      PROVE  CommandsInv'
  BY <1>3, SpawnInv, SpawnFailsInv, ClosesWriteEndsInv, ReadsInv, GivesUpInv, ReapsInv DEF Tools!RunStep
<1>4. ASSUME UNCHANGED runVars
      PROVE  CommandsInv'
  BY <1>4 DEF runVars, CommandsInv, RunTypes, RunOwn, IdleHasNothing, PipesArePrivate, DoneIsEmpty,
              AllIsRead
<1> QED
  BY <1>1, <1>2, <1>3, <1>4 DEF Tools!Next

-----------------------------------------------------------------------------
LEMMA CommandsHold == ASSUME CommandsInv PROVE Tools!TypeOK /\ Tools!EndIsSeen /\ Tools!NothingLeft
<1>1. Tools!TypeOK
  BY DEF Tools!TypeOK, CommandsInv, RunTypes
<1>2. ASSUME NEW t \in Threads, Tools!Asleep(t) PROVE child[t] # "ended"
  <2>1. PICK o \in reads[t] : TRUE
    BY <1>2 DEF Tools!Asleep
  <2>2. o \in Tools!Outputs /\ holders[t][o] # {} /\ run[t] = "poll"
    BY <1>2 DEF Tools!Asleep, Tools!Ready, CommandsInv, RunTypes
  <2> QED
    BY <2>2 DEF CommandsInv, RunOwn, PipesArePrivate
<1>3. ASSUME NEW t \in Threads, run[t] = "reap" PROVE readText[t] = written[t]
  <2>1. \A o \in Tools!Outputs : inPipe[t][o] = 0 /\ readText[t][o] + inPipe[t][o] = written[t][o]
    BY <1>3 DEF CommandsInv, RunOwn, IdleHasNothing, DoneIsEmpty, AllIsRead
  <2>2. readText[t] \in [Tools!Outputs -> Nat] /\ written[t] \in [Tools!Outputs -> Nat]
    BY DEF CommandsInv, RunTypes
  <2>3. \A o \in Tools!Outputs : readText[t][o] = written[t][o]
    BY <2>1, <2>2
  <2> QED
    BY <2>2, <2>3
<1>4. Tools!NothingLeft
  BY <1>3 DEF Tools!NothingLeft, CommandsInv, RunOwn, IdleHasNothing
<1> QED
  BY <1>1, <1>2, <1>4 DEF Tools!EndIsSeen

(* Threads, tools and pipes keep their types.                              *)

-----------------------------------------------------------------------------
(* UsbAccess: what an interface's driver is owed, and the last call.        *)


UsbCalls == [pc : Usb!Places, at : Interfaces \cup {None}, limit : Limits \cup {"none"},
             found : SUBSET Interfaces]

\* The places that are about an interface; those of a call that will put it on
\* the list of the detached, and of the claimed
ClaimPlaces == Usb!Places \ {"none", "try", "poll"}
Detaching == {"reclaim", "detaches", "detaching"}
Claiming == Detaching \cup {"claims", "claiming"}
AtIt(t, i, places) == usbCall[t].at = i /\ usbCall[t].pc \in places

UsbTypes ==
  /\ Usb!TypeOK /\ usbCall \in [Threads -> UsbCalls]
  /\ \A t \in Threads : usbCall[t].pc \in ClaimPlaces => usbCall[t].at \in Interfaces

CallsWhileOpen == usbOpened # "open" => \A t \in Threads : usbCall[t] = Usb!NoCall

\* While the device is open, an interface that a driver had and that the driver
\* has not now is on both lists, or about to be put there, unless its entry is
\* one that was lost.
OnLists(i) ==
  /\ iface[i] \in {"none", "this"}
  /\ i \in detached \/ \E t \in Threads : AtIt(t, i, Detaching)
  /\ i \in claimed \/ \E t \in Threads : AtIt(t, i, Claiming)
Owed ==
  plugged /\ usbOpened \in {"open", "closing"} =>
    \A i \in drivers \ dropped : iface[i] = "kernel" \/ OnLists(i)

UsbInv == UsbTypes /\ CallsWhileOpen /\ Owed /\ Usb!DriversBack /\ Usb!NoCallAfterClose

-----------------------------------------------------------------------------
LEMMA UsbBegins == Usb!Init => UsbInv
<1> SUFFICES ASSUME Usb!Init PROVE UsbInv
  OBVIOUS
<1>1. Usb!NoCall \in UsbCalls /\ Usb!NoCall.pc = "none"
  BY DEF Usb!NoCall, Usb!Calling, UsbCalls, Usb!Places
<1>2. Usb!TypeOK
  <2>1. None \in Threads \cup {"watch", None} /\ pending \in 0..MaxPending
    BY UsbAssumption DEF Usb!Init
  <2>2. iface \in [Interfaces -> Usb!Holders] /\ drivers \subseteq Interfaces
    BY DEF Usb!Init, Usb!Holders
  <2>3. \A t \in Threads : usbCall[t].pc \in Usb!Places
    BY <1>1 DEF Usb!Init, Usb!Places
  <2> QED BY <2>1, <2>2, <2>3 DEF Usb!Init, Usb!TypeOK
<1> QED BY <1>1, <1>2 DEF Usb!Init, UsbInv, UsbTypes, ClaimPlaces, CallsWhileOpen, Owed, Usb!DriversBack, Usb!NoCallAfterClose

\* What a call goes on to
LEMMA UsbCallGoes ==
  ASSUME UsbTypes, NEW t \in Threads
  PROVE  /\ \A where \in Usb!Places : Usb!Goes(t, where) =>
              /\ usbCall' \in [Threads -> UsbCalls] /\ usbCall'[t].pc = where /\ usbCall'[t].at = usbCall[t].at
              /\ \A u \in Threads \ {t} : usbCall'[u] = usbCall[u]
         /\ Usb!Returns(t) =>
              /\ usbCall' \in [Threads -> UsbCalls] /\ usbCall'[t] = Usb!NoCall /\ usbCall'[t].pc = "none"
              /\ \A u \in Threads \ {t} : usbCall'[u] = usbCall[u]
<1>1. Usb!NoCall \in UsbCalls /\ Usb!NoCall.pc = "none"
  BY DEF Usb!NoCall, Usb!Calling, UsbCalls, Usb!Places
<1>2. ASSUME NEW where \in Usb!Places, Usb!Goes(t, where)
      PROVE  /\ usbCall' \in [Threads -> UsbCalls] /\ usbCall'[t].pc = where /\ usbCall'[t].at = usbCall[t].at
             /\ \A u \in Threads \ {t} : usbCall'[u] = usbCall[u]
  BY <1>2 DEF UsbTypes, Usb!Goes, UsbCalls
<1>3. ASSUME Usb!Returns(t)
      PROVE  /\ usbCall' \in [Threads -> UsbCalls] /\ usbCall'[t] = Usb!NoCall
             /\ \A u \in Threads \ {t} : usbCall'[u] = usbCall[u]
  BY <1>1, <1>3 DEF UsbTypes, Usb!Returns
<1> QED BY <1>1, <1>2, <1>3

\* A step of one call that takes nothing off a list but what is lost then.
LEMMA OneCallKeeps ==
  ASSUME UsbInv, NEW t \in Threads, usbOpened = "open", UNCHANGED <<Usb!life, plugged>>, UsbTypes',
         \A u \in Threads \ {t} : usbCall'[u] = usbCall[u],
         drivers' \subseteq drivers, dropped \subseteq dropped',
         plugged => \A i \in drivers' \ dropped' :
           \/ iface'[i] = "kernel"
           \/ iface'[i] \in {"none", "this"} /\ AtIt(t, i, {"reclaim"})'
           \/ /\ iface'[i] = iface[i] \/ (iface'[i] \in {"none", "this"} /\ iface[i] \in {"none", "this"})
              /\ i \in detached \/ AtIt(t, i, Detaching) => i \in detached' \/ AtIt(t, i, Detaching)'
              /\ i \in claimed \/ AtIt(t, i, Claiming) => i \in claimed' \/ AtIt(t, i, Claiming)'
  PROVE  UsbInv'
<1>1. CallsWhileOpen' /\ Usb!NoCallAfterClose' /\ Usb!DriversBack'
  BY DEF Usb!life, CallsWhileOpen, Usb!NoCallAfterClose, Usb!DriversBack
<1>2. Owed'
  <2> SUFFICES ASSUME plugged, NEW i \in drivers' \ dropped'
               PROVE  iface'[i] = "kernel" \/ OnLists(i)'
    BY DEF Owed, Usb!life
  <2>1. iface[i] = "kernel" \/ OnLists(i)
    BY DEF UsbInv, Owed
  <2>2. CASE iface'[i] \in {"none", "this"} /\ AtIt(t, i, {"reclaim"})'
    BY <2>2 DEF OnLists, AtIt, Detaching, Claiming
  <2>3. CASE iface'[i] = "kernel"
    BY <2>3
  <2>4. CASE /\ iface'[i] = iface[i] \/ (iface'[i] \in {"none", "this"} /\ iface[i] \in {"none", "this"})
             /\ i \in detached \/ AtIt(t, i, Detaching) => i \in detached' \/ AtIt(t, i, Detaching)'
             /\ i \in claimed \/ AtIt(t, i, Claiming) => i \in claimed' \/ AtIt(t, i, Claiming)'
    <3>1. CASE iface[i] = "kernel"
      BY <2>4, <3>1
    <3>2. CASE OnLists(i)
      <4>1. i \in detached' \/ \E u \in Threads : AtIt(u, i, Detaching)'
        BY <2>4, <3>2 DEF OnLists, AtIt
      <4>2. i \in claimed' \/ \E u \in Threads : AtIt(u, i, Claiming)'
        BY <2>4, <3>2 DEF OnLists, AtIt
      <4> QED BY <2>4, <3>2, <4>1, <4>2 DEF OnLists
    <3> QED BY <2>1, <3>1, <3>2
  <2> QED BY <2>2, <2>3, <2>4
<1> QED BY <1>1, <1>2 DEF UsbInv

\* The ioctls of a claim, and the end of a call
Ioctl(t) ==
  Usb!Claim(t) \/ Usb!GetDriver(t) \/ Usb!Disconnect(t) \/ Usb!Reclaim(t) \/ Usb!GiveBack(t) \/ Usb!Ends(t)

LEMMA ClaimsKeep == ASSUME UsbInv, NEW t \in Threads, Ioctl(t) PROVE UsbInv'
<1> USE DEF Ioctl
<1> DEFINE i == usbCall[t].at
<1>0. /\ UsbTypes /\ Usb!TypeOK /\ i \in Interfaces /\ usbOpened = "open" /\ usbCall[t].pc \in ClaimPlaces
      /\ usbCall[t].pc \notin {"detaches", "detaching", "claims", "claiming"}
  <2>1. usbCall[t].pc \in {"claim", "driver", "disconnect", "reclaim", "back", "busy", "transfer"}
    BY DEF Usb!Claim, Usb!GetDriver, Usb!Disconnect, Usb!Reclaim, Usb!GiveBack, Usb!Ends
  <2>2. usbCall[t] # Usb!NoCall
    BY <2>1 DEF Usb!NoCall, Usb!Calling
  <2>3. usbCall[t].pc \in ClaimPlaces
    BY <2>1 DEF ClaimPlaces, Usb!Places
  <2> QED BY <2>1, <2>2, <2>3 DEF UsbInv, UsbTypes, CallsWhileOpen
<1>1. UNCHANGED <<device, Usb!life, plugged, drivers, claimed, detached, dropped, pending>>
  BY DEF Usb!Claim, Usb!GetDriver, Usb!Disconnect, Usb!Reclaim, Usb!GiveBack, Usb!Ends, Usb!kernel, Usb!lists
<1>3. (\E where \in Usb!Places : Usb!Goes(t, where)) \/ Usb!Returns(t)
  BY DEF Usb!Claim, Usb!GetDriver, Usb!Disconnect, Usb!Reclaim, Usb!GiveBack, Usb!Ends, Usb!Places
<1>4. \E h \in Usb!Holders : iface' = [iface EXCEPT ![i] = h]
  <2>1. iface = [iface EXCEPT ![i] = iface[i]] /\ iface[i] \in Usb!Holders /\ {"this", "none", "kernel"} \subseteq Usb!Holders
    BY <1>0 DEF Usb!TypeOK, Usb!Holders
  <2> QED BY <2>1 DEF Usb!Claim, Usb!GetDriver, Usb!Disconnect, Usb!Reclaim, Usb!GiveBack, Usb!Ends, Usb!kernel
<1>5. /\ iface' \in [Interfaces -> Usb!Holders] /\ \A j \in Interfaces \ {i} : iface'[j] = iface[j]
  BY <1>0, <1>4 DEF Usb!TypeOK
<1>6. /\ usbCall' \in [Threads -> UsbCalls] /\ \A u \in Threads \ {t} : usbCall'[u] = usbCall[u]
      /\ usbCall'[t].pc = "none" \/ usbCall'[t].at = i
  BY <1>0, <1>3, UsbCallGoes
<1>7. UsbTypes'
  <2>2. \A u \in Threads : usbCall'[u].pc \in ClaimPlaces => usbCall'[u].at \in Interfaces
    BY <1>0, <1>6 DEF UsbTypes, ClaimPlaces
  <2>3. \A u \in Threads : usbCall'[u].pc \in Usb!Places
    BY <1>6 DEF UsbCalls
  <2>4. Usb!TypeOK'
    BY <1>0, <1>1, <1>5, <2>3 DEF Usb!TypeOK, Usb!life
  <2> QED BY <1>6, <2>2, <2>4 DEF UsbTypes
<1>8. ASSUME plugged, NEW j \in drivers \ dropped
      PROVE  \/ iface'[j] = "kernel"
             \/ iface'[j] \in {"none", "this"} /\ AtIt(t, j, {"reclaim"})'
             \/ /\ iface'[j] = iface[j] \/ (iface'[j] \in {"none", "this"} /\ iface[j] \in {"none", "this"})
                /\ j \in detached \/ AtIt(t, j, Detaching) => j \in detached' \/ AtIt(t, j, Detaching)'
                /\ j \in claimed \/ AtIt(t, j, Claiming) => j \in claimed' \/ AtIt(t, j, Claiming)'
  <2>0. j \in Interfaces /\ iface[j] \in {"none", "this", "kernel"}
    BY <1>0, <1>8 DEF Usb!TypeOK, UsbInv, Owed, OnLists
  <2>1. CASE j # i
    BY <1>1, <1>5, <2>0, <2>1 DEF AtIt
  <2>2. CASE j = i
    <3>1. CASE Usb!Claim(t)
      BY <1>0, <1>1, <1>8, <2>0, <2>2, <3>1 DEF Usb!Claim, Usb!TypeOK, AtIt, Detaching, Claiming
    <3>2. CASE Usb!GetDriver(t)
      BY <1>0, <1>1, <1>8, <2>0, <2>2, <3>2 DEF Usb!GetDriver, Usb!kernel, AtIt, Detaching, Claiming
    <3>3. CASE Usb!Disconnect(t)
      <4>1. CASE iface[i] # "none"
        <5>1. iface' = [iface EXCEPT ![i] = "none"] /\ Usb!Goes(t, "reclaim") /\ "reclaim" \in Usb!Places
          BY <1>8, <3>3, <4>1 DEF Usb!Disconnect, Usb!Places
        <5>2. usbCall'[t].pc = "reclaim" /\ usbCall'[t].at = i
          BY <1>0, <5>1, UsbCallGoes
        <5> QED BY <1>0, <2>2, <5>1, <5>2 DEF Usb!TypeOK, AtIt
      <4>2. CASE iface[i] = "none"
        BY <1>0, <1>1, <1>8, <2>2, <3>3, <4>2 DEF Usb!Disconnect, AtIt, Detaching, Claiming
      <4> QED BY <4>1, <4>2
    <3>4. CASE Usb!Reclaim(t)
      <4>1. CASE iface[i] \in {"none", "this"}
        <5>1. iface' = [iface EXCEPT ![i] = "this"] /\ Usb!Goes(t, "detaches") /\ "detaches" \in Usb!Places
          BY <1>8, <3>4, <4>1 DEF Usb!Reclaim, Usb!Places
        <5>2. usbCall'[t].pc = "detaches" /\ usbCall'[t].at = i
          BY <1>0, <5>1, UsbCallGoes
        <5> QED BY <1>0, <2>2, <4>1, <5>1, <5>2 DEF Usb!TypeOK, AtIt, Detaching, Claiming
      <4>2. CASE iface[i] = "kernel"
        BY <2>2, <3>4, <4>2 DEF Usb!Reclaim
      <4> QED BY <2>0, <2>2, <4>1, <4>2
    <3>5. CASE Usb!GiveBack(t)
      BY <1>0, <1>1, <1>8, <2>0, <2>2, <3>5 DEF Usb!GiveBack, Usb!TypeOK, AtIt, Detaching, Claiming
    <3>6. CASE Usb!Ends(t)
      BY <1>0, <1>1, <1>8, <2>0, <2>2, <3>6 DEF Usb!Ends, Usb!TypeOK, AtIt, Detaching, Claiming
    <3> QED BY <3>1, <3>2, <3>3, <3>4, <3>5, <3>6
  <2> QED BY <2>1, <2>2
<1> QED BY <1>0, <1>1, <1>6, <1>7, <1>8, OneCallKeeps

\* The two push_backs
Lists(t) == Usb!Detaches(t) \/ Usb!Detached(t) \/ Usb!Claims(t) \/ Usb!Claimed(t)

LEMMA ListsKeep == ASSUME UsbInv, NEW t \in Threads, Lists(t) PROVE UsbInv'
<1> DEFINE i == usbCall[t].at
<1>0. /\ UsbTypes /\ Usb!TypeOK /\ i \in Interfaces /\ usbOpened = "open"
      /\ usbCall[t] \in UsbCalls /\ usbCall[t].found \subseteq Interfaces
  <2>1. usbCall[t].pc \in {"detaches", "detaching", "claims", "claiming"}
    BY DEF Lists, Usb!Detaches, Usb!Detached, Usb!Claims, Usb!Claimed
  <2>2. usbCall[t] # Usb!NoCall
    BY <2>1 DEF Usb!NoCall, Usb!Calling
  <2>3. usbCall[t].pc \in ClaimPlaces
    BY <2>1 DEF ClaimPlaces, Usb!Places
  <2>4. usbCall[t] \in UsbCalls
    BY DEF UsbInv, UsbTypes
  <2> QED BY <2>2, <2>3, <2>4 DEF UsbInv, UsbTypes, CallsWhileOpen, UsbCalls
<1>1. UNCHANGED <<device, Usb!life, plugged, iface, drivers, pending>>
  BY DEF Lists, Usb!Detaches, Usb!Detached, Usb!Claims, Usb!Claimed, Usb!kernel
<1>2. ASSUME NEW where \in {"detaching", "claims", "claiming", "transfer"},
             NEW list \in SUBSET Interfaces,
             usbCall' = [usbCall EXCEPT ![t].pc = where, ![t].found = list] \/ Usb!Goes(t, where)
      PROVE  /\ usbCall' \in [Threads -> UsbCalls] /\ usbCall'[t].pc = where /\ usbCall'[t].at = i
             /\ \A u \in Threads \ {t} : usbCall'[u] = usbCall[u]
  <2>1. where \in Usb!Places
    BY DEF Usb!Places
  <2>2. CASE Usb!Goes(t, where)
    BY <1>0, <2>1, <2>2, UsbCallGoes
  <2>3. CASE usbCall' = [usbCall EXCEPT ![t].pc = where, ![t].found = list]
    BY <1>0, <2>1, <2>3 DEF UsbTypes, UsbCalls
  <2> QED BY <1>2, <2>2, <2>3
<1>3. \E where \in {"detaching", "claims", "claiming", "transfer"} :
        /\ usbCall' \in [Threads -> UsbCalls] /\ usbCall'[t].pc = where /\ usbCall'[t].at = i
        /\ \A u \in Threads \ {t} : usbCall'[u] = usbCall[u]
        /\ \/ where \in {"detaching", "claiming"} /\ UNCHANGED <<claimed, detached, dropped>>
              /\ usbCall[t].pc = (IF where = "detaching" THEN "detaches" ELSE "claims")
           \/ where = "claims" /\ UNCHANGED claimed /\ usbCall[t].pc = "detaching"
              /\ detached' = usbCall[t].found \cup {i} /\ dropped' = dropped \cup (detached \ detached')
           \/ where = "transfer" /\ UNCHANGED detached /\ usbCall[t].pc = "claiming"
              /\ claimed' = usbCall[t].found \cup {i} /\ dropped' = dropped \cup (claimed \ claimed')
  <2>1. CASE Usb!Detaches(t)
    BY <1>0, <1>2, <2>1 DEF Usb!Detaches, Usb!Finds, Usb!lists, Usb!TypeOK
  <2>2. CASE Usb!Detached(t)
    BY <1>0, <1>2, <2>2 DEF Usb!Detached
  <2>3. CASE Usb!Claims(t)
    BY <1>0, <1>2, <2>3 DEF Usb!Claims, Usb!Finds, Usb!lists, Usb!TypeOK
  <2>4. CASE Usb!Claimed(t)
    BY <1>0, <1>2, <2>4 DEF Usb!Claimed
  <2> QED BY <2>1, <2>2, <2>3, <2>4 DEF Lists
<1>4. PICK where \in {"detaching", "claims", "claiming", "transfer"} :
        /\ usbCall' \in [Threads -> UsbCalls] /\ usbCall'[t].pc = where /\ usbCall'[t].at = i
        /\ \A u \in Threads \ {t} : usbCall'[u] = usbCall[u]
        /\ \/ where \in {"detaching", "claiming"} /\ UNCHANGED <<claimed, detached, dropped>>
              /\ usbCall[t].pc = (IF where = "detaching" THEN "detaches" ELSE "claims")
           \/ where = "claims" /\ UNCHANGED claimed /\ usbCall[t].pc = "detaching"
              /\ detached' = usbCall[t].found \cup {i} /\ dropped' = dropped \cup (detached \ detached')
           \/ where = "transfer" /\ UNCHANGED detached /\ usbCall[t].pc = "claiming"
              /\ claimed' = usbCall[t].found \cup {i} /\ dropped' = dropped \cup (claimed \ claimed')
  BY <1>3
<1>5. UsbTypes'
  <2>1. claimed' \subseteq Interfaces /\ detached' \subseteq Interfaces /\ dropped' \subseteq Interfaces
    BY <1>0, <1>4 DEF Usb!TypeOK
  <2>2. \A u \in Threads : usbCall'[u].pc \in ClaimPlaces => usbCall'[u].at \in Interfaces
    BY <1>0, <1>4 DEF UsbTypes
  <2>3. \A u \in Threads : usbCall'[u].pc \in Usb!Places
    BY <1>4 DEF UsbCalls
  <2>4. Usb!TypeOK'
    BY <1>0, <1>1, <2>1, <2>3 DEF Usb!TypeOK, Usb!life
  <2> QED BY <1>4, <2>2, <2>4 DEF UsbTypes
<1>6. dropped \subseteq dropped'
  BY <1>4
<1>7. ASSUME NEW j \in drivers \ dropped'
      PROVE  /\ j \in detached \/ AtIt(t, j, Detaching) => j \in detached' \/ AtIt(t, j, Detaching)'
             /\ j \in claimed \/ AtIt(t, j, Claiming) => j \in claimed' \/ AtIt(t, j, Claiming)'
  BY <1>4, <1>7 DEF AtIt, Detaching, Claiming
<1> QED BY <1>0, <1>1, <1>4, <1>5, <1>6, <1>7, OneCallKeeps

\* The calls that begin, and those that take nothing.
LEMMA UsbCallsKeep ==
  ASSUME UsbInv, NEW t \in Threads,
         \/ \E i \in Uses[t] : Usb!Transfer(t, i)
         \/ \E limit \in Limits : Usb!Start(t, limit)
         \/ Usb!Try(t) \/ Usb!Polled(t) \/ Usb!TimesOut(t)
  PROVE  UsbInv'
<1>0. UsbTypes /\ Usb!TypeOK /\ MaxPending \in Nat
  BY UsbAssumption DEF UsbInv, UsbTypes
<1>1. usbOpened = "open" /\ UNCHANGED <<device, Usb!life, plugged, iface, drivers, claimed, detached, dropped>> /\ usbCall[t].pc \notin Claiming
  <2>1. ASSUME NEW i \in Uses[t], Usb!Transfer(t, i) 
        PROVE  /\ usbOpened = "open" /\ usbCall[t].pc \notin Claiming
               /\ UNCHANGED <<device, Usb!life, plugged, iface, drivers, claimed, detached, dropped>>
    BY <2>1 DEF Usb!Transfer, Usb!kernel, Usb!lists, Usb!NoCall, Usb!Calling, Detaching, Claiming
  <2>2. ASSUME NEW limit \in Limits, Usb!Start(t, limit) 
        PROVE  /\ usbOpened = "open" /\ usbCall[t].pc \notin Claiming
               /\ UNCHANGED <<device, Usb!life, plugged, iface, drivers, claimed, detached, dropped>>
    BY <2>2 DEF Usb!Start, Usb!kernel, Usb!lists, Usb!NoCall, Usb!Calling, Detaching, Claiming
  <2>3. CASE Usb!Try(t) \/ Usb!Polled(t) \/ Usb!TimesOut(t)
    <3>1. usbCall[t].pc \in {"try", "poll"}
      BY <2>3 DEF Usb!Try, Usb!Polled, Usb!TimesOut
    <3>2. usbCall[t] # Usb!NoCall
      BY <3>1 DEF Usb!NoCall, Usb!Calling
    <3> QED BY <2>3, <3>1, <3>2 DEF UsbInv, CallsWhileOpen, Usb!Try, Usb!Polled, Usb!TimesOut, Usb!kernel, Usb!lists, Detaching, Claiming
  <2> QED BY <2>1, <2>2, <2>3
<1>2. pending' \in 0..MaxPending
  <2>1. pending' = pending \/ (pending > 0 /\ pending' = pending - 1)
    BY DEF Usb!Transfer, Usb!Start, Usb!Try, Usb!Polled, Usb!TimesOut, Usb!kernel
  <2> QED BY <1>0, <2>1 DEF Usb!TypeOK
<1>3. /\ usbCall' \in [Threads -> UsbCalls] /\ \A u \in Threads \ {t} : usbCall'[u] = usbCall[u]
      /\ usbCall'[t].pc \in ClaimPlaces => usbCall'[t].at \in Interfaces
  <2>1. ASSUME NEW i \in Uses[t], Usb!Transfer(t, i)
        PROVE  /\ usbCall' \in [Threads -> UsbCalls] /\ \A u \in Threads \ {t} : usbCall'[u] = usbCall[u]
               /\ usbCall'[t].pc \in ClaimPlaces => usbCall'[t].at \in Interfaces
    <3>1. PICK goesTo \in {"transfer", "claim"} :
            usbCall' = [usbCall EXCEPT ![t] = Usb!Calling(goesTo, i, "none")]
      <4>1. PICK hit \in BOOLEAN : usbCall' = [usbCall EXCEPT ![t] =
              Usb!Calling(IF hit THEN "transfer" ELSE "claim", i, "none")]
        BY <2>1 DEF Usb!Transfer
      <4> QED BY <4>1
    <3>2. i \in Interfaces
      BY UsbAssumption
    <3>3. Usb!Calling(goesTo, i, "none") \in UsbCalls /\ Usb!Calling(goesTo, i, "none").at = i
      BY <3>2 DEF UsbCalls, Usb!Places, Usb!Calling
    <3> QED BY <1>0, <3>1, <3>2, <3>3 DEF UsbTypes
  <2>2. ASSUME NEW limit \in Limits, Usb!Start(t, limit)
        PROVE  /\ usbCall' \in [Threads -> UsbCalls] /\ \A u \in Threads \ {t} : usbCall'[u] = usbCall[u]
               /\ usbCall'[t].pc \in ClaimPlaces => usbCall'[t].at \in Interfaces
    <3>1. usbCall' = [usbCall EXCEPT ![t] = Usb!Calling("try", None, limit)]
      BY <2>2 DEF Usb!Start
    <3>2. Usb!Calling("try", None, limit) \in UsbCalls /\ Usb!Calling("try", None, limit).pc = "try"
      BY DEF UsbCalls, Usb!Places, Usb!Calling
    <3> QED BY <1>0, <3>1, <3>2 DEF UsbTypes, ClaimPlaces
  <2>3. CASE Usb!Try(t) \/ Usb!Polled(t) \/ Usb!TimesOut(t)
    <3>1. Usb!Returns(t) \/ Usb!Goes(t, "poll") \/ Usb!Goes(t, "try")
      BY <2>3 DEF Usb!Try, Usb!Polled, Usb!TimesOut
    <3>2. "poll" \in Usb!Places /\ "try" \in Usb!Places
      BY DEF Usb!Places
    <3> QED BY <1>0, <3>1, <3>2, UsbCallGoes DEF ClaimPlaces
  <2> QED BY <2>1, <2>2, <2>3
<1>4. UsbTypes'
  <2>1. \A u \in Threads : usbCall'[u].pc \in Usb!Places
    BY <1>3 DEF UsbCalls
  <2>2. Usb!TypeOK'
    BY <1>0, <1>1, <1>2, <2>1 DEF Usb!TypeOK, Usb!life
  <2>3. \A u \in Threads : usbCall'[u].pc \in ClaimPlaces => usbCall'[u].at \in Interfaces
    BY <1>0, <1>3 DEF UsbTypes
  <2> QED BY <1>3, <2>2, <2>3 DEF UsbTypes
<1>5. ASSUME NEW j \in drivers
      PROVE  /\ j \in detached \/ AtIt(t, j, Detaching) => j \in detached' \/ AtIt(t, j, Detaching)'
             /\ j \in claimed \/ AtIt(t, j, Claiming) => j \in claimed' \/ AtIt(t, j, Claiming)'
  BY <1>1 DEF AtIt, Detaching, Claiming
<1> QED BY <1>1, <1>3, <1>4, <1>5, OneCallKeeps

\* The world, the Watch and the two ends of the device's life
LEMMA UsbWorldKeeps ==
  ASSUME UsbInv, Usb!Unplug \/ Usb!Arrives \/ \E i \in Foreign : Usb!OtherProgram(i)
  PROVE  UsbInv'
<1>0. UsbTypes /\ Usb!TypeOK /\ MaxPending \in Nat
  BY UsbAssumption DEF UsbInv, UsbTypes
<1>1. CASE Usb!Unplug
  <2>0. iface' \in [Interfaces -> Usb!Holders] /\ drivers' = {} /\ plugged' = FALSE
        /\ UNCHANGED <<device, usbOpened, usbCloser, watch, usbStop, gone, claimed, detached, dropped, usbCall, pending>>
    BY <1>1 DEF Usb!Unplug, Usb!Holders, Usb!life, Usb!lists
  <2>1. Usb!TypeOK'
    BY <1>0, <2>0 DEF Usb!TypeOK
  <2> QED BY <1>0, <1>1, <2>1 DEF UsbInv, UsbTypes, CallsWhileOpen, Owed, OnLists, AtIt, Usb!DriversBack, Usb!NoCallAfterClose, Usb!Unplug, Usb!life, Usb!lists
<1>2. CASE Usb!Arrives
  <2>1. pending' \in 0..MaxPending
    BY <1>0, <1>2 DEF Usb!Arrives, Usb!TypeOK
  <2>2. Usb!TypeOK'
    BY <1>0, <1>2, <2>1 DEF Usb!Arrives, Usb!TypeOK, Usb!life, Usb!lists
  <2> QED BY <1>0, <1>2, <2>2 DEF UsbInv, UsbTypes, CallsWhileOpen, Owed, OnLists, AtIt, Usb!DriversBack, Usb!NoCallAfterClose, Usb!Arrives, Usb!life, Usb!lists
<1>3. ASSUME NEW i \in Foreign, Usb!OtherProgram(i) PROVE UsbInv'
  <2>0. i \in Interfaces
    BY UsbAssumption
  <2>1. /\ iface' \in [Interfaces -> Usb!Holders] /\ drivers' = drivers \ {i}
        /\ \A j \in Interfaces \ {i} : iface'[j] = iface[j]
        /\ UNCHANGED <<device, plugged, usbOpened, usbCloser, watch, usbStop, gone, claimed, detached, dropped, usbCall, pending>>
    BY <1>0, <1>3 DEF Usb!OtherProgram, Usb!TypeOK, Usb!Holders, Usb!life, Usb!lists
  <2>2. Usb!TypeOK'
    BY <1>0, <2>1 DEF Usb!TypeOK
  <2>3. Owed' /\ Usb!DriversBack'
    BY <1>0, <2>1 DEF UsbInv, Owed, OnLists, AtIt, Usb!DriversBack, Usb!TypeOK
  <2> QED BY <1>0, <2>1, <2>2, <2>3 DEF UsbInv, UsbTypes, CallsWhileOpen, Usb!NoCallAfterClose
<1> QED BY <1>1, <1>2, <1>3

LEMMA UsbLifeKeeps ==
  ASSUME UsbInv, Usb!Open \/ Usb!WatchStep \/ Usb!Closed \/ (\E c \in Threads \cup {"watch"} : Usb!Close(c))
                   \/ \E t \in Threads : Usb!SetConfiguration(t)
  PROVE  UsbInv'
<1>0. UsbTypes /\ Usb!TypeOK
  BY DEF UsbInv, UsbTypes
<1>1. CASE Usb!Open
  <2>1. Usb!TypeOK'
    BY <1>0, <1>1 DEF Usb!Open, Usb!TypeOK, Usb!lists
  <2>2. Owed'
    BY <1>1 DEF Usb!Open, Owed
  <2> QED BY <1>0, <1>1, <2>1, <2>2 DEF UsbInv, UsbTypes, CallsWhileOpen, Usb!DriversBack, Usb!NoCallAfterClose, Usb!Open, Usb!lists
<1>2. CASE Usb!WatchStep
  <2>1. UNCHANGED <<device, usbOpened, usbCloser, usbStop, plugged, iface, drivers, claimed, detached, dropped, usbCall, pending>>
    BY <1>2 DEF Usb!WatchStep, Usb!WatchWakes, Usb!WatchCalls, Usb!CallbackReturns, Usb!kernel, Usb!lists
  <2>2. watch \in {"poll", "seen", "call"} /\ watch' \in {"ended", "seen", "call"} /\ gone' \in BOOLEAN
    BY <1>0, <1>2 DEF Usb!WatchStep, Usb!WatchWakes, Usb!WatchCalls, Usb!CallbackReturns, Usb!TypeOK
  <2>3. Usb!TypeOK'
    BY <1>0, <2>1, <2>2 DEF Usb!TypeOK
  <2> QED BY <1>0, <2>1, <2>2, <2>3 DEF UsbInv, UsbTypes, CallsWhileOpen, Owed, OnLists, AtIt, Usb!DriversBack, Usb!NoCallAfterClose
<1>3. CASE Usb!Closed
  <2>0. UNCHANGED <<device, usbCloser, watch, usbStop, gone, plugged, drivers, claimed, detached, dropped, usbCall, pending>> /\ usbOpened' = "closed"
    BY <1>3 DEF Usb!Closed, Usb!lists
  <2>1. iface' \in [Interfaces -> Usb!Holders]
    BY <1>0, <1>3 DEF Usb!Closed, Usb!TypeOK, Usb!Holders
  <2>2. Usb!TypeOK'
    BY <1>0, <2>0, <2>1 DEF Usb!TypeOK
  <2>3. Usb!DriversBack'
    <3> SUFFICES ASSUME plugged, NEW i \in drivers \ dropped PROVE iface'[i] = "kernel"
      BY <2>0 DEF Usb!DriversBack
    <3>1. \A t \in Threads : usbCall[t].pc = "none"
      BY <1>3 DEF UsbInv, CallsWhileOpen, Usb!Closed, Usb!NoCall, Usb!Calling
    <3>2. iface[i] = "kernel" \/ (iface[i] \in {"none", "this"} /\ i \in detached /\ i \in claimed)
      BY <1>3, <3>1 DEF UsbInv, Owed, OnLists, AtIt, Detaching, Claiming, Usb!Closed
    <3>3. i \in Interfaces
      BY <1>0 DEF Usb!TypeOK
    <3> QED BY <1>3, <3>2, <3>3 DEF Usb!Closed
  <2> QED BY <1>0, <1>3, <2>0, <2>2, <2>3 DEF UsbInv, UsbTypes, CallsWhileOpen, Owed, OnLists, AtIt, Usb!NoCallAfterClose, Usb!Closed
<1>4. ASSUME NEW c \in Threads \cup {"watch"}, Usb!Close(c) PROVE UsbInv'
  <2>0. UNCHANGED <<device, plugged, iface, drivers, pending, watch, gone, claimed, detached, dropped, usbCall>>
    BY <1>4 DEF Usb!Close, Usb!kernel, Usb!lists
  <2>1. usbOpened = "open" /\ usbOpened' = "closing" /\ usbCloser' = c /\ usbStop' = TRUE
    BY <1>4 DEF Usb!Close
  <2>2. Usb!TypeOK'
    BY <1>0, <2>0, <2>1 DEF Usb!TypeOK
  <2>3. CallsWhileOpen'
    BY <1>4, <2>0 DEF Usb!Close, CallsWhileOpen
  <2> QED BY <1>0, <2>0, <2>1, <2>2, <2>3 DEF UsbInv, UsbTypes, Owed, OnLists, AtIt, Usb!DriversBack, Usb!NoCallAfterClose
<1>5. ASSUME NEW t \in Threads, Usb!SetConfiguration(t) PROVE UsbInv'
  <2>0. UNCHANGED <<device, usbOpened, usbCloser, watch, usbStop, gone, plugged, claimed, detached, dropped, usbCall, pending>> /\ usbOpened = "open"
    BY <1>5 DEF Usb!SetConfiguration, Usb!life, Usb!lists
  <2>1. iface' \in [Interfaces -> Usb!Holders] /\ drivers' \subseteq Interfaces /\ \A i \in drivers' : iface'[i] = "kernel"
    BY <1>5 DEF Usb!SetConfiguration, Usb!Holders
  <2>2. Usb!TypeOK'
    BY <1>0, <2>0, <2>1 DEF Usb!TypeOK
  <2> QED BY <1>0, <2>0, <2>1, <2>2 DEF UsbInv, UsbTypes, CallsWhileOpen, Owed, OnLists, AtIt, Usb!DriversBack, Usb!NoCallAfterClose
<1> QED BY <1>1, <1>2, <1>3, <1>4, <1>5

LEMMA UsbKeeps == UsbInv /\ [Usb!Next]_usbVars => UsbInv'
<1> SUFFICES ASSUME UsbInv, [Usb!Next]_usbVars PROVE UsbInv'
  OBVIOUS
<1>1. CASE UNCHANGED usbVars
  BY <1>1 DEF usbVars, UsbInv, UsbTypes, Usb!TypeOK, CallsWhileOpen, Owed, OnLists, AtIt, Usb!DriversBack, Usb!NoCallAfterClose
<1>2. CASE Usb!Next
  BY <1>2, UsbWorldKeeps, UsbLifeKeeps, ClaimsKeep, ListsKeep, UsbCallsKeep DEF Usb!Next, Usb!CallStep, Ioctl, Lists
<1> QED BY <1>1, <1>2

LEMMA UsbHolds == UsbInv => Usb!TypeOK /\ Usb!DriversBack /\ Usb!NoCallAfterClose
BY DEF UsbInv, UsbTypes

-----------------------------------------------------------------------------
(* Input: what is queued, handled and told, and the last call.             *)

Hats == {"Up", "Down", "None"}

InputEvents ==
  {e \in [type : {"key", "rel", "abs", "syn"}, code : Input!Keys \cup {"X", "WHEEL", "REPORT"}, value : Int] :
     e.type = "key" => e.code \in Input!Keys}

Buttons == [event : {"button"}, what : Input!Keys, value : Int]
Cursors == [event : {"cursor"}, what : {""}, value : Int]

InputTellings ==
  IF kind = "keyboard" THEN [event : {"key"}, what : Input!Keys, value : Int]
  ELSE IF kind = "mouse" THEN Buttons \cup Cursors \cup [event : {"wheel"}, what : {""}, value : Int]
  ELSE Buttons \cup Cursors \cup [event : {"hat"}, what : Hats, value : Int]

InputStates ==
  [down : SUBSET Input!Keys, caps : BOOLEAN, x : Int, bounds : Int \X Int, scale : Int, restX : Int,
   wheel : Int, restWheel : Int, movedX : Int, movedWheel : Int, changed : Seq(Input!Keys \X Int),
   axis : Int, joystick : SUBSET Input!Keys, dpad : SUBSET Input!Dpad, hat : Hats, out : Seq(InputTellings)]

InputHeard == [down : SUBSET Input!Keys, x : Int, wheel : Int, hat : Hats, gone : BOOLEAN]

\* What the thread has to tell, and that the end of the device is the last of it
InputEnding ==
  IF connected THEN out \in Seq(InputTellings) /\ ~told.gone
  ELSE /\ out = <<>> \/ out = <<Input!Tell("disconnected", "", 0)>>
       /\ reader \in {"tell", "call", "ended"}
       /\ told.gone => out = <<>>

\* Before the device is open there is no thread
NoThreadYet == opened \in {"new", "file"} => reader = "none"

InputInv ==
  /\ Input!TypeOK /\ Input!LastCall
  /\ kind \in {"keyboard", "mouse", "joystick"} /\ held \subseteq Input!Keys /\ place \in Int
  /\ queue \in Seq(InputEvents) /\ batch \in Seq(InputEvents)
  /\ s \in InputStates /\ told \in InputHeard
  /\ InputEnding /\ NoThreadYet

-----------------------------------------------------------------------------
\* The sets of the invariant stay as they are, with the kind of device.
LEMMA SameKind ==
  ASSUME kind' = kind
  PROVE  Input!Keys' = Input!Keys /\ InputEvents' = InputEvents /\ InputTellings' = InputTellings /\ InputStates' = InputStates
         /\ InputHeard' = InputHeard
<1>1. Input!Keys' = Input!Keys
  BY DEF Input!Keys
<1>2. InputTellings' = InputTellings /\ InputEvents' = InputEvents
  BY <1>1 DEF InputTellings, InputEvents, Buttons, Cursors
<1> QED BY <1>1, <1>2 DEF InputStates, InputHeard

LEMMA ChangedTypes ==
  ASSUME NEW set \in SUBSET Input!Keys, NEW k \in Input!Keys, NEW v
  PROVE  Input!Changed(set, k, v) \subseteq Input!Keys
BY DEF Input!Changed

\* A sequence that goes on by one telling.
LEMMA TellMore ==
  ASSUME NEW q \in Seq(InputTellings), NEW o \in InputTellings
  PROVE  Append(q, o) \in Seq(InputTellings)
BY AppendProperties

LEMMA ArithmeticTypes ==
  ASSUME NEW n \in Int, NEW b \in Int \X Int
  PROVE  Input!Whole(n) \in Int /\ Input!Clamp(n, b) \in Int /\ Input!Scale(n, b) \in Int
<1>1. PICK lo \in Int, hi \in Int : b[1] = lo /\ b[2] = hi
  OBVIOUS
<1>2. Input!Whole(n) \in Int /\ Input!Clamp(n, b) \in Int
  BY <1>1 DEF Input!Whole, Input!Clamp
<1>3. PICK m \in Int : m = n * (hi - lo)
  OBVIOUS
<1>4. Input!Scale(n, b) = lo + m \div 2
  BY <1>1, <1>3 DEF Input!Scale
<1> QED BY <1>2, <1>3, <1>4

LEMMA WheelTypes ==
  ASSUME kind = "mouse", NEW st \in InputStates
  PROVE  Input!Wheel(st) \in InputStates
<1> DEFINE more == st.restWheel + st.movedWheel * st.scale
           step == Input!Whole(more)
<1>0. /\ st.restWheel \in Int /\ st.movedWheel \in Int /\ st.scale \in Int /\ st.wheel \in Int
      /\ st.out \in Seq(InputTellings)
  BY DEF InputStates
<1>1. more \in Int
  BY <1>0
<1>2. step \in Int
  BY <1>1 DEF Input!Whole
<1>3. more - 2 * step \in Int /\ st.wheel + step \in Int
  BY <1>0, <1>1, <1>2
<1>4. Input!Tell("wheel", "", st.wheel + step) \in InputTellings
  BY <1>3 DEF Input!Tell, InputTellings, Buttons, Cursors
<1>5. Append(st.out, Input!Tell("wheel", "", st.wheel + step)) \in Seq(InputTellings)
  BY <1>0, <1>4, TellMore
<1>6. Input!Wheel(st) = [st EXCEPT !.restWheel = more - 2 * step, !.wheel = st.wheel + step,
         !.out = IF step # 0 THEN Append(st.out, Input!Tell("wheel", "", st.wheel + step)) ELSE st.out]
  BY DEF Input!Wheel
<1> HIDE DEF more, step
<1> QED BY <1>0, <1>3, <1>5, <1>6 DEF InputStates

LEMMA CursorTypes ==
  ASSUME kind = "mouse", NEW st \in InputStates
  PROVE  Input!Cursor(st) \in InputStates
<1> DEFINE more == st.restX + st.movedX * st.scale
           to == Input!Clamp(st.x + Input!Whole(more), st.bounds)
<1>0. /\ st.restX \in Int /\ st.movedX \in Int /\ st.scale \in Int /\ st.x \in Int
      /\ st.out \in Seq(InputTellings) /\ st.bounds \in Int \X Int
  BY DEF InputStates
<1>1. more \in Int
  BY <1>0
<1>2. Input!Whole(more) \in Int
  BY <1>1 DEF Input!Whole
<1>3. more - 2 * Input!Whole(more) \in Int /\ st.x + Input!Whole(more) \in Int
  BY <1>0, <1>1, <1>2
<1>4. to \in Int
  BY <1>0, <1>3, ArithmeticTypes
<1>5. Input!Tell("cursor", "", to) \in InputTellings
  BY <1>4 DEF Input!Tell, InputTellings, Buttons, Cursors
<1>6. Append(st.out, Input!Tell("cursor", "", to)) \in Seq(InputTellings)
  BY <1>0, <1>5, TellMore
<1>7. Input!Cursor(st) = [st EXCEPT !.restX = more - 2 * Input!Whole(more), !.x = to,
         !.out = IF to # st.x THEN Append(st.out, Input!Tell("cursor", "", to)) ELSE st.out]
  BY DEF Input!Cursor
<1> HIDE DEF more, to
<1> QED BY <1>0, <1>3, <1>4, <1>6, <1>7 DEF InputStates

LEMMA MovedTypes ==
  ASSUME NEW st \in InputStates
  PROVE  [st EXCEPT !.movedX = 0] \in InputStates /\ [st EXCEPT !.movedWheel = 0] \in InputStates
<1>1. PICK n \in Int : n = 0
  OBVIOUS
<1>2. [st EXCEPT !.movedX = n] \in InputStates /\ [st EXCEPT !.movedWheel = n] \in InputStates
  BY DEF InputStates
<1> QED BY <1>1, <1>2

LEMMA ButtonTypes ==
  ASSUME kind = "mouse", NEW st \in InputStates, NEW c \in Input!Keys \X Int
  PROVE  Input!Button(st, c) \in InputStates
<1>0. st.down \in SUBSET Input!Keys /\ st.out \in Seq(InputTellings) /\ c[1] \in Input!Keys /\ c[2] \in Int
  BY DEF InputStates
<1>1. Input!Changed(st.down, c[1], c[2]) \in SUBSET Input!Keys
  BY <1>0, ChangedTypes
<1>2. Input!Tell("button", c[1], c[2]) \in InputTellings
  BY <1>0 DEF Input!Tell, InputTellings, Buttons, Cursors
<1>3. Append(st.out, Input!Tell("button", c[1], c[2])) \in Seq(InputTellings)
  BY <1>0, <1>2, TellMore
<1> QED BY <1>1, <1>3 DEF Input!Button, InputStates

LEMMA MouseTypes ==
  ASSUME kind = "mouse", NEW st \in InputStates, NEW e \in InputEvents
  PROVE  Input!HandleMouse(st, e) \in InputStates
<1>0. e.value \in Int /\ (e.type = "key" => e.code \in Input!Keys)
  BY DEF InputEvents
<1>1. CASE e.type = "rel" /\ e.code = "X"
  <2>1. Input!HandleMouse(st, e) = [st EXCEPT !.movedX = st.movedX + e.value]
    BY <1>1 DEF Input!HandleMouse
  <2>2. st.movedX \in Int
    BY DEF InputStates
  <2>3. PICK n \in Int : n = st.movedX + e.value
    BY <1>0, <2>2
  <2> QED BY <2>1, <2>3 DEF InputStates
<1>2. CASE e.type = "rel" /\ e.code = "WHEEL"
  <2>1. Input!HandleMouse(st, e) = [st EXCEPT !.movedWheel = st.movedWheel + e.value]
    BY <1>2 DEF Input!HandleMouse
  <2>2. st.movedWheel \in Int
    BY DEF InputStates
  <2>3. PICK n \in Int : n = st.movedWheel + e.value
    BY <1>0, <2>2
  <2> QED BY <2>1, <2>3 DEF InputStates
<1>3. CASE e.type = "key"
  <2>1. Input!HandleMouse(st, e) = [st EXCEPT !.changed = Append(st.changed, <<e.code, e.value>>)]
    BY <1>3 DEF Input!HandleMouse
  <2>2. st.changed \in Seq(Input!Keys \X Int) /\ <<e.code, e.value>> \in Input!Keys \X Int
    BY <1>0, <1>3 DEF InputStates
  <2>3. Append(st.changed, <<e.code, e.value>>) \in Seq(Input!Keys \X Int)
    BY <2>2, AppendProperties
  <2> QED BY <2>1, <2>3 DEF InputStates
<1>4. CASE ~(e.type = "rel" /\ e.code = "X") /\ ~(e.type = "rel" /\ e.code = "WHEEL") /\ e.type # "key"
  <2> DEFINE moved == [Input!Cursor(Input!Wheel(st)) EXCEPT !.movedX = 0, !.movedWheel = 0]
  <2>1. Input!HandleMouse(st, e) = Input!Packet(st)
    BY <1>4 DEF Input!HandleMouse
  <2>2. moved \in InputStates
    <3>1. Input!Wheel(st) \in InputStates
      BY WheelTypes
    <3>2. Input!Cursor(Input!Wheel(st)) \in InputStates
      BY <3>1, CursorTypes
    <3>3. PICK c \in InputStates : c = Input!Cursor(Input!Wheel(st))
      BY <3>2
    <3>4. PICK d \in InputStates : d = [c EXCEPT !.movedX = 0]
      BY MovedTypes
    <3>5. [d EXCEPT !.movedWheel = 0] \in InputStates
      BY MovedTypes
    <3> QED BY <3>3, <3>4, <3>5
  <2> HIDE DEF moved
  <2>3. CASE st.changed = <<>>
    BY <2>1, <2>2, <2>3 DEF Input!Packet, moved
  <2>4. CASE st.changed # <<>>
    <3>1. st.changed \in Seq(Input!Keys \X Int)
      BY DEF InputStates
    <3>2. Head(st.changed) \in Input!Keys \X Int
      BY <3>1, <2>4, HeadTailProperties
    <3>3. Input!Button(moved, Head(st.changed)) \in InputStates
      BY <2>2, <3>2, ButtonTypes
    <3>4. PICK b \in InputStates : b = Input!Button(moved, Head(st.changed))
      BY <3>3
    <3>5. Input!HandleMouse(st, e) = [b EXCEPT !.changed = Tail(b.changed)]
      BY <3>4, <2>1, <2>4 DEF Input!Packet, moved
    <3>6. b.changed = st.changed
      <4>1. b.changed = moved.changed
        BY <3>4, <2>2 DEF Input!Button, InputStates
      <4>2. moved.changed = st.changed
        <5>1. Input!Wheel(st).changed = st.changed
          BY DEF Input!Wheel, InputStates
        <5>2. Input!Cursor(Input!Wheel(st)).changed = Input!Wheel(st).changed
          <6>1. Input!Wheel(st) \in InputStates
            BY WheelTypes
          <6> QED BY <6>1 DEF Input!Cursor, InputStates
        <5>3. moved.changed = Input!Cursor(Input!Wheel(st)).changed
          <6>1. Input!Wheel(st) \in InputStates
            BY WheelTypes
          <6>2. Input!Cursor(Input!Wheel(st)) \in InputStates
            BY <6>1, CursorTypes
          <6> QED BY <6>2 DEF moved, InputStates
        <5> QED BY <5>1, <5>2, <5>3
      <4> QED BY <4>1, <4>2
    <3>7. Tail(st.changed) \in Seq(Input!Keys \X Int)
      BY <3>1, <2>4, HeadTailProperties
    <3> QED BY <3>5, <3>6, <3>7 DEF InputStates
  <2> QED BY <2>3, <2>4
<1> QED BY <1>1, <1>2, <1>3, <1>4

LEMMA KeyboardTypes ==
  ASSUME kind = "keyboard", NEW st \in InputStates, NEW e \in InputEvents
  PROVE  Input!HandleKeyboard(st, e) \in InputStates
<1>1. CASE e.type # "key" \/ e.value = 2
  BY <1>1 DEF Input!HandleKeyboard
<1>2. CASE ~(e.type # "key" \/ e.value = 2)
  <2>0. e.value \in Int /\ e.code \in Input!Keys /\ st.down \in SUBSET Input!Keys /\ st.out \in Seq(InputTellings)
        /\ st.caps \in BOOLEAN
    BY <1>2 DEF InputEvents, InputStates
  <2>1. Input!Changed(st.down, e.code, e.value) \in SUBSET Input!Keys
    BY <2>0, ChangedTypes
  <2>2. Input!Tell("key", e.code, e.value) \in InputTellings
    BY <2>0 DEF Input!Tell, InputTellings, Buttons, Cursors
  <2>3. Append(st.out, Input!Tell("key", e.code, e.value)) \in Seq(InputTellings)
    BY <2>0, <2>2, TellMore
  <2>4. PICK lock \in BOOLEAN :
          lock = (IF e.code = "CapsLock" /\ e.value # 0 THEN ~st.caps ELSE st.caps)
    BY <2>0
  <2>5. Input!HandleKeyboard(st, e) =
          [st EXCEPT !.down = Input!Changed(st.down, e.code, e.value), !.caps = lock,
                     !.out = Append(st.out, Input!Tell("key", e.code, e.value))]
    BY <1>2, <2>4 DEF Input!HandleKeyboard
  <2> QED BY <2>1, <2>3, <2>4, <2>5 DEF InputStates
<1> QED BY <1>1, <1>2

LEMMA ReportTypes ==
  ASSUME kind = "joystick", NEW st \in InputStates
  PROVE  Input!Report(st) \in InputStates
<1> DEFINE to == Input!Scale(st.axis, st.bounds)
           way == Input!Direction(st.dpad)
           one == IF "Trigger" \in st.joystick THEN 1 ELSE 0
           a == IF to # st.x THEN <<Input!Tell("cursor", "", to)>> ELSE <<>>
           b == IF way # st.hat THEN <<Input!Tell("hat", way, 0)>> ELSE <<>>
           c == IF st.joystick # st.down THEN <<Input!Tell("button", "Trigger", one)>> ELSE <<>>
<1>0. /\ st.axis \in Int /\ st.bounds \in Int \X Int /\ st.dpad \in SUBSET Input!Dpad
      /\ st.joystick \in SUBSET Input!Keys /\ st.out \in Seq(InputTellings)
  BY DEF InputStates
<1>1. to \in Int
  BY <1>0, ArithmeticTypes
<1>2. way \in Hats
  BY DEF Input!Direction, Hats
<1>3. Input!Tell("cursor", "", to) \in InputTellings
  BY <1>1 DEF Input!Tell, InputTellings, Buttons, Cursors
<1>4. Input!Tell("hat", way, 0) \in InputTellings
  <2>1. PICK w \in Hats : w = way
    BY <1>2
  <2> HIDE DEF way
  <2>2. Input!Tell("hat", w, 0) \in InputTellings
    BY DEF Input!Tell, InputTellings
  <2> QED BY <2>1, <2>2
<1>5. Input!Tell("button", "Trigger", one) \in InputTellings
  <2>1. "Trigger" \in Input!Keys
    BY DEF Input!Keys
  <2>2. one \in Int
    OBVIOUS
  <2> QED BY <2>1, <2>2 DEF Input!Tell, InputTellings, Buttons, Cursors
<1>6. Input!Report(st) = [st EXCEPT !.x = to, !.hat = way, !.down = st.joystick,
                              !.out = st.out \o a \o b \o c]
  BY DEF Input!Report
<1>7. a \in Seq(InputTellings) /\ b \in Seq(InputTellings) /\ c \in Seq(InputTellings)
  <2> HIDE DEF to, way, one
  <2>1. \A o \in InputTellings : <<o>> \in Seq(InputTellings)
    OBVIOUS
  <2>2. <<>> \in Seq(InputTellings)
    OBVIOUS
  <2> QED BY <1>3, <1>4, <1>5, <2>1, <2>2
<1> HIDE DEF a, b, c, to, way, one
<1>8. st.out \o a \in Seq(InputTellings)
  BY <1>0, <1>7, ConcatProperties
<1>9. st.out \o a \o b \in Seq(InputTellings)
  BY <1>7, <1>8, ConcatProperties
<1>10. st.out \o a \o b \o c \in Seq(InputTellings)
  BY <1>7, <1>9, ConcatProperties
<1> QED BY <1>0, <1>1, <1>2, <1>6, <1>10 DEF InputStates

LEMMA JoystickTypes ==
  ASSUME kind = "joystick", NEW st \in InputStates, NEW e \in InputEvents
  PROVE  Input!HandleJoystick(st, e) \in InputStates
<1>0. e.value \in Int /\ (e.type = "key" => e.code \in Input!Keys)
  BY DEF InputEvents
<1>1. CASE e.type = "abs"
  BY <1>0, <1>1 DEF Input!HandleJoystick, InputStates
<1>2. CASE e.type = "key" /\ e.code \in Input!Dpad
  <2>1. Input!HandleJoystick(st, e) = [st EXCEPT !.dpad = Input!Changed(st.dpad, e.code, e.value)]
    BY <1>2 DEF Input!HandleJoystick
  <2>2. Input!Changed(st.dpad, e.code, e.value) \in SUBSET Input!Dpad
    BY <1>2 DEF Input!Changed, InputStates
  <2> QED BY <2>1, <2>2 DEF InputStates
<1>3. CASE e.type = "key" /\ e.code \notin Input!Dpad
  <2>1. Input!HandleJoystick(st, e) = [st EXCEPT !.joystick = Input!Changed(st.joystick, e.code, e.value)]
    BY <1>3 DEF Input!HandleJoystick
  <2>2. Input!Changed(st.joystick, e.code, e.value) \in SUBSET Input!Keys
    BY <1>0, <1>3, ChangedTypes DEF InputStates
  <2> QED BY <2>1, <2>2 DEF InputStates
<1>4. CASE e.type \notin {"abs", "key"}
  <2>1. Input!HandleJoystick(st, e) = Input!Report(st)
    BY <1>4 DEF Input!HandleJoystick
  <2> QED BY <2>1, ReportTypes
<1> QED BY <1>1, <1>2, <1>3, <1>4

LEMMA HandleTypes ==
  ASSUME kind \in {"keyboard", "mouse", "joystick"}, NEW st \in InputStates, NEW e \in InputEvents
  PROVE  Input!Handle(st, e) \in InputStates
<1>1. CASE kind = "keyboard"
  BY <1>1, KeyboardTypes DEF Input!Handle
<1>2. CASE kind = "mouse"
  BY <1>2, MouseTypes DEF Input!Handle
<1>3. CASE kind = "joystick"
  BY <1>3, JoystickTypes DEF Input!Handle
<1> QED BY <1>1, <1>2, <1>3

-----------------------------------------------------------------------------
LEMMA InputBegins == Input!Init => InputInv
<1> SUFFICES ASSUME Input!Init PROVE InputInv
  OBVIOUS
<1>1. kind \in {"keyboard", "mouse", "joystick"} /\ held \subseteq Input!Keys /\ place \in Int
  BY DEF Input!Init
<1>2. queue \in Seq(InputEvents) /\ batch \in Seq(InputEvents)
  BY EmptySeq DEF Input!Init
<1>3. s \in InputStates
  <2>1. <<>> \in Seq(InputTellings) /\ <<>> \in Seq(Input!Keys \X Int)
    BY EmptySeq
  <2>2. <<0, 2>> \in Int \X Int /\ "None" \in Hats
    BY DEF Hats
  <2>3. PICK zero \in Int, two \in Int, no \in BOOLEAN, hat \in Hats, p \in Int \X Int :
          zero = 0 /\ two = 2 /\ no = FALSE /\ hat = "None" /\ p = <<0, 2>>
    BY <2>2
  <2>4. s = [down |-> {}, caps |-> no, x |-> zero, bounds |-> p, scale |-> two, restX |-> zero,
             wheel |-> zero, restWheel |-> zero, movedX |-> zero, movedWheel |-> zero,
             changed |-> <<>>, axis |-> zero, joystick |-> {}, dpad |-> {}, hat |-> hat,
             out |-> <<>>]
    BY <2>3 DEF Input!Init, Input!Fresh
  <2> QED BY <2>1, <2>4 DEF InputStates
<1>4. told \in InputHeard /\ InputEnding /\ NoThreadYet
  BY EmptySeq DEF Input!Init, InputHeard, Hats, InputEnding, NoThreadYet
<1>5. Input!TypeOK /\ Input!LastCall
  <2>1. s.down = {} /\ told.down = {} /\ ~told.gone
    BY DEF Input!Init, Input!Fresh
  <2> QED BY <2>1 DEF Input!Init, Input!TypeOK, Input!LastCall
<1> QED BY <1>1, <1>2, <1>3, <1>4, <1>5 DEF InputInv

\* What a step that leaves the kind of device alone has still to show.
LEMMA InputGoes ==
  ASSUME InputInv, kind' = kind, held' \subseteq Input!Keys, place' \in Int,
         alive' \in {"plugged", "released", "dead"},
         opened' \in {"new", "file", "open", "closing", "closed"},
         closer' \in Readers \cup {"reader", None},
         reader' \in {"none", "poll", "read", "handle", "tell", "call", "ended"},
         stop' \in BOOLEAN, connected' \in BOOLEAN, overtaken' \in BOOLEAN,
         queue' \in Seq(InputEvents), batch' \in Seq(InputEvents), s' \in InputStates, told' \in InputHeard,
         InputEnding', NoThreadYet', opened' = "closed" => reader' = "ended" \/ closer' = "reader"
  PROVE  InputInv'
<1>1. /\ Input!Keys' = Input!Keys /\ InputEvents' = InputEvents /\ InputTellings' = InputTellings /\ InputStates' = InputStates
      /\ InputHeard' = InputHeard
  BY SameKind
<1>2. s'.down \subseteq Input!Keys /\ told'.down \subseteq Input!Keys
  BY DEF InputStates, InputHeard
<1>3. Input!TypeOK'
  BY <1>1, <1>2 DEF Input!TypeOK
<1>4. told'.gone /\ reader' # "call" => out' = <<>> /\ reader' \in {"tell", "ended"}
  BY DEF InputEnding
<1> QED BY <1>1, <1>3, <1>4 DEF InputInv, Input!LastCall

\* The device does something; nothing of the library's changes.
LEMMA DeviceGoes ==
  ASSUME InputInv, kind' = kind, held' \subseteq Input!Keys, place' \in Int,
         alive' \in {"plugged", "released", "dead"}, queue' \in Seq(InputEvents),
         UNCHANGED <<batch, opened, closer, stop, s, reader, out, connected, told, overtaken>>
  PROVE  InputInv'
<1>1. InputTellings' = InputTellings
  BY SameKind
<1>2. InputEnding' /\ NoThreadYet'
  BY <1>1 DEF InputEnding, InputInv, NoThreadYet
<1>3. opened = "closed" => reader = "ended" \/ closer = "reader"
  BY DEF InputInv, Input!LastCall
<1>4. /\ opened \in {"new", "file", "open", "closing", "closed"}
      /\ closer \in Readers \cup {"reader", None}
      /\ reader \in {"none", "poll", "read", "handle", "tell", "call", "ended"}
      /\ stop \in BOOLEAN /\ connected \in BOOLEAN /\ overtaken \in BOOLEAN
      /\ batch \in Seq(InputEvents) /\ s \in InputStates /\ told \in InputHeard
  BY DEF InputInv, Input!TypeOK
<1> QED BY <1>2, <1>3, <1>4, InputGoes

LEMMA QueuesGoes ==
  ASSUME InputInv, held' \subseteq Input!Keys, place' \in Int, NEW e \in InputEvents, Input!Queues(<<e, Input!Syn>>)
  PROVE  InputInv'
<1>1. Input!Syn \in InputEvents
  BY DEF Input!Syn, Input!Event, InputEvents
<1>2. <<e, Input!Syn>> \in Seq(InputEvents)
  BY <1>1
<1>3. queue' \in Seq(InputEvents)
  <2>1. queue \in Seq(InputEvents)
    BY DEF InputInv
  <2>2. queue \o <<e, Input!Syn>> \in Seq(InputEvents)
    BY <1>2, <2>1, ConcatProperties
  <2> QED BY <2>1, <2>2 DEF Input!Queues
<1>4. /\ kind' = kind /\ alive' \in {"plugged", "released", "dead"}
      /\ UNCHANGED <<batch, opened, closer, stop, s, reader, out, connected, told, overtaken>>
  BY DEF Input!Queues, InputInv, Input!TypeOK, Input!life
<1> QED BY <1>3, <1>4, DeviceGoes

LEMMA DeviceKeeps ==
  ASSUME InputInv,
         \/ \E k \in {"A", "CapsLock", "Left", "Right", "Trigger"} \cup Input!Dpad :
              Input!Press(k) \/ Input!Release(k) \/ Input!Repeats(k)
         \/ \E by \in {-1, 1} : Input!Moves(by) \/ Input!Turns(by)
         \/ \E to \in 0..2 : Input!Tilts(to)
  PROVE  InputInv'
<1>0. held \subseteq Input!Keys /\ place \in Int
  BY DEF InputInv
<1>1. ASSUME NEW k, Input!Press(k) PROVE InputInv'
  <2>1. k \in Input!Keys /\ held' \subseteq Input!Keys /\ place' = place /\ Input!Queues(<<Input!Event("key", k, 1), Input!Syn>>)
    BY <1>0, <1>1 DEF Input!Press
  <2>2. Input!Event("key", k, 1) \in InputEvents
    BY <2>1 DEF Input!Event, InputEvents
  <2> QED BY <1>0, <2>1, <2>2, QueuesGoes
<1>2. ASSUME NEW k, Input!Release(k) PROVE InputInv'
  <2>1. k \in Input!Keys /\ held' \subseteq Input!Keys /\ place' = place /\ Input!Queues(<<Input!Event("key", k, 0), Input!Syn>>)
    BY <1>0, <1>2 DEF Input!Release
  <2>2. Input!Event("key", k, 0) \in InputEvents
    BY <2>1 DEF Input!Event, InputEvents
  <2> QED BY <1>0, <2>1, <2>2, QueuesGoes
<1>3. ASSUME NEW k, Input!Repeats(k) PROVE InputInv'
  <2>1. k \in Input!Keys /\ held' = held /\ place' = place /\ Input!Queues(<<Input!Event("key", k, 2), Input!Syn>>)
    BY <1>0, <1>3 DEF Input!Repeats
  <2>2. Input!Event("key", k, 2) \in InputEvents
    BY <2>1 DEF Input!Event, InputEvents
  <2> QED BY <1>0, <2>1, <2>2, QueuesGoes
<1>4. ASSUME NEW by \in {-1, 1}, Input!Moves(by) PROVE InputInv'
  <2>1. held' = held /\ place' = place /\ Input!Queues(<<Input!Event("rel", "X", by), Input!Syn>>)
    BY <1>4 DEF Input!Moves
  <2>2. Input!Event("rel", "X", by) \in InputEvents
    BY DEF Input!Event, InputEvents
  <2> QED BY <1>0, <2>1, <2>2, QueuesGoes
<1>5. ASSUME NEW by \in {-1, 1}, Input!Turns(by) PROVE InputInv'
  <2>1. held' = held /\ place' = place /\ Input!Queues(<<Input!Event("rel", "WHEEL", by), Input!Syn>>)
    BY <1>5 DEF Input!Turns
  <2>2. Input!Event("rel", "WHEEL", by) \in InputEvents
    BY DEF Input!Event, InputEvents
  <2> QED BY <1>0, <2>1, <2>2, QueuesGoes
<1>6. ASSUME NEW to \in 0..2, Input!Tilts(to) PROVE InputInv'
  <2>1. held' = held /\ place' = to /\ Input!Queues(<<Input!Event("abs", "X", to), Input!Syn>>)
    BY <1>6 DEF Input!Tilts
  <2>2. Input!Event("abs", "X", to) \in InputEvents
    BY DEF Input!Event, InputEvents
  <2>3. held' \subseteq Input!Keys /\ place' \in Int
    BY <1>0, <2>1
  <2> QED BY <2>1, <2>2, <2>3, QueuesGoes
<1> QED BY <1>1, <1>2, <1>3, <1>4, <1>5, <1>6

LEMMA UnplugKeeps == ASSUME InputInv, Input!Unplug PROVE InputInv'
<1>0. /\ queue \in Seq(InputEvents) /\ held \subseteq Input!Keys /\ place \in Int
      /\ kind' = kind /\ place' = place /\ alive' \in {"plugged", "released", "dead"}
      /\ UNCHANGED <<batch, opened, closer, stop, s, reader, out, connected, told, overtaken>>
  BY DEF InputInv, Input!Unplug, Input!life
<1>1. CASE alive = "released"
  <2>1. held' = held /\ queue' = <<>> /\ queue' \in Seq(InputEvents)
    BY <1>1 DEF Input!Unplug
  <2> QED BY <1>0, <2>1, DeviceGoes
<1>2. CASE alive # "released"
  <2>1. held' = {} /\ \E order \in [1..Input!Cardinality(held) -> held] :
          queue' = IF opened = "new" THEN queue
                   ELSE queue \o [i \in DOMAIN order |-> Input!Event("key", order[i], 0)] \o <<Input!Syn>>
    BY <1>2 DEF Input!Unplug
  <2>2. PICK order \in [1..Input!Cardinality(held) -> held] :
          queue' = IF opened = "new" THEN queue
                   ELSE queue \o [i \in DOMAIN order |-> Input!Event("key", order[i], 0)] \o <<Input!Syn>>
    BY <2>1
  <2>3. Input!Cardinality(held) \in Nat
    <3>1. PICK a, b, c : Input!Keys \subseteq {a, b, c}
      BY DEF Input!Keys
    <3>2. IsFiniteSet({a, b, c})
      <4>1. IsFiniteSet({a})
        BY FS_Singleton
      <4>2. IsFiniteSet({a} \cup {b})
        BY <4>1, FS_AddElement
      <4>3. IsFiniteSet({a} \cup {b} \cup {c})
        BY <4>2, FS_AddElement
      <4>4. {a} \cup {b} \cup {c} = {a, b, c}
        OBVIOUS
      <4> QED BY <4>3, <4>4
    <3>3. held \in SUBSET {a, b, c}
      BY <1>0, <3>1
    <3> QED BY <3>2, <3>3, FS_Subset, FS_CardinalityType DEF Input!Cardinality, Cardinality
  <2>4. PICK n \in Nat : n = Input!Cardinality(held)
    BY <2>3
  <2> DEFINE released == [i \in DOMAIN order |-> Input!Event("key", order[i], 0)]
  <2>5. released \in [1..n -> InputEvents]
    <3>1. order \in [1..n -> Input!Keys]
      BY <1>0, <2>4
    <3>2. \A k \in Input!Keys : Input!Event("key", k, 0) \in InputEvents
      BY DEF Input!Event, InputEvents
    <3> QED BY <3>1, <3>2
  <2> HIDE DEF released
  <2>6. released \in Seq(InputEvents)
    BY <2>5
  <2>7. Input!Syn \in InputEvents
    BY DEF Input!Syn, Input!Event, InputEvents
  <2>8. queue \o released \o <<Input!Syn>> \in Seq(InputEvents)
    <3>1. <<Input!Syn>> \in Seq(InputEvents)
      BY <2>7
    <3>2. queue \o released \in Seq(InputEvents)
      BY <1>0, <2>6, ConcatProperties
    <3> QED BY <3>1, <3>2, ConcatProperties
  <2>9. queue' \in Seq(InputEvents)
    BY <1>0, <2>2, <2>8 DEF released
  <2>10. held' \subseteq Input!Keys
    BY <2>1
  <2> QED BY <1>0, <2>9, <2>10, DeviceGoes
<1> QED BY <1>1, <1>2

\* The constructor.
LEMMA OpenKeeps == ASSUME InputInv, Input!OpenFile \/ Input!Open PROVE InputInv'
<1>0. /\ kind \in {"keyboard", "mouse", "joystick"} /\ held \subseteq Input!Keys /\ place \in Int
      /\ queue \in Seq(InputEvents) /\ batch \in Seq(InputEvents) /\ s \in InputStates /\ told \in InputHeard
      /\ alive \in {"plugged", "released", "dead"} /\ closer \in Readers \cup {"reader", None}
      /\ reader \in {"none", "poll", "read", "handle", "tell", "call", "ended"}
      /\ stop \in BOOLEAN /\ connected \in BOOLEAN /\ overtaken \in BOOLEAN
  BY DEF InputInv, Input!TypeOK
<1>1. CASE Input!OpenFile
  <2>1. /\ kind' = kind /\ held' = held /\ place' = place /\ alive' = alive
        /\ opened = "new" /\ opened' = "file"
        /\ UNCHANGED <<queue, batch, closer, stop, s, reader, out, connected, told, overtaken>>
    BY <1>1 DEF Input!OpenFile, Input!device
  <2>2. InputTellings' = InputTellings
    BY <2>1, SameKind
  <2>3. InputEnding' /\ NoThreadYet'
    BY <2>1, <2>2 DEF InputEnding, InputInv, NoThreadYet
  <2> QED BY <1>0, <2>1, <2>3, InputGoes
<1>2. CASE Input!Open
  <2>1. /\ kind' = kind /\ held' = held /\ place' = place /\ alive' = alive /\ opened' = "open"
        /\ reader' = "poll"
        /\ UNCHANGED <<batch, closer, stop, out, connected, overtaken>>
    BY <1>2 DEF Input!Open, Input!device
  <2>2. queue' \in Seq(InputEvents)
    <3>0. PICK n \in 0..Len(queue) : \E order \in [1..n -> 1..Len(queue)] :
            queue' = [i \in 1..n |-> queue[order[i]]]
      BY <1>2 DEF Input!Open
    <3>1. PICK order \in [1..n -> 1..Len(queue)] : queue' = [i \in 1..n |-> queue[order[i]]]
      BY <3>0
    <3>2. Len(queue) \in Nat /\ \A i \in 1..Len(queue) : queue[i] \in InputEvents
      BY <1>0, LenProperties, ElementOfSeq
    <3>3. n \in Nat /\ \A i \in 1..n : queue[order[i]] \in InputEvents
      BY <3>1, <3>2
    <3>4. queue' \in [1..n -> InputEvents]
      BY <3>1, <3>3
    <3> QED BY <3>3, <3>4
  <2>3. Input!Fresh \in InputStates
    <3>1. <<>> \in Seq(InputTellings) /\ <<>> \in Seq(Input!Keys \X Int)
      BY EmptySeq
    <3>2. <<0, 2>> \in Int \X Int /\ "None" \in Hats
      BY DEF Hats
    <3>3. PICK zero \in Int, two \in Int, no \in BOOLEAN, hat \in Hats, p \in Int \X Int :
            zero = 0 /\ two = 2 /\ no = FALSE /\ hat = "None" /\ p = <<0, 2>>
      BY <3>2
    <3>4. Input!Fresh = [down |-> {}, caps |-> no, x |-> zero, bounds |-> p, scale |-> two,
             restX |-> zero, wheel |-> zero, restWheel |-> zero, movedX |-> zero,
             movedWheel |-> zero, changed |-> <<>>, axis |-> zero, joystick |-> {}, dpad |-> {},
             hat |-> hat, out |-> <<>>]
      BY <3>3 DEF Input!Fresh
    <3> QED BY <3>1, <3>4 DEF InputStates
  <2>4. PICK f \in InputStates : f = Input!Fresh
    BY <2>3
  <2>5. s' \in InputStates
    <3>1. CASE kind # "joystick"
      <4>1. s' = [f EXCEPT !.down = held]
        BY <1>0, <1>2, <2>4, <3>1 DEF Input!Open
      <4> QED BY <1>0, <4>1 DEF InputStates
    <3>2. CASE kind = "joystick"
      <4>1. Input!Fresh.bounds \in Int \X Int
        BY <2>3 DEF InputStates
      <4>2. PICK to \in Int : to = Input!Scale(place, Input!Fresh.bounds)
        BY <1>0, <4>1, ArithmeticTypes
      <4>3. s' = [f EXCEPT !.down = held \ Input!Dpad, !.joystick = held \ Input!Dpad, !.axis = place, !.x = to]
        BY <1>2, <2>4, <3>2, <4>2 DEF Input!Open
      <4>4. held \ Input!Dpad \in SUBSET Input!Keys
        BY <1>0
      <4> QED BY <1>0, <4>3, <4>4 DEF InputStates
    <3> QED BY <3>1, <3>2
  <2>6. told' \in InputHeard /\ told'.gone = told.gone
    <3>1. told' = [told EXCEPT !.down = s'.down, !.x = s'.x]
      BY <1>2 DEF Input!Open
    <3>2. s'.down \in SUBSET Input!Keys /\ s'.x \in Int
      BY <2>5 DEF InputStates
    <3> QED BY <1>0, <3>1, <3>2 DEF InputHeard
  <2>7. connected /\ InputTellings' = InputTellings
    <3>1. opened = "file" /\ InputTellings' = InputTellings
      BY <1>2, <2>1, SameKind DEF Input!Open
    <3> QED BY <3>1 DEF InputInv, NoThreadYet, InputEnding
  <2>8. InputEnding' /\ NoThreadYet'
    BY <2>1, <2>6, <2>7 DEF InputEnding, InputInv, NoThreadYet
  <2> QED BY <1>0, <2>1, <2>2, <2>5, <2>6, <2>8, InputGoes
<1> QED BY <1>1, <1>2

-----------------------------------------------------------------------------
\* What of the invariant the steps of the thread rest on.
LEMMA InputTypes ==
  ASSUME InputInv
  PROVE  /\ kind \in {"keyboard", "mouse", "joystick"} /\ held \subseteq Input!Keys /\ place \in Int
         /\ queue \in Seq(InputEvents) /\ batch \in Seq(InputEvents) /\ s \in InputStates
         /\ told \in InputHeard
         /\ alive \in {"plugged", "released", "dead"} /\ closer \in Readers \cup {"reader", None}
         /\ opened \in {"new", "file", "open", "closing", "closed"}
         /\ reader \in {"none", "poll", "read", "handle", "tell", "call", "ended"}
         /\ stop \in BOOLEAN /\ connected \in BOOLEAN /\ overtaken \in BOOLEAN
         /\ (opened = "closed" => reader = "ended" \/ closer = "reader")
BY DEF InputInv, Input!TypeOK, Input!LastCall

LEMMA PolledKeeps == ASSUME InputInv, Input!Polled PROVE InputInv'
<1>1. /\ reader = "poll" /\ reader' \in {"read", "ended"}
      /\ UNCHANGED <<kind, held, place, alive, queue, batch, opened, closer, stop, s, out,
                     connected, told, overtaken>>
  BY DEF Input!Polled, Input!device, Input!life
<1>2. InputTellings' = InputTellings
  BY <1>1, SameKind
<1>3. InputEnding' /\ NoThreadYet'
  BY <1>1, <1>2 DEF InputEnding, InputInv, NoThreadYet
<1> QED BY <1>1, <1>3, InputTypes, InputGoes

LEMMA ReadKeeps == ASSUME InputInv, Input!Read PROVE InputInv'
<1> DEFINE n == IF Len(queue) < Batch THEN Len(queue) ELSE Batch
<1>1. /\ reader = "read" /\ reader' = "handle"
      /\ batch' = SubSeq(queue, 1, n) /\ queue' = SubSeq(queue, n + 1, Len(queue))
      /\ UNCHANGED <<kind, held, place, alive, opened, closer, stop, s, out, connected, told,
                     overtaken>>
  BY DEF Input!Read, Input!device, Input!life
<1>2. queue' \in Seq(InputEvents) /\ batch' \in Seq(InputEvents)
  <2>1. queue \in Seq(InputEvents) /\ Len(queue) \in Nat /\ Batch \in Nat
    BY InputTypes, LenProperties, InputAssumption
  <2>2. n \in Nat /\ n <= Len(queue)
    BY <2>1
  <2>3. PICK m \in Nat : m = n /\ m <= Len(queue)
    BY <2>2
  <2>4. \A i \in 1..Len(queue) : queue[i] \in InputEvents
    BY <2>1, ElementOfSeq
  <2>5. \A i \in 1..m : queue[i] \in InputEvents
    BY <2>1, <2>3, <2>4
  <2>6. \A i \in m + 1..Len(queue) : queue[i] \in InputEvents
    BY <2>1, <2>3, <2>4
  <2>7. SubSeq(queue, 1, m) \in Seq(InputEvents)
    BY <2>3, <2>5, SubSeqProperties
  <2>8. SubSeq(queue, m + 1, Len(queue)) \in Seq(InputEvents)
    <3>1. m + 1 \in Int /\ Len(queue) \in Int
      BY <2>1
    <3> QED BY <2>6, <3>1, SubSeqProperties
  <2> QED BY <1>1, <2>3, <2>7, <2>8
<1>3. InputTellings' = InputTellings
  BY <1>1, SameKind
<1>4. InputEnding' /\ NoThreadYet'
  BY <1>1, <1>3 DEF InputEnding, InputInv, NoThreadYet
<1> QED BY <1>1, <1>2, <1>4, InputTypes, InputGoes

LEMMA HandleNextKeeps == ASSUME InputInv, Input!HandleNext PROVE InputInv'
<1>1. /\ reader = "handle" /\ batch # <<>> /\ s' = Input!Handle(s, Head(batch))
      /\ batch' = batch \/ batch' = Tail(batch)
      /\ UNCHANGED <<kind, held, place, alive, queue, opened, closer, stop, reader, out,
                     connected, told, overtaken>>
  BY DEF Input!HandleNext, Input!device, Input!life
<1>2. Head(batch) \in InputEvents /\ batch' \in Seq(InputEvents)
  <2>1. batch \in Seq(InputEvents)
    BY InputTypes
  <2>2. Head(batch) \in InputEvents /\ Tail(batch) \in Seq(InputEvents)
    BY <1>1, <2>1, HeadTailProperties
  <2> QED BY <1>1, <2>1, <2>2
<1>3. s' \in InputStates
  <2>1. kind \in {"keyboard", "mouse", "joystick"} /\ s \in InputStates
    BY InputTypes
  <2> QED BY <1>1, <1>2, <2>1, HandleTypes
<1>4. InputTellings' = InputTellings
  BY <1>1, SameKind
<1>5. InputEnding' /\ NoThreadYet'
  BY <1>1, <1>4 DEF InputEnding, InputInv, NoThreadYet
<1> QED BY <1>1, <1>2, <1>3, <1>5, InputTypes, InputGoes

LEMMA HandledKeeps == ASSUME InputInv, Input!Handled PROVE InputInv'
<1>1. /\ reader = "handle" /\ reader' = "tell" /\ out' = s.out /\ s' = [s EXCEPT !.out = <<>>]
      /\ UNCHANGED <<kind, held, place, alive, queue, batch, opened, closer, stop,
                     connected, told, overtaken>>
  BY DEF Input!Handled, Input!device, Input!life
<1>2. s.out \in Seq(InputTellings) /\ s' \in InputStates
  <2>1. s \in InputStates /\ <<>> \in Seq(InputTellings)
    BY InputTypes, EmptySeq
  <2>2. PICK e \in Seq(InputTellings) : e = <<>>
    BY <2>1
  <2>3. s' = [s EXCEPT !.out = e]
    BY <1>1, <2>2
  <2> QED BY <2>1, <2>3 DEF InputStates
<1>3. InputTellings' = InputTellings
  BY <1>1, SameKind
<1>4. InputEnding' /\ NoThreadYet'
  BY <1>1, <1>2, <1>3 DEF InputEnding, InputInv, NoThreadYet
<1> QED BY <1>1, <1>2, <1>4, InputTypes, InputGoes

LEMMA ReadGoneKeeps == ASSUME InputInv, Input!ReadGone PROVE InputInv'
<1>1. /\ reader = "read" /\ reader' = "tell" /\ connected' = FALSE
      /\ out' = <<Input!Tell("disconnected", "", 0)>>
      /\ UNCHANGED <<kind, held, place, alive, queue, batch, opened, closer, stop, s, told,
                     overtaken>>
  BY DEF Input!ReadGone, Input!device, Input!life
<1>2. ~told.gone
  BY <1>1 DEF InputInv, InputEnding
<1>3. InputEnding' /\ NoThreadYet'
  BY <1>1, <1>2 DEF InputEnding, Input!Tell, InputInv, NoThreadYet
<1> QED BY <1>1, <1>3, InputTypes, InputGoes

-----------------------------------------------------------------------------
\* What the program makes of what it is told.
LEMMA HearsTypes ==
  ASSUME InputInv, NEW o \in InputTellings
  PROVE  Input!Hears(o) \in InputHeard /\ Input!Hears(o).gone = told.gone
<1>0. /\ told \in InputHeard /\ told.down \in SUBSET Input!Keys
      /\ kind \in {"keyboard", "mouse", "joystick"}
  BY InputTypes DEF InputHeard
<1>1. o.value \in Int /\ o.event # "disconnected"
  BY DEF InputTellings, Buttons, Cursors
<1>2. CASE o.event \in {"key", "button"}
  <2>1. o.what \in Input!Keys
    BY <1>2 DEF InputTellings, Buttons, Cursors
  <2>2. PICK d \in SUBSET Input!Keys : d = Input!Changed(told.down, o.what, o.value)
    BY <1>0, <2>1, ChangedTypes
  <2>3. Input!Hears(o) = [told EXCEPT !.down = d]
    <3>1. (kind = "keyboard") = (o.event = "key")
      BY <1>0 DEF InputTellings, Buttons, Cursors
    <3> QED BY <1>0, <1>1, <1>2, <2>2, <3>1 DEF Input!Hears, Input!HearsMouse, Input!HearsKeyboard, Input!HearsJoystick
  <2> QED BY <1>0, <2>3 DEF InputHeard
<1>3. CASE o.event = "wheel"
  <2>1. kind = "mouse"
    BY <1>0, <1>3 DEF InputTellings, Buttons, Cursors
  <2>2. Input!Hears(o) = [told EXCEPT !.wheel = o.value]
    BY <1>3, <2>1 DEF Input!Hears, Input!HearsMouse
  <2> QED BY <1>0, <1>1, <2>2 DEF InputHeard
<1>4. CASE o.event = "cursor"
  <2>1. kind # "keyboard"
    BY <1>4 DEF InputTellings, Buttons, Cursors
  <2>2. Input!Hears(o) = [told EXCEPT !.x = o.value]
    BY <1>0, <1>4, <2>1 DEF Input!Hears, Input!HearsMouse, Input!HearsJoystick
  <2> QED BY <1>0, <1>1, <2>2 DEF InputHeard
<1>5. CASE o.event = "hat"
  <2>1. kind = "joystick" /\ o.what \in Hats
    BY <1>0, <1>5 DEF InputTellings, Buttons, Cursors
  <2>2. Input!Hears(o) = [told EXCEPT !.hat = o.what]
    BY <1>5, <2>1 DEF Input!Hears, Input!HearsJoystick
  <2> QED BY <1>0, <2>1, <2>2 DEF InputHeard
<1>6. o.event \in {"key", "button", "wheel", "cursor", "hat"}
  BY DEF InputTellings, Buttons, Cursors
<1> QED BY <1>2, <1>3, <1>4, <1>5, <1>6

LEMMA TellsKeeps == ASSUME InputInv, Input!Tells PROVE InputInv'
<1>1. /\ reader = "tell" /\ reader' = "call" /\ out # <<>> /\ told' = Input!Hears(Head(out))
      /\ out' = Tail(out)
      /\ UNCHANGED <<kind, held, place, alive, queue, batch, opened, closer, stop, s, connected,
                     overtaken>>
  BY DEF Input!Tells, Input!device, Input!life
<1>2. InputTellings' = InputTellings /\ told \in InputHeard
  BY <1>1, SameKind, InputTypes
<1>3. told' \in InputHeard /\ InputEnding'
  <2>1. CASE connected
    <3>1. out \in Seq(InputTellings) /\ ~told.gone
      BY <2>1 DEF InputInv, InputEnding
    <3>2. Head(out) \in InputTellings /\ Tail(out) \in Seq(InputTellings)
      BY <1>1, <3>1, HeadTailProperties
    <3>3. told' \in InputHeard /\ told'.gone = told.gone
      BY <1>1, <3>2, HearsTypes
    <3> QED BY <1>1, <1>2, <2>1, <3>1, <3>2, <3>3 DEF InputEnding
  <2>2. CASE ~connected
    <3>1. PICK o : o = Input!Tell("disconnected", "", 0)
      OBVIOUS
    <3>2. out = <<o>>
      BY <1>1, <2>2, <3>1 DEF InputInv, InputEnding
    <3>3. Head(out) = o /\ out' = <<>>
      BY <1>1, <3>2
    <3>4. o.event = "disconnected"
      BY <3>1 DEF Input!Tell
    <3>5. told' = [told EXCEPT !.gone = TRUE]
      BY <1>1, <3>3, <3>4 DEF Input!Hears
    <3> QED BY <1>1, <1>2, <2>2, <3>3, <3>5 DEF InputEnding, InputHeard
  <2> QED BY <2>1, <2>2
<1>4. NoThreadYet'
  BY <1>1 DEF InputInv, NoThreadYet
<1> QED BY <1>1, <1>3, <1>4, InputTypes, InputGoes

LEMMA CallbackReturnsKeeps == ASSUME InputInv, Input!CallbackReturns PROVE InputInv'
<1>1. /\ reader = "call" /\ reader' = "tell" /\ (closer = "reader" => opened = "closed")
      /\ UNCHANGED <<kind, held, place, alive, queue, batch, opened, closer, stop, s, out,
                     connected, told, overtaken>>
  BY DEF Input!CallbackReturns, Input!device, Input!life
<1>2. InputTellings' = InputTellings
  BY <1>1, SameKind
<1>3. InputEnding' /\ NoThreadYet'
  BY <1>1, <1>2 DEF InputEnding, InputInv, NoThreadYet
<1> QED BY <1>1, <1>3, InputTypes, InputGoes

LEMMA AllToldKeeps == ASSUME InputInv, Input!AllTold PROVE InputInv'
<1>1. /\ reader = "tell" /\ out' = <<>>
      /\ reader' = IF ~connected \/ stop THEN "ended" ELSE "poll"
      /\ UNCHANGED <<kind, held, place, alive, queue, batch, opened, closer, stop, s,
                     connected, told, overtaken>>
  BY DEF Input!AllTold, Input!device, Input!life
<1>2. InputTellings' = InputTellings /\ <<>> \in Seq(InputTellings)
  BY <1>1, SameKind, EmptySeq
<1>3. InputEnding' /\ NoThreadYet'
  BY <1>1, <1>2 DEF InputEnding, InputInv, NoThreadYet
<1> QED BY <1>1, <1>3, InputTypes, InputGoes

-----------------------------------------------------------------------------
\* The program's calls, on any thread.
LEMMA SetCursorKeeps ==
  ASSUME InputInv, NEW st \in InputStates, Input!SetCursor(st)
  PROVE  InputInv'
<1>1. /\ s' = st /\ told' = [told EXCEPT !.x = st.x] /\ overtaken' \in BOOLEAN
      /\ UNCHANGED <<kind, held, place, alive, queue, batch, opened, closer, stop, reader, out,
                     connected>>
  BY InputTypes DEF Input!SetCursor, Input!life
<1>2. told \in InputHeard /\ st.x \in Int
  BY InputTypes DEF InputStates
<1>3. told' \in InputHeard /\ told'.gone = told.gone
  BY <1>1, <1>2 DEF InputHeard
<1>4. InputTellings' = InputTellings
  BY <1>1, SameKind
<1>5. InputEnding' /\ NoThreadYet'
  BY <1>1, <1>3, <1>4 DEF InputEnding, InputInv, NoThreadYet
<1> QED BY <1>1, <1>3, <1>5, InputTypes, InputGoes

LEMMA CallsKeep ==
  ASSUME InputInv,
         \/ \E b \in Bounds : Input!SetCursorBounds(b)
         \/ Input!SetCursorPosition(1)
         \/ \E halves \in {1, 2} : Input!SetScale(halves)
  PROVE  InputInv'
<1>0. s \in InputStates /\ s.x \in Int /\ s.axis \in Int /\ s.bounds \in Int \X Int
  BY InputTypes DEF InputStates
<1>1. ASSUME NEW b \in Bounds, Input!SetCursorBounds(b) PROVE InputInv'
  <2> DEFINE x == IF kind = "mouse" THEN Input!Clamp(s.x, b) ELSE Input!Scale(s.axis, b)
  <2>1. b \in Int \X Int
    BY InputAssumption
  <2>2. x \in Int
    BY <1>0, <2>1, ArithmeticTypes
  <2>3. Input!SetCursor([s EXCEPT !.bounds = b, !.x = x])
    BY <1>1 DEF Input!SetCursorBounds
  <2> HIDE DEF x
  <2>4. [s EXCEPT !.bounds = b, !.x = x] \in InputStates
    BY <1>0, <2>1, <2>2 DEF InputStates
  <2> QED BY <2>3, <2>4, SetCursorKeeps
<1>2. ASSUME Input!SetCursorPosition(1) PROVE InputInv'
  <2>1. PICK x \in Int : x = Input!Clamp(1, s.bounds)
    BY <1>0, ArithmeticTypes
  <2>2. Input!SetCursor([s EXCEPT !.x = x])
    BY <1>2, <2>1 DEF Input!SetCursorPosition
  <2>3. [s EXCEPT !.x = x] \in InputStates
    BY <1>0 DEF InputStates
  <2> QED BY <2>2, <2>3, SetCursorKeeps
<1>3. ASSUME NEW halves \in {1, 2}, Input!SetScale(halves) PROVE InputInv'
  <2>1. /\ s' = [s EXCEPT !.scale = halves]
        /\ UNCHANGED <<kind, held, place, alive, queue, batch, opened, closer, stop, reader, out,
                       connected, told, overtaken>>
    BY <1>3 DEF Input!SetScale, Input!life
  <2>2. s' \in InputStates
    <3>1. PICK n \in Int : n = halves
      OBVIOUS
    <3>2. s' = [s EXCEPT !.scale = n]
      BY <2>1, <3>1
    <3> QED BY <1>0, <3>2 DEF InputStates
  <2>3. InputTellings' = InputTellings
    BY <2>1, SameKind
  <2>4. InputEnding' /\ NoThreadYet'
    BY <2>1, <2>3 DEF InputEnding, InputInv, NoThreadYet
  <2> QED BY <2>1, <2>2, <2>4, InputTypes, InputGoes
<1> QED BY <1>1, <1>2, <1>3

LEMMA CloseKeeps ==
  ASSUME InputInv, (\E c \in Readers \cup {"reader"} : Input!Close(c)) \/ Input!Closed
  PROVE  InputInv'
<1>1. CASE \E c \in Readers \cup {"reader"} : Input!Close(c)
  <2>1. /\ opened' = "closing" /\ closer' \in Readers \cup {"reader", None} /\ stop' = TRUE
        /\ UNCHANGED <<kind, held, place, alive, queue, batch, s, reader, out, connected, told,
                       overtaken>>
    BY <1>1 DEF Input!Close, Input!device
  <2>2. InputTellings' = InputTellings
    BY <2>1, SameKind
  <2>3. InputEnding' /\ NoThreadYet'
    BY <2>1, <2>2 DEF InputEnding, InputInv, NoThreadYet
  <2> QED BY <2>1, <2>3, InputTypes, InputGoes
<1>2. CASE Input!Closed
  <2>1. /\ opened' = "closed" /\ (closer # "reader" => reader = "ended")
        /\ UNCHANGED <<kind, held, place, alive, queue, batch, closer, stop, s, reader, out,
                       connected, told, overtaken>>
    BY <1>2 DEF Input!Closed, Input!device
  <2>2. InputTellings' = InputTellings
    BY <2>1, SameKind
  <2>3. InputEnding' /\ NoThreadYet'
    BY <2>1, <2>2 DEF InputEnding, InputInv, NoThreadYet
  <2> QED BY <2>1, <2>3, InputTypes, InputGoes
<1> QED BY <1>1, <1>2

LEMMA InputKeeps == InputInv /\ [Input!Next]_inputVars => InputInv'
<1> SUFFICES ASSUME InputInv, [Input!Next]_inputVars PROVE InputInv'
  OBVIOUS
<1>1. CASE Input!Next
  BY <1>1, DeviceKeeps, UnplugKeeps, OpenKeeps, PolledKeeps, ReadKeeps, ReadGoneKeeps,
     HandleNextKeeps, HandledKeeps, TellsKeeps, CallbackReturnsKeeps, AllToldKeeps, CallsKeep,
     CloseKeeps DEF Input!Next, Input!ReaderStep
<1>2. CASE UNCHANGED inputVars
  <2>1. UNCHANGED <<kind, held, place, alive, queue, batch, opened, closer, stop, s, reader, out,
                    connected, told, overtaken>>
    BY <1>2 DEF inputVars
  <2> QED BY <2>1, InputTypes, DeviceGoes
<1> QED BY <1>1, <1>2

LEMMA InputHolds == InputInv => Input!TypeOK /\ Input!LastCall
BY DEF InputInv

-----------------------------------------------------------------------------
(* Touch: what is queued and handled, and the last call.                   *)


TouchEvents == [code : {"SLOT", "ID", "TOUCH", "X", "SINGLE_X", "SYN"}, value : Nat]
TouchPoints == [down : BOOLEAN, x : Nat]

TouchInv ==
  /\ Touch!TypeOK /\ Touch!NoCallAfterClose
  /\ DOMAIN fingers \subseteq Nat /\ fingers \in [DOMAIN fingers -> TouchPoints] /\ kernelSlot \in Nat
  /\ DOMAIN touchSlots = 0..MaxPoints - 1
  /\ touchQueue \in Seq(TouchEvents) /\ touchBatch \in Seq(TouchEvents)

-----------------------------------------------------------------------------
\* No more fingers are told than there are slots.
LEMMA FewPoints ==
  ASSUME DOMAIN touchSlots = 0..MaxPoints - 1
  PROVE  Cardinality(Touch!Points) \in 0..MaxPoints
<1>1. MaxPoints \in Nat \ {0} /\ 0 \in Int /\ MaxPoints - 1 \in Int
  BY TouchAssumption
<1>2. CASE screen = "slots"
  <2> DEFINE f == [touching \in Touch!Down(touchSlots) |-> <<touching, touchSlots[touching].x>>]
  <2>1. IsFiniteSet(0..MaxPoints - 1) /\ Cardinality(0..MaxPoints - 1) = MaxPoints
    <3>1. IsFiniteSet(0..MaxPoints - 1)
      BY <1>1, FS_Interval
    <3>2. Cardinality(0..MaxPoints - 1) = (IF 0 > MaxPoints - 1 THEN 0 ELSE (MaxPoints - 1) - 0 + 1)
      BY <1>1, FS_Interval
    <3> QED BY <1>1, <3>1, <3>2
  <2>2. Touch!Down(touchSlots) \subseteq 0..MaxPoints - 1
    BY DEF Touch!Down
  <2>3. IsFiniteSet(Touch!Down(touchSlots)) /\ Cardinality(Touch!Down(touchSlots)) <= MaxPoints
    <3>1. PICK S : S = 0..MaxPoints - 1
      OBVIOUS
    <3>2. IsFiniteSet(S) /\ Cardinality(S) = MaxPoints /\ Touch!Down(touchSlots) \in SUBSET S
      BY <2>1, <2>2, <3>1
    <3>3. IsFiniteSet(Touch!Down(touchSlots)) /\ Cardinality(Touch!Down(touchSlots)) <= Cardinality(S)
      BY <3>2, FS_Subset
    <3> QED BY <3>2, <3>3
  <2>4. Touch!Points = {f[touching] : touching \in Touch!Down(touchSlots)}
    BY <1>2 DEF Touch!Points
  <2>5. f \in Surjection(Touch!Down(touchSlots), Touch!Points)
    BY <2>4 DEF Surjection
  <2> HIDE DEF f
  <2>6. IsFiniteSet(Touch!Points) /\ Cardinality(Touch!Points) <= Cardinality(Touch!Down(touchSlots))
    BY <2>3, <2>5, FS_Surjection
  <2>7. Cardinality(Touch!Points) \in Nat /\ Cardinality(Touch!Down(touchSlots)) \in Nat
    BY <2>3, <2>6, FS_CardinalityType
  <2> QED BY <1>1, <2>3, <2>6, <2>7
<1>3. CASE screen # "slots"
  <2>1. \E x : Touch!Points = {} \/ Touch!Points = {x}
    BY <1>3 DEF Touch!Points
  <2>2. Cardinality(Touch!Points) = 0 \/ Cardinality(Touch!Points) = 1
    <3>1. PICK x : Touch!Points = {} \/ Touch!Points = {x}
      BY <2>1
    <3>2. Cardinality({}) = 0
      BY FS_EmptySet
    <3>3. Cardinality({x}) = 1
      BY FS_Singleton
    <3> QED BY <3>1, <3>2, <3>3
  <2> QED BY <1>1, <2>2
<1> QED BY <1>2, <1>3

LEMMA TouchBegins == Touch!Init => TouchInv
<1> SUFFICES ASSUME Touch!Init PROVE TouchInv
  OBVIOUS
<1>1. DOMAIN fingers \subseteq Nat /\ fingers \in [DOMAIN fingers -> TouchPoints] /\ kernelSlot \in Nat
  BY TouchAssumption DEF Touch!Init, TouchPoints, Touch!NoFinger
<1>2. slot \in 0..MaxPoints - 1 /\ previous \in 0..MaxPoints /\ DOMAIN touchSlots = 0..MaxPoints - 1
  BY TouchAssumption DEF Touch!Init
<1>3. Touch!TypeOK /\ Touch!NoCallAfterClose
  BY <1>2 DEF Touch!Init, Touch!TypeOK, Touch!NoCallAfterClose
<1> QED BY <1>1, <1>2, <1>3 DEF Touch!Init, TouchInv

\* What the fingers do
LEMMA FingerKeeps ==
  ASSUME TouchInv, NEW touching \in DOMAIN fingers, NEW f \in TouchPoints, Touch!Finger(touching, f)
  PROVE  TouchInv'
<1>0. touching \in Nat /\ fingers[touching] \in TouchPoints
  BY DEF TouchInv
<1>1. UNCHANGED <<screen, fresh, touchAlive, touchOpened, touchSlots, slot, single, changed, previous, cut, touchTold, touchConnected, touchReader, touchBatch>>
  BY DEF Touch!Finger, Touch!library
<1>2. /\ fingers' \in [DOMAIN fingers -> TouchPoints] /\ DOMAIN fingers' = DOMAIN fingers
      /\ kernelSlot' \in Nat
  BY <1>0 DEF Touch!Finger, TouchInv
<1>3. touchQueue' \in Seq(TouchEvents)
  <2> DEFINE a == Touch!Said(kernelSlot, touching, Touch!Event("SLOT", touching))
             b == Touch!Said(fingers[touching].down, f.down,
                       Touch!Event(IF screen = "slots" THEN "ID" ELSE "TOUCH", IF f.down THEN 1 ELSE 0))
             c == Touch!Said(fingers[touching].x, f.x, Touch!Event(IF screen = "slots" THEN "X" ELSE "SINGLE_X", f.x))
  <2>0. ASSUME NEW old, NEW new, NEW e \in TouchEvents PROVE Touch!Said(old, new, e) \in Seq(TouchEvents)
    BY DEF Touch!Said
  <2>1. a \in Seq(TouchEvents)
    <3>1. Touch!Event("SLOT", touching) \in TouchEvents
      BY <1>0 DEF Touch!Event, TouchEvents
    <3> QED BY <2>0, <3>1
  <2>2. b \in Seq(TouchEvents)
    <3>1. Touch!Event(IF screen = "slots" THEN "ID" ELSE "TOUCH", IF f.down THEN 1 ELSE 0) \in TouchEvents
      BY DEF Touch!Event, TouchEvents
    <3> QED BY <2>0, <3>1
  <2>3. c \in Seq(TouchEvents)
    <3>1. f.x \in Nat
      BY DEF TouchPoints
    <3>2. Touch!Event(IF screen = "slots" THEN "X" ELSE "SINGLE_X", f.x) \in TouchEvents
      BY <3>1 DEF Touch!Event, TouchEvents
    <3> QED BY <2>0, <3>2
  <2>4. <<Touch!Event("SYN", 0)>> \in Seq(TouchEvents)
    BY DEF Touch!Event, TouchEvents
  <2>5. touchQueue' = touchQueue \/ touchQueue' = touchQueue \o a \o b \o c \o <<Touch!Event("SYN", 0)>>
    BY DEF Touch!Finger
  <2> HIDE DEF a, b, c
  <2>6. ASSUME NEW p \in Seq(TouchEvents), NEW q \in Seq(TouchEvents) PROVE p \o q \in Seq(TouchEvents)
    OBVIOUS
  <2>7. touchQueue \o a \in Seq(TouchEvents)
    BY <2>1, <2>6 DEF TouchInv
  <2>8. touchQueue \o a \o b \in Seq(TouchEvents)
    BY <2>2, <2>6, <2>7
  <2>9. touchQueue \o a \o b \o c \in Seq(TouchEvents)
    BY <2>3, <2>6, <2>8
  <2>10. touchQueue \o a \o b \o c \o <<Touch!Event("SYN", 0)>> \in Seq(TouchEvents)
    BY <2>4, <2>6, <2>9
  <2> QED BY <2>5, <2>10 DEF TouchInv
<1> QED BY <1>1, <1>2, <1>3 DEF TouchInv, Touch!TypeOK, Touch!NoCallAfterClose

LEMMA TouchScreenKeeps ==
  ASSUME TouchInv,
         \/ \E touching \in DOMAIN fingers :
              \/ \E x \in 0..1 : Touch!Lands(touching, x) \/ Touch!Moves(touching, x)
              \/ Touch!Lifts(touching)
         \/ Touch!Unplug \/ Touch!Open \/ Touch!Close \/ Touch!Closed
  PROVE  TouchInv'
<1>1. ASSUME NEW touching \in DOMAIN fingers, NEW x \in 0..1, Touch!Lands(touching, x) \/ Touch!Moves(touching, x)
      PROVE  TouchInv'
  <2>1. [down |-> TRUE, x |-> x] \in TouchPoints
    BY DEF TouchPoints
  <2> QED BY <1>1, <2>1, FingerKeeps DEF Touch!Lands, Touch!Moves
<1>2. ASSUME NEW touching \in DOMAIN fingers, Touch!Lifts(touching)
      PROVE  TouchInv'
  <2>1. [fingers[touching] EXCEPT !.down = FALSE] \in TouchPoints
    BY DEF TouchInv, TouchPoints
  <2> QED BY <1>2, <2>1, FingerKeeps DEF Touch!Lifts
<1>3. CASE Touch!Unplug \/ Touch!Open \/ Touch!Close \/ Touch!Closed
  <2>1. UNCHANGED <<screen, fingers, kernelSlot, touchSlots, slot, single, changed, previous, cut, touchTold, touchConnected, touchQueue, touchBatch>>
    BY <1>3 DEF Touch!Unplug, Touch!Open, Touch!Close, Touch!Closed, Touch!library, Touch!screen
  <2>2. /\ touchAlive' \in BOOLEAN /\ touchOpened' \in {"new", "open", "closing", "closed"}
        /\ touchReader' \in {"none", "poll", "handle", "call", "gone", "ended"}
        /\ touchOpened' = "closed" => touchReader' = "ended"
    BY <1>3 DEF Touch!Unplug, Touch!Open, Touch!Close, Touch!Closed, Touch!library, Touch!screen, TouchInv, Touch!TypeOK, Touch!NoCallAfterClose
  <2> QED BY <2>1, <2>2 DEF TouchInv, Touch!TypeOK, Touch!NoCallAfterClose
<1> QED BY <1>1, <1>2, <1>3

LEMMA TouchReaderKeeps ==
  ASSUME TouchInv, Touch!ReaderStep
  PROVE  TouchInv'
<1>1. UNCHANGED <<screen, fingers, kernelSlot, touches, fresh, touchAlive, touchOpened>>
  BY DEF Touch!ReaderStep, Touch!Read, Touch!ReadGone, Touch!HandleNext, Touch!SynReport, Touch!CallbackReturns, Touch!Handled, Touch!Woken, Touch!screen
<1>2. touchOpened # "closed" /\ touchReader' \in {"none", "poll", "handle", "call", "gone", "ended"}
  BY DEF Touch!ReaderStep, Touch!Read, Touch!ReadGone, Touch!HandleNext, Touch!SynReport, Touch!CallbackReturns, Touch!Handled, Touch!Woken, TouchInv, Touch!NoCallAfterClose, Touch!TypeOK
<1>3. ASSUME changed' \in BOOLEAN, cut' \in BOOLEAN, touchConnected' \in BOOLEAN, slot' \in 0..MaxPoints - 1, previous' \in 0..MaxPoints,
             DOMAIN touchSlots' = DOMAIN touchSlots, touchQueue' \in Seq(TouchEvents), touchBatch' \in Seq(TouchEvents)
      PROVE  TouchInv'
  BY <1>1, <1>2, <1>3 DEF TouchInv, Touch!TypeOK, Touch!NoCallAfterClose
<1>4. CASE Touch!Read
  <2> DEFINE n == IF Len(touchQueue) < Batch THEN Len(touchQueue) ELSE Batch
  <2>1. n \in 0..Len(touchQueue) /\ Len(touchQueue) \in Nat
    BY TouchAssumption DEF TouchInv
  <2>2. touchBatch' = SubSeq(touchQueue, 1, n) /\ touchQueue' = SubSeq(touchQueue, n + 1, Len(touchQueue)) /\ changed' = FALSE
        /\ UNCHANGED <<touchSlots, slot, previous, cut, touchConnected>>
    BY <1>4 DEF Touch!Read
  <2> HIDE DEF n
  <2>3. touchBatch' \in Seq(TouchEvents) /\ touchQueue' \in Seq(TouchEvents)
    BY <2>1, <2>2 DEF TouchInv
  <2> QED BY <1>3, <2>2, <2>3 DEF TouchInv, Touch!TypeOK
<1>5. CASE Touch!ReadGone
  BY <1>3, <1>5 DEF Touch!ReadGone, TouchInv, Touch!TypeOK
<1>6. CASE Touch!HandleNext
  <2>1. Head(touchBatch) \in TouchEvents /\ touchBatch' \in Seq(TouchEvents) /\ Touch!Takes(Head(touchBatch))
        /\ UNCHANGED <<touchQueue, previous, cut, touchConnected>>
    BY <1>6 DEF Touch!HandleNext, TouchInv
  <2>2. Head(touchBatch).value \in Nat
    BY <2>1 DEF TouchEvents
  <2>3. slot' \in 0..MaxPoints - 1
    BY <2>1, <2>2, TouchAssumption DEF Touch!Takes, TouchInv, Touch!TypeOK
  <2>4. DOMAIN touchSlots' = DOMAIN touchSlots
    BY <2>1 DEF Touch!Takes
  <2>5. changed' \in BOOLEAN
    BY <2>1 DEF Touch!Takes, TouchInv, Touch!TypeOK
  <2> QED BY <1>3, <2>1, <2>3, <2>4, <2>5 DEF TouchInv, Touch!TypeOK
<1>7. CASE Touch!SynReport
  <2>1. touchBatch' \in Seq(TouchEvents) /\ changed' = FALSE /\ UNCHANGED <<touchQueue, touchSlots, slot, touchConnected>>
        /\ previous' \in {previous, Touch!Cardinality(Touch!Points)}
    BY <1>7 DEF Touch!SynReport, TouchInv
  <2>3. cut' \in BOOLEAN
    <3>1. CASE changed
      BY <1>7, <3>1, Zenon DEF Touch!SynReport
    <3>2. CASE ~changed
      BY <1>7, <3>2, Zenon DEF Touch!SynReport, TouchInv, Touch!TypeOK
    <3> QED BY <3>1, <3>2
  <2>2. Touch!Cardinality(Touch!Points) \in 0..MaxPoints
    BY FewPoints DEF TouchInv, Touch!Cardinality, Cardinality
  <2> QED BY <1>3, <2>1, <2>2, <2>3 DEF TouchInv, Touch!TypeOK
<1>8. CASE Touch!CallbackReturns \/ Touch!Handled \/ Touch!Woken
  <2>1. cut' \in {cut, cut \/ changed}
    BY <1>8 DEF Touch!CallbackReturns, Touch!Handled, Touch!Woken, Touch!library
  <2>2. cut' \in BOOLEAN
    BY <2>1, Zenon DEF TouchInv, Touch!TypeOK
  <2> QED BY <1>3, <1>8, <2>2 DEF Touch!CallbackReturns, Touch!Handled, Touch!Woken, Touch!library, TouchInv, Touch!TypeOK
<1> QED BY <1>4, <1>5, <1>6, <1>7, <1>8 DEF Touch!ReaderStep

LEMMA TouchKeeps == TouchInv /\ [Touch!Next]_touchVars => TouchInv'
<1> SUFFICES ASSUME TouchInv, [Touch!Next]_touchVars PROVE TouchInv'
  OBVIOUS
<1>1. CASE UNCHANGED touchVars
  BY <1>1 DEF touchVars, TouchInv, Touch!TypeOK, Touch!NoCallAfterClose
<1>2. CASE Touch!Next
  BY <1>2, TouchScreenKeeps, TouchReaderKeeps DEF Touch!Next
<1> QED BY <1>1, <1>2

LEMMA TouchHolds == TouchInv => Touch!TypeOK /\ Touch!NoCallAfterClose
BY DEF TouchInv

-----------------------------------------------------------------------------
(* Sound: every frame is played once, and recorded whole.                  *)


SoundTypes ==
  /\ Sound!TypeOK
  /\ source \in Nat /\ left \in Nat /\ length \in Nat /\ bytes \in Nat
  /\ output \in [open : BOOLEAN, says : Nat, holds : Nat]

\* What the file had is played, in a buffer or still to be read.
AllThere == played * FrameSize + toWrite * FrameSize + soundPending + Sound!Min(left, source) = length
AllPlayed == played = length \div FrameSize

PlaysOn ==
  /\ call \in {"play", "write"} => AllThere
  /\ call = "play" => toWrite = 0
  /\ call \notin {"play", "write"} => AllPlayed

\* Who has which device, who has the file, and when there is a recorder
Held ==
  /\ "play" \in pcms <=> call \in {"play", "write"}
  /\ "record" \in pcms <=> call = "record"
  /\ "recorder" \in pcms <=> recorder = "reads"
  /\ output.open <=> (call = "record" \/ recorder = "reads")
  /\ call = "record" => recorder = "none" /\ ~recording
  /\ recording => recorder # "none"
  /\ ~recording /\ recorder # "none" => call \in {"stop", "dispose"}
  /\ call \in {"stop", "dispose", "disposed"} => ~recording

\* What the recording says, or is going to say
SaysWhatItHolds ==
  /\ call = "record" => output.says = output.holds + toWrite * FrameSize /\ output.says <= MaxData
  /\ recorder = "reads" => bytes = output.holds
  /\ ~output.open => output.says = Sound!Min(output.holds, MaxData)

SoundInv == SoundTypes /\ PlaysOn /\ Held /\ SaysWhatItHolds

-----------------------------------------------------------------------------
\* Frames and their bytes
LEMMA Frames ==
  ASSUME NEW m \in Int, NEW n \in Int
  PROVE  (m + n) * FrameSize = m * FrameSize + n * FrameSize /\ (m - n) * FrameSize = m * FrameSize - n * FrameSize
BY SoundAssumption

LEMMA WholeFrames ==
  ASSUME NEW n \in Nat
  PROVE  \E q \in Nat, over \in 0..FrameSize - 1 :
           q = n \div FrameSize /\ over = n % FrameSize /\ n = q * FrameSize + over
<1>0. PICK q, over : q = n \div FrameSize /\ over = n % FrameSize
  OBVIOUS
<1>1. FrameSize \in Nat /\ FrameSize > 0
  BY SoundAssumption
<1>2. q \in Int /\ over \in 0..FrameSize - 1 /\ n = FrameSize * q + over
  BY <1>0, <1>1
<1>3. q >= 0
  <2>1. CASE q <= -1
    <3>1. FrameSize * q <= -FrameSize
      BY <1>1, <1>2, <2>1
    <3>2. FrameSize * q \in Int /\ over \in Nat /\ over < FrameSize
      BY <1>1, <1>2
    <3> QED BY <1>1, <1>2, <3>1, <3>2
  <2> QED BY <1>2, <2>1
<1>4. FrameSize * q = q * FrameSize
  BY <1>1, <1>2
<1>5. q \in Nat /\ over \in 0..FrameSize - 1 /\ n = q * FrameSize + over
  BY <1>2, <1>3, <1>4
<1> QED BY <1>0, <1>5

LEMMA FramesOf ==
  ASSUME NEW m \in Nat, NEW r \in 0..FrameSize - 1
  PROVE  (m * FrameSize + r) \div FrameSize = m
<1> DEFINE n == m * FrameSize + r
           q == n \div FrameSize
<1>1. n \in Nat
  BY SoundAssumption
<1>2. PICK more \in 0..FrameSize - 1 : q \in Nat /\ n = q * FrameSize + more
  <2>1. PICK k \in Nat : k = n
    BY <1>1
  <2>2. PICK k2 \in Nat, more \in 0..FrameSize - 1 : k2 = k \div FrameSize /\ k = k2 * FrameSize + more
    BY WholeFrames
  <2> HIDE DEF n
  <2> QED BY <2>1, <2>2
<1> HIDE DEF q
<1>3. CASE m > q
  <2>1. (m - q) * FrameSize = m * FrameSize - q * FrameSize
    BY <1>2, Frames
  <2>2. (m - q) * FrameSize >= FrameSize
    BY <1>2, <1>3, SoundAssumption
  <2> QED BY <1>2, <2>1, <2>2, SoundAssumption
<1>4. CASE m < q
  <2>1. (q - m) * FrameSize = q * FrameSize - m * FrameSize
    BY <1>2, Frames
  <2>2. (q - m) * FrameSize >= FrameSize
    BY <1>2, <1>4, SoundAssumption
  <2> QED BY <1>2, <2>1, <2>2, SoundAssumption
<1>5. CASE m = q
  BY <1>5 DEF q
<1> QED BY <1>2, <1>3, <1>4, <1>5

LEMMA NoFrames == 0 \div FrameSize = 0 /\ 0 * FrameSize = 0 /\ \A n \in Nat : n * FrameSize \in Nat
<1>1. 0 * FrameSize = 0 /\ \A n \in Nat : n * FrameSize \in Nat
  BY SoundAssumption
<1>2. (0 * FrameSize + 0) \div FrameSize = 0
  BY SoundAssumption, FramesOf
<1> QED BY <1>1, <1>2

-----------------------------------------------------------------------------
LEMMA SoundBegins == Sound!Init => SoundInv
<1> SUFFICES ASSUME Sound!Init PROVE SoundInv
  OBVIOUS
<1>1. 0 \in 0..FrameSize - 1
  BY SoundAssumption
<1>2. SoundTypes
  BY <1>1 DEF Sound!Init, SoundTypes, Sound!TypeOK, Sound!NoFile
<1>3. PlaysOn
  BY NoFrames DEF Sound!Init, PlaysOn, AllPlayed
<1>4. Held
  BY DEF Sound!Init, Held, Sound!NoFile
<1>5. SaysWhatItHolds
  BY SoundAssumption DEF Sound!Init, SaysWhatItHolds, Sound!NoFile, Sound!Min
<1> QED BY <1>2, <1>3, <1>4, <1>5 DEF SoundInv

\* A step that leaves the file that is played, or the recordings, alone
LEMMA PlayingAlone ==
  ASSUME SoundInv, UNCHANGED Sound!playing, call' = call \/ {call, call'} \cap {"play", "write"} = {}
  PROVE  PlaysOn'
BY DEF SoundInv, PlaysOn, AllThere, AllPlayed, Sound!playing

LEMMA TapingAlone ==
  ASSUME SoundInv, UNCHANGED Sound!taping,
         \/ call' = call /\ toWrite' = toWrite /\ pcms' = pcms
         \/ /\ {call, call'} \subseteq {"none", "play", "write"}
            /\ pcms' = {p \in pcms : p # "play"} \cup (IF call' \in {"play", "write"} THEN {"play"} ELSE {})
  PROVE  Held' /\ SaysWhatItHolds'
BY DEF SoundInv, Held, SaysWhatItHolds, Sound!taping

LEMMA PlayKeeps ==
  ASSUME SoundInv,
         \/ \E n, says \in Lengths : Sound!PlayWav(n, says)
         \/ Sound!ReadBuffer \/ (\E n \in 0..Buffer : Sound!WritePcm(n)) \/ Sound!WriteFails \/ Sound!PlayEnds
  PROVE  SoundInv'
<1>0. SoundTypes /\ Sound!TypeOK /\ PlaysOn /\ Held /\ UNCHANGED Sound!taping
  BY DEF SoundInv, SoundTypes, Sound!PlayWav, Sound!ReadBuffer, Sound!WritePcm, Sound!WriteFails, Sound!PlayEnds
<1>1. Held' /\ SaysWhatItHolds'
  <2>1. /\ {call, call'} \subseteq {"none", "play", "write"}
        /\ pcms' = {p \in pcms : p # "play"} \cup (IF call' \in {"play", "write"} THEN {"play"} ELSE {})
    BY <1>0 DEF Sound!PlayWav, Sound!ReadBuffer, Sound!WritePcm, Sound!WriteFails, Sound!PlayEnds, Held
  <2> QED BY <1>0, <2>1, TapingAlone
<1>2. card' = card /\ pcms' \subseteq {"play", "record", "recorder"} /\ call' \in {"none", "play", "write"}
  BY <1>0 DEF Sound!PlayWav, Sound!ReadBuffer, Sound!WritePcm, Sound!WriteFails, Sound!PlayEnds, Sound!TypeOK
<1>3. ASSUME /\ source' \in Nat /\ left' \in Nat /\ length' \in Nat
             /\ soundPending' \in 0..FrameSize - 1 /\ toWrite' \in Nat /\ played' \in Nat
      PROVE SoundTypes'
  BY <1>0, <1>2, <1>3 DEF SoundTypes, Sound!TypeOK, Sound!taping
<1>4. ASSUME NEW n \in Lengths, NEW says \in Lengths, Sound!PlayWav(n, says) PROVE SoundTypes' /\ PlaysOn'
  <2>1. n \in Nat /\ left' \in Nat /\ length' \in Nat /\ 0 \in 0..FrameSize - 1
    BY <1>4, SoundAssumption DEF Sound!PlayWav, Sound!Min
  <2>2. /\ source' = n /\ length' = Sound!Min(left', source') /\ call' = "play"
        /\ soundPending' = 0 /\ toWrite' = 0 /\ played' = 0
    BY <1>4, <2>1 DEF Sound!PlayWav, Sound!Min
  <2>3. Sound!Min(left', source') \in Nat
    BY <2>1, <2>2
  <2>4. SoundTypes'
    BY <1>3, <2>1, <2>2
  <2>5. AllThere'
    BY <2>2, <2>3, NoFrames DEF AllThere
  <2> QED BY <2>2, <2>4, <2>5 DEF PlaysOn
<1>5. CASE Sound!ReadBuffer
  <2> DEFINE got == Sound!Min(Sound!Min(Buffer * FrameSize - soundPending, left), source)
  <2>1. /\ got \in Nat /\ got <= left /\ got <= source /\ Sound!Min(left - got, source - got) = Sound!Min(left, source) - got
        /\ Sound!Min(left, source) \in Nat
    <3>1. Buffer * FrameSize \in Nat
      BY NoFrames, SoundAssumption
    <3>2. Buffer * FrameSize - soundPending \in Int
      BY <1>0, <3>1, SoundAssumption DEF Sound!TypeOK
    <3>3. \A m \in Int, n, k \in Nat : Sound!Min(Sound!Min(m, n), k) > 0 =>
            LET g == Sound!Min(Sound!Min(m, n), k) IN
            g \in Nat /\ g <= n /\ g <= k /\ Sound!Min(n - g, k - g) = Sound!Min(n, k) - g
      BY DEF Sound!Min
    <3> QED BY <1>0, <1>5, <3>2, <3>3 DEF Sound!ReadBuffer, SoundTypes, Sound!Min
  <2>2. /\ source' = source - got /\ left' = left - got /\ call = "play" /\ call' = "write"
        /\ toWrite' = (soundPending + got) \div FrameSize /\ soundPending' = (soundPending + got) % FrameSize
        /\ UNCHANGED <<played, length>>
    BY <1>5 DEF Sound!ReadBuffer
  <2> HIDE DEF got
  <2>3. /\ soundPending \in Nat /\ soundPending + got \in Nat /\ toWrite' \in Nat /\ soundPending' \in 0..FrameSize - 1
        /\ soundPending + got = toWrite' * FrameSize + soundPending'
    <3>1. soundPending \in Nat /\ soundPending + got \in Nat
      BY <1>0, <2>1, SoundAssumption DEF Sound!TypeOK
    <3>2. PICK all \in Nat : all = soundPending + got
      BY <3>1
    <3>3. PICK q \in Nat, more \in 0..FrameSize - 1 :
            q = all \div FrameSize /\ more = all % FrameSize /\ all = q * FrameSize + more
      BY WholeFrames
    <3>4. toWrite' = q /\ soundPending' = more
      BY <2>2, <3>2, <3>3
    <3> QED BY <3>1, <3>2, <3>3, <3>4
  <2>4. source' \in Nat /\ left' \in Nat
    BY <1>0, <2>1, <2>2 DEF SoundTypes
  <2>5. played * FrameSize + 0 + soundPending + Sound!Min(left, source) = length
    BY <1>0, <2>2, NoFrames DEF PlaysOn, AllThere
  <2>6. played * FrameSize \in Nat /\ toWrite' * FrameSize \in Nat /\ length \in Nat
    BY <1>0, <2>3, NoFrames DEF Sound!TypeOK, SoundTypes
  <2>7. played * FrameSize + toWrite' * FrameSize + soundPending' + Sound!Min(left', source') = length
    <3>1. Sound!Min(left', source') = Sound!Min(left, source) - got
      BY <2>1, <2>2
    <3>2. soundPending' \in Int
      BY <2>3, SoundAssumption
    <3> QED BY <2>1, <2>3, <2>5, <2>6, <3>1, <3>2
  <2>8. SoundTypes'
    BY <1>0, <1>3, <2>2, <2>3, <2>4 DEF Sound!TypeOK, SoundTypes
  <2>9. AllThere'
    BY <2>2, <2>7 DEF AllThere
  <2> QED BY <1>1, <2>2, <2>8, <2>9 DEF PlaysOn, SoundInv
<1>6. ASSUME NEW n \in 0..Buffer, Sound!WritePcm(n) PROVE SoundTypes' /\ PlaysOn'
  <2>1. /\ n \in Nat /\ n <= toWrite /\ toWrite' = toWrite - n /\ played' = played + n
        /\ call = "write" /\ call' = (IF toWrite' = 0 THEN "play" ELSE "write")
        /\ UNCHANGED <<source, left, soundPending, length>>
    BY <1>6, SoundAssumption DEF Sound!WritePcm
  <2>2. toWrite' \in Nat /\ played' \in Nat
    BY <1>0, <2>1 DEF Sound!TypeOK
  <2>3. toWrite' * FrameSize = toWrite * FrameSize - n * FrameSize /\ played' * FrameSize = played * FrameSize + n * FrameSize
    <3>1. toWrite \in Int /\ played \in Int /\ n \in Int
      BY <1>0, <2>1 DEF Sound!TypeOK
    <3> QED BY <2>1, <3>1, Frames
  <2>4. toWrite * FrameSize \in Nat /\ played * FrameSize \in Nat /\ n * FrameSize \in Nat
    BY <1>0, <2>1, NoFrames DEF Sound!TypeOK
  <2>5. played' * FrameSize + toWrite' * FrameSize = played * FrameSize + toWrite * FrameSize
    BY <2>3, <2>4
  <2>6. SoundTypes'
    BY <1>0, <1>3, <2>1, <2>2 DEF Sound!TypeOK, SoundTypes
  <2>7. AllThere'
    BY <1>0, <2>1, <2>5 DEF PlaysOn, AllThere
  <2> QED BY <2>1, <2>6, <2>7 DEF PlaysOn
<1>7. CASE Sound!WriteFails
  <2>1. 0 \in 0..FrameSize - 1
    BY SoundAssumption
  <2>2. /\ source' = 0 /\ left' = 0 /\ soundPending' = 0 /\ toWrite' = 0 /\ played' = 0 /\ length' = 0
        /\ call' = "none"
    BY <1>7 DEF Sound!WriteFails
  <2>3. SoundTypes'
    BY <1>3, <2>1, <2>2
  <2>4. AllPlayed'
    BY <2>2, NoFrames DEF AllPlayed
  <2> QED BY <1>1, <2>2, <2>3, <2>4 DEF PlaysOn, SoundInv
<1>8. CASE Sound!PlayEnds
  <2>1. UNCHANGED Sound!playing /\ call = "play" /\ call' = "none" /\ (left = 0 \/ source = 0)
    BY <1>8 DEF Sound!PlayEnds
  <2>2. SoundTypes'
    BY <1>0, <1>3, <2>1 DEF Sound!playing, SoundTypes, Sound!TypeOK
  <2>3. Sound!Min(left, source) = 0 /\ soundPending \in Nat /\ played * FrameSize \in Nat
    BY <1>0, <2>1, NoFrames, SoundAssumption DEF SoundTypes, Sound!TypeOK, Sound!Min
  <2>4. length = played * FrameSize + soundPending
    BY <1>0, <2>1, <2>3, NoFrames DEF PlaysOn, AllThere
  <2>5. played = length \div FrameSize
    <3>1. played \in Nat /\ soundPending \in 0..FrameSize - 1
      BY <1>0 DEF Sound!TypeOK
    <3> QED BY <2>4, <3>1, FramesOf
  <2>6. AllPlayed'
    BY <2>1, <2>5 DEF AllPlayed, Sound!playing
  <2> QED BY <1>1, <2>1, <2>2, <2>6 DEF PlaysOn, SoundInv
<1> QED BY <1>1, <1>4, <1>5, <1>6, <1>7, <1>8 DEF SoundInv

LEMMA RecordKeeps ==
  ASSUME SoundInv,
         \/ \E n \in 0..MaxFrames : Sound!Record(n) \/ Sound!RecordReads(n)
         \/ Sound!RecordEnds
  PROVE  SoundInv'
<1>0. SoundTypes /\ Sound!TypeOK /\ PlaysOn /\ Held /\ SaysWhatItHolds
  BY DEF SoundInv, SoundTypes
<1>1. /\ UNCHANGED <<card, source, left, soundPending, played, length, recording, recorder, bytes>>
      /\ {call, call'} \subseteq {"none", "record"}
      /\ pcms' = {p \in pcms : p # "record"} \cup (IF call' = "record" THEN {"record"} ELSE {})
  BY <1>0 DEF Sound!Record, Sound!RecordReads, Sound!RecordEnds, Held
<1>2. PlaysOn' /\ pcms' \subseteq {"play", "record", "recorder"}
  BY <1>0, <1>1 DEF PlaysOn, AllPlayed, Sound!TypeOK
<1>3. ASSUME toWrite' \in Nat, output' \in [open : BOOLEAN, says : Nat, holds : Nat],
             output'.open <=> call' = "record", recorder = "none", ~recording, SaysWhatItHolds'
      PROVE  SoundInv'
  <2>1. SoundTypes'
    BY <1>0, <1>1, <1>2, <1>3 DEF SoundTypes, Sound!TypeOK
  <2>2. Held'
    BY <1>0, <1>1, <1>3 DEF Held
  <2> QED BY <1>2, <1>3, <2>1, <2>2 DEF SoundInv
<1>4. ASSUME NEW n \in 0..MaxFrames, Sound!Record(n) PROVE SoundInv'
  <2>1. n \in Nat /\ n * FrameSize \in Nat /\ n * FrameSize <= MaxData
    BY <1>4, NoFrames, SoundAssumption DEF Sound!Record
  <2>2. /\ toWrite' = n /\ call' = "record" /\ recorder = "none" /\ ~recording
        /\ output' = [open |-> TRUE, says |-> n * FrameSize, holds |-> 0]
    BY <1>4 DEF Sound!Record
  <2>3. SaysWhatItHolds'
    BY <1>1, <2>1, <2>2 DEF SaysWhatItHolds
  <2> QED BY <1>3, <2>1, <2>2, <2>3
<1>5. ASSUME NEW n \in 0..MaxFrames, Sound!RecordReads(n) PROVE SoundInv'
  <2>1. /\ n \in Nat /\ n * FrameSize \in Nat /\ n <= toWrite /\ toWrite' = toWrite - n
        /\ call = "record" /\ call' = "record" /\ recorder = "none" /\ ~recording
        /\ output' = [output EXCEPT !.holds = @ + n * FrameSize]
    BY <1>0, <1>5, NoFrames, SoundAssumption DEF Sound!RecordReads, Held
  <2>2. toWrite' \in Nat /\ toWrite' * FrameSize = toWrite * FrameSize - n * FrameSize /\ toWrite * FrameSize \in Nat
    BY <1>0, <2>1, Frames, NoFrames DEF Sound!TypeOK
  <2>3. /\ output.says \in Nat /\ output.holds \in Nat /\ output.open = TRUE
        /\ output' = [open |-> output.open, says |-> output.says, holds |-> output.holds + n * FrameSize]
    BY <1>0, <2>1 DEF SoundTypes, Held
  <2>4. output.says = output.holds + toWrite * FrameSize /\ output.says <= MaxData
    BY <1>0, <2>1 DEF SaysWhatItHolds
  <2>5. SaysWhatItHolds'
    BY <1>1, <2>1, <2>2, <2>3, <2>4 DEF SaysWhatItHolds
  <2>6. output' \in [open : BOOLEAN, says : Nat, holds : Nat]
    <3>1. output.holds + n * FrameSize \in Nat
      BY <2>1, <2>3
    <3> QED BY <2>3, <3>1
  <2> QED BY <1>3, <2>1, <2>2, <2>3, <2>5, <2>6
<1>6. CASE Sound!RecordEnds
  <2>1. /\ toWrite' = 0 /\ call = "record" /\ call' = "none" /\ recorder = "none" /\ ~recording
        /\ output' = IF toWrite = 0 THEN [output EXCEPT !.open = FALSE] ELSE Sound!NoFile
    BY <1>0, <1>6 DEF Sound!RecordEnds, Held
  <2>2. output' \in [open : BOOLEAN, says : Nat, holds : Nat] /\ output'.open = FALSE
    BY <1>0, <2>1 DEF SoundTypes, Sound!NoFile
  <2>3. output'.says = Sound!Min(output'.holds, MaxData)
    <3>1. CASE toWrite = 0
      <4>1. output.says = output.holds + 0 /\ output.says <= MaxData
        BY <1>0, <2>1, <3>1, NoFrames DEF SaysWhatItHolds
      <4>2. output' = [open |-> FALSE, says |-> output.says, holds |-> output.holds] /\ output.holds \in Nat
        BY <1>0, <2>1, <3>1 DEF SoundTypes
      <4> QED BY <4>1, <4>2, SoundAssumption DEF Sound!Min
    <3>2. CASE toWrite # 0
      BY <2>1, <3>2, SoundAssumption DEF Sound!Min, Sound!NoFile
    <3> QED BY <3>1, <3>2
  <2>4. SaysWhatItHolds'
    BY <1>1, <2>1, <2>3 DEF SaysWhatItHolds
  <2> QED BY <1>3, <2>1, <2>2, <2>4
<1> QED BY <1>4, <1>5, <1>6

LEMMA RecorderKeeps ==
  ASSUME SoundInv,
         \/ Sound!StartRecording \/ Sound!RecorderEnds \/ (\E n \in 0..MaxFrames : Sound!Records(n))
         \/ (\E next \in {"stop", "dispose"} : Sound!StopRecording(next)) \/ Sound!Joined \/ Sound!Unplug
  PROVE  SoundInv'
<1>0. SoundTypes /\ Sound!TypeOK /\ PlaysOn /\ Held /\ SaysWhatItHolds
  BY DEF SoundInv, SoundTypes
<1>1. PlaysOn' /\ UNCHANGED Sound!playing
  <2>1. UNCHANGED Sound!playing /\ (call' = call \/ {call, call'} \cap {"play", "write"} = {})
    BY DEF Sound!StartRecording, Sound!RecorderEnds, Sound!Records, Sound!StopRecording, Sound!Joined, Sound!Unplug
  <2> QED BY <2>1, PlayingAlone
<1>2. CASE Sound!StartRecording
  <2>1. CASE card = "gone"
    BY <1>0, <1>1, <1>2, <2>1 DEF Sound!StartRecording, SoundInv, SoundTypes, Sound!TypeOK, Held, SaysWhatItHolds, Sound!playing, Sound!taping
  <2>2. CASE card # "gone"
    <3>1. /\ pcms' = pcms \cup {"recorder"} /\ output' = [open |-> TRUE, says |-> 0, holds |-> 0]
          /\ recording' = TRUE /\ recorder' = "reads" /\ bytes' = 0 /\ call = "none"
          /\ UNCHANGED <<call, card, Sound!playing>>
      BY <1>2, <2>2 DEF Sound!StartRecording
    <3> QED BY <1>0, <1>1, <3>1 DEF SoundInv, SoundTypes, Sound!TypeOK, Held, SaysWhatItHolds, Sound!playing
  <2> QED BY <2>1, <2>2
<1>3. ASSUME NEW n \in 0..MaxFrames, Sound!Records(n) PROVE SoundInv'
  <2>1. /\ n * FrameSize \in Nat /\ recorder = "reads"
        /\ bytes' = bytes + n * FrameSize /\ output' = [output EXCEPT !.holds = @ + n * FrameSize]
        /\ UNCHANGED <<call, card, pcms, Sound!playing, recording, recorder>>
    BY <1>3, NoFrames, SoundAssumption DEF Sound!Records
  <2>2. /\ output' = [open |-> output.open, says |-> output.says, holds |-> output.holds + n * FrameSize]
        /\ output.open \in BOOLEAN /\ output.says \in Nat /\ output.holds \in Nat /\ bytes \in Nat
    BY <1>0, <2>1 DEF SoundTypes
  <2>3. bytes' \in Nat /\ output.holds + n * FrameSize \in Nat
    BY <2>1, <2>2
  <2>4. SoundTypes'
    BY <1>0, <2>1, <2>2, <2>3 DEF SoundTypes, Sound!TypeOK, Sound!playing
  <2>5. Held'
    BY <1>0, <2>1, <2>2 DEF Held
  <2>6. SaysWhatItHolds'
    BY <1>0, <2>1, <2>2 DEF SaysWhatItHolds, Held
  <2> QED BY <1>1, <2>4, <2>5, <2>6 DEF SoundInv
<1>4. CASE Sound!RecorderEnds
  <2>1. /\ recorder = "reads" /\ recorder' = "ended" /\ pcms' = pcms \ {"recorder"}
        /\ output' = [output EXCEPT !.open = FALSE, !.says = Sound!Min(bytes, MaxData)]
        /\ UNCHANGED <<call, card, Sound!playing, recording, bytes>> /\ call # "record"
    BY <1>0, <1>4 DEF Sound!RecorderEnds, Held
  <2>2. Sound!Min(bytes, MaxData) \in Nat /\ bytes = output.holds
    BY <1>0, <2>1, SoundAssumption DEF SoundTypes, SaysWhatItHolds, Sound!Min
  <2>3. output' = [open |-> FALSE, says |-> Sound!Min(bytes, MaxData), holds |-> output.holds] /\ output.holds \in Nat
    BY <1>0, <2>1 DEF SoundTypes
  <2>4. SoundTypes'
    BY <1>0, <2>1, <2>2, <2>3 DEF SoundTypes, Sound!TypeOK, Sound!playing
  <2>5. Held'
    BY <1>0, <2>1, <2>3 DEF Held
  <2>6. SaysWhatItHolds'
    BY <1>0, <2>1, <2>2, <2>3 DEF SaysWhatItHolds
  <2> QED BY <1>1, <2>4, <2>5, <2>6 DEF SoundInv
<1>5. ASSUME NEW next \in {"stop", "dispose"}, Sound!StopRecording(next) PROVE SoundInv'
  BY <1>0, <1>1, <1>5 DEF Sound!StopRecording, SoundInv, SoundTypes, Sound!TypeOK, Held, SaysWhatItHolds, Sound!playing
<1>6. CASE Sound!Joined
  BY <1>0, <1>1, <1>6 DEF Sound!Joined, SoundInv, SoundTypes, Sound!TypeOK, Held, SaysWhatItHolds, Sound!playing
<1>7. CASE Sound!Unplug
  BY <1>0, <1>1, <1>7 DEF Sound!Unplug, SoundInv, SoundTypes, Sound!TypeOK, Held, SaysWhatItHolds, Sound!playing, Sound!taping
<1> QED BY <1>2, <1>3, <1>4, <1>5, <1>6, <1>7

LEMMA SoundKeeps == SoundInv /\ [Sound!Next]_soundVars => SoundInv'
<1> SUFFICES ASSUME SoundInv, [Sound!Next]_soundVars PROVE SoundInv'
  OBVIOUS
<1>1. CASE UNCHANGED soundVars
  BY <1>1 DEF soundVars, SoundInv, SoundTypes, Sound!TypeOK, PlaysOn, AllThere, AllPlayed, Held, SaysWhatItHolds
<1>2. CASE Sound!Next
  BY <1>2, PlayKeeps, RecordKeeps, RecorderKeeps DEF Sound!Next
<1> QED BY <1>1, <1>2

LEMMA SoundHolds == SoundInv => Sound!TypeOK /\ Sound!PlaysItAll /\ Sound!RecordsItAll
<1> SUFFICES ASSUME SoundInv PROVE Sound!TypeOK /\ Sound!PlaysItAll /\ Sound!RecordsItAll
  OBVIOUS
<1>1. Sound!TypeOK /\ Sound!PlaysItAll
  BY DEF SoundInv, SoundTypes, PlaysOn, AllThere, AllPlayed, Sound!PlaysItAll
<1>2. Sound!RecordsItAll
  <2>1. ASSUME call \in {"none", "disposed"}, ~recording PROVE ~output.open /\ pcms = {} /\ recorder = "none"
    <3>1. recorder = "none" /\ \A p \in {"play", "record", "recorder"} : p \notin pcms
      BY <2>1 DEF SoundInv, Held
    <3> QED BY <2>1, <3>1 DEF SoundInv, SoundTypes, Sound!TypeOK, Held
  <2> QED BY <2>1 DEF SoundInv, SaysWhatItHolds, Sound!RecordsItAll
<1> QED BY <1>1, <1>2

-----------------------------------------------------------------------------
(* SerialPort: what is read is what came, and what is written goes out once.*)


SerialTypes == Serial!TypeOK /\ Len(rest) <= 2

\* The kernel has bytes for an open port only, and text is collected by
\* ReadExisting, when nothing is kept any more.
WhoHasBytes ==
  /\ kernel # <<>> => portOpen /\ port = "there"
  /\ text # <<>> => portCall = "existing"
  /\ portCall \in {"read", "existing"} => kept = <<>>

\* What came, as far as the program was given it or the library keeps it
HadOf == past \o text \o kept

InOrder ==
  \E more \in Seq(Symbols) : HadOf \o more = arrived /\ (portOpen /\ port = "there" => more = kernel)

\* What is still to be written, and how the write began
ToWrite ==
  IF Len(rest) = 0 THEN <<>> ELSE IF Len(rest) = 1 THEN rest[1] ELSE rest[1] \o rest[2]

WriteGoesOn ==
  /\ asked = sent \o ToWrite
  /\ portCall # "write" => rest = <<>> /\ sent = <<>> /\ asked = <<>>

SerialInv == SerialTypes /\ WhoHasBytes /\ InOrder /\ WriteGoesOn

-----------------------------------------------------------------------------
\* A sequence cut in two
LEMMA CutInTwo ==
  ASSUME NEW S, NEW q \in Seq(S), NEW n \in 0..Len(q)
  PROVE  /\ SubSeq(q, 1, n) \in Seq(S) /\ SubSeq(q, n + 1, Len(q)) \in Seq(S)
         /\ SubSeq(q, 1, n) \o SubSeq(q, n + 1, Len(q)) = q
<1>1. Len(q) \in Nat
  BY LenProperties
<1>2. 1 \in 1..Len(q) + 1 /\ n \in 1 - 1..Len(q) /\ Len(q) \in n..Len(q)
  BY <1>1
<1>3. SubSeq(q, 1, n) \o SubSeq(q, n + 1, Len(q)) = SubSeq(q, 1, Len(q))
  BY <1>2, ConcatAdjacentSubSeq
<1>4. SubSeq(q, 1, Len(q)) = q
  BY SubSeqFull
<1>5. SubSeq(q, 1, n) \in Seq(S) /\ SubSeq(q, n + 1, Len(q)) \in Seq(S)
  BY <1>1
<1> QED BY <1>3, <1>4, <1>5

LEMMA BeginsWith ==
  ASSUME NEW S, NEW p \in Seq(S), NEW q \in Seq(S)
  PROVE  Serial!IsPrefix(p, p \o q)
<1>1. Len(p) \in Nat /\ Len(q) \in Nat /\ Len(p \o q) = Len(p) + Len(q) /\ p \o q \in Seq(S)
  BY LenProperties, ConcatProperties
<1>2. SubSeq(p \o q, 1, Len(p)) = SubSeq(p, 1, Len(p))
  <2>1. CASE Len(p) = 0
    <3>1. SubSeq(p \o q, 1, Len(p)) = <<>> /\ SubSeq(p, 1, Len(p)) = <<>>
      BY <2>1, SubSeqEmpty
    <3> QED BY <3>1
  <2>2. CASE Len(p) > 0
    <3>1. 1 \in 1..Len(p) /\ Len(p) \in 1..Len(p)
      BY <1>1, <2>2
    <3> QED BY <3>1, SubSeqOfConcat1
  <2> QED BY <1>1, <2>1, <2>2
<1> QED BY <1>1, <1>2 DEF Serial!IsPrefix

LEMMA SubSeqIn ==
  ASSUME NEW S, NEW q \in Seq(S), NEW m \in 1..Len(q) + 1
  PROVE  SubSeq(q, m, Len(q)) \in Seq(S) /\ Len(SubSeq(q, m, Len(q))) = Len(q) + 1 - m
<1>1. Len(q) \in Nat /\ m \in Int /\ Len(q) \in Int /\ \A i \in m..Len(q) : q[i] \in S
  BY LenProperties, ElementOfSeq
<1>2. /\ SubSeq(q, m, Len(q)) \in Seq(S)
      /\ Len(SubSeq(q, m, Len(q))) = IF m <= Len(q) THEN Len(q) - m + 1 ELSE 0
  BY <1>1, SubSeqProperties
<1> QED BY <1>1, <1>2

\* There is a first of some places.
LEMMA FirstOf ==
  ASSUME NEW T \in SUBSET Nat, T # {}
  PROVE  \E i \in T : \A j \in T : i <= j
<1> DEFINE Less == OpToRel(<, Nat)
<1>1. IsWellFoundedOn(Less, Nat)
  BY NatLessThanWellFounded
<1>2. \A i, j \in Nat : j < i => <<j, i>> \in Less
  BY SMT DEF OpToRel
<1> HIDE DEF Less
<1>3. PICK i \in T : \A j \in T : ~(<<j, i>> \in Less)
  BY <1>1, WFMin
<1>4. ASSUME NEW j \in T PROVE i <= j
  <2>1. i \in Nat /\ j \in Nat /\ ~(j < i)
    BY <1>2, <1>3
  <2> QED BY <2>1
<1> QED BY <1>4

\* The first line that is kept ends where its new line does.
LEMMA LineIsKept ==
  ASSUME kept \in Seq(Symbols), Serial!Ends # {}
  PROVE  Serial!LineLength \in 0..Len(kept)
<1>1. Serial!Ends \subseteq Nat /\ Len(kept) \in Nat /\ Len(NewLine) \in Nat
  BY SerialAssumption, LenProperties DEF Serial!Ends
<1>2. \E i \in Serial!Ends : \A j \in Serial!Ends : i <= j
  <2>1. PICK T \in SUBSET Nat : T = Serial!Ends
    BY <1>1
  <2> QED BY <2>1, FirstOf
<1>3. PICK i \in Serial!Ends : i = (CHOOSE k \in Serial!Ends : \A j \in Serial!Ends : k <= j)
  BY <1>2
<1>4. i \in 1..Len(kept) /\ Len(NewLine) <= Len(SubSeq(kept, i, Len(kept)))
  BY <1>3 DEF Serial!Ends, Serial!IsPrefix
<1>5. Len(SubSeq(kept, i, Len(kept))) = Len(kept) + 1 - i
  BY <1>1, <1>4, SubSeqIn
<1> QED BY <1>1, <1>3, <1>4, <1>5 DEF Serial!LineLength

-----------------------------------------------------------------------------
LEMMA SerialBegins == Serial!Init => SerialInv
<1> SUFFICES ASSUME Serial!Init PROVE SerialInv
  OBVIOUS
<1>1. <<>> \in Seq(Symbols) /\ <<>> \in Seq(Seq(Symbols)) /\ 0 \in 0..Room
  BY SerialAssumption
<1>2. SerialTypes
  <2>1. Len(rest) <= 2
    BY DEF Serial!Init
  <2>2. {kernel, kept, text, arrived, past, sent, asked} \subseteq Seq(Symbols) /\ rest \in Seq(Seq(Symbols))
    BY <1>1 DEF Serial!Init
  <2> QED BY <1>1, <2>1, <2>2 DEF Serial!Init, SerialTypes, Serial!TypeOK
<1>3. <<>> \o <<>> \o <<>> \o <<>> = <<>>
  BY <1>1, ConcatEmptySeq
<1>4. InOrder
  BY <1>1, <1>3 DEF Serial!Init, InOrder, HadOf
<1>5. WriteGoesOn
  BY <1>1, ConcatEmptySeq DEF Serial!Init, WriteGoesOn, ToWrite
<1> QED BY <1>2, <1>4, <1>5 DEF Serial!Init, SerialInv, WhoHasBytes

\* What the writes leave alone
LEMMA WritingAlone ==
  ASSUME SerialInv, UNCHANGED <<rest, sent, asked>>, portCall' # "write" => portCall # "write"
  PROVE  WriteGoesOn'
<1>1. ToWrite' = ToWrite
  BY DEF ToWrite
<1>2. WriteGoesOn
  BY DEF SerialInv
<1>3. asked' = sent' \o ToWrite'
  BY <1>1, <1>2 DEF WriteGoesOn
<1>4. portCall' # "write" => rest' = <<>> /\ sent' = <<>> /\ asked' = <<>>
  BY <1>2 DEF WriteGoesOn
<1> QED BY <1>3, <1>4 DEF WriteGoesOn

\* ... and what everything but a read leaves alone
LEMMA ReadingAlone ==
  ASSUME SerialInv, UNCHANGED <<portOpen, port, Serial!reading>>,
         portCall \in {"none", "write"}, portCall' \in {"none", "write"}
  PROVE  WhoHasBytes' /\ InOrder'
<1>1. HadOf' = HadOf
  BY DEF Serial!reading, HadOf
<1>2. InOrder /\ WhoHasBytes
  BY DEF SerialInv
<1>3. InOrder'
  BY <1>1, <1>2 DEF InOrder, Serial!reading
<1>4. WhoHasBytes'
  BY <1>2 DEF WhoHasBytes, Serial!reading
<1> QED BY <1>3, <1>4

\* A read gives or keeps what the kernel had, and the kernel has the rest.
LEMMA BytesMove ==
  ASSUME SerialInv, UNCHANGED <<portOpen, port, arrived>>, HadOf' \in Seq(Symbols),
         kernel' \in Seq(Symbols), HadOf' \o kernel' = HadOf \o kernel,
         kernel' # <<>> => kernel # <<>>
  PROVE  InOrder'
<1>0. HadOf \in Seq(Symbols) /\ kernel \in Seq(Symbols) /\ WhoHasBytes
  BY ConcatProperties DEF SerialInv, SerialTypes, Serial!TypeOK, HadOf
<1>1. PICK more \in Seq(Symbols) : HadOf \o more = arrived /\ (portOpen /\ port = "there" => more = kernel)
  BY DEF SerialInv, InOrder
<1>2. CASE portOpen /\ port = "there"
  <2>1. HadOf' \o kernel' = arrived'
    BY <1>1, <1>2
  <2> QED BY <2>1 DEF InOrder
<1>3. CASE ~(portOpen /\ port = "there")
  <2>1. kernel = <<>> /\ kernel' = <<>>
    BY <1>0, <1>3 DEF WhoHasBytes
  <2>2. HadOf' \o <<>> = HadOf' /\ HadOf \o <<>> = HadOf
    BY <1>0, ConcatEmptySeq
  <2>3. HadOf' = HadOf
    BY <2>1, <2>2
  <2>4. HadOf' \o more = arrived' /\ ~(portOpen' /\ port' = "there")
    BY <1>1, <1>3, <2>3
  <2> QED BY <2>4 DEF InOrder
<1> QED BY <1>2, <1>3

\* What poll and read give
LEMMA GetsSome ==
  ASSUME SerialInv, NEW n \in Nat
  PROVE  /\ Serial!Gets(n) \in Seq(Symbols) /\ Serial!Taken(n) \in Seq(Symbols) /\ Serial!Gets(n) \o Serial!Taken(n) = kernel
         /\ Serial!Taken(n) # <<>> => kernel # <<>>
<1>1. kernel \in Seq(Symbols) /\ Len(kernel) \in Nat /\ Serial!Least(n, Len(kernel)) \in 0..Len(kernel)
  BY LenProperties DEF SerialInv, SerialTypes, Serial!TypeOK, Serial!Least
<1>2. /\ Serial!Gets(n) \in Seq(Symbols) /\ Serial!Taken(n) \in Seq(Symbols) /\ Serial!Gets(n) \o Serial!Taken(n) = kernel
  BY <1>1, CutInTwo DEF Serial!Gets, Serial!Taken
<1>3. Serial!Taken(n) # <<>> => kernel # <<>>
  <2>1. Serial!Gets(n) \o Serial!Taken(n) = <<>> => Serial!Taken(n) = <<>>
    BY <1>2, ConcatEqualIffEmpty
  <2> QED BY <1>2, <2>1
<1> QED BY <1>2, <1>3

-----------------------------------------------------------------------------
\* The line, and what the program does between its calls
LEMMA LineKeeps ==
  ASSUME SerialInv,
         (\E b \in Symbols : Serial!Arrives(b)) \/ Serial!Sends \/ Serial!Unplug \/ Serial!TimePasses
  PROVE  SerialInv'
<1>0. /\ SerialTypes /\ Serial!TypeOK /\ WhoHasBytes /\ HadOf \in Seq(Symbols) /\ kernel \in Seq(Symbols) /\ arrived \in Seq(Symbols)
      /\ Room \in Nat
  BY ConcatProperties, SerialAssumption DEF SerialInv, SerialTypes, Serial!TypeOK, HadOf
<1>1. PICK more \in Seq(Symbols) : HadOf \o more = arrived /\ (portOpen /\ port = "there" => more = kernel)
  BY DEF SerialInv, InOrder
<1>2. UNCHANGED <<portOpen, portCall, timed, count, kept, text, past, rest, sent, asked>> /\ HadOf' = HadOf
  BY DEF Serial!Arrives, Serial!Sends, Serial!Unplug, Serial!TimePasses, Serial!how, Serial!reading, Serial!writing, HadOf
<1>3. WriteGoesOn'
  BY <1>2, WritingAlone
<1>4. ASSUME NEW b \in Symbols, Serial!Arrives(b) PROVE SerialInv'
  <2>1. /\ portOpen /\ port = "there" /\ UNCHANGED <<port, portLate, outQueue>>
        /\ kernel' = Append(kernel, b) /\ arrived' = Append(arrived, b)
    BY <1>4 DEF Serial!Arrives, Serial!how, Serial!writing
  <2>2. kernel' = kernel \o <<b>> /\ arrived' = arrived \o <<b>> /\ <<b>> \in Seq(Symbols)
    BY <1>0, <2>1, AppendIsConcat
  <2>3. HadOf \o (kernel \o <<b>>) = (HadOf \o kernel) \o <<b>>
    BY <1>0, <2>2, ConcatAssociative
  <2>4. kernel' \in Seq(Symbols) /\ arrived' \in Seq(Symbols)
    BY <1>0, <2>1, AppendProperties
  <2>5. HadOf' \o kernel' = arrived'
    BY <1>1, <1>2, <2>1, <2>2, <2>3
  <2>6. InOrder'
    BY <2>4, <2>5 DEF InOrder
  <2>7. SerialTypes'
    BY <1>0, <1>2, <2>1, <2>4 DEF SerialTypes, Serial!TypeOK
  <2> QED BY <1>0, <1>2, <1>3, <2>1, <2>6, <2>7 DEF SerialInv, WhoHasBytes
<1>5. CASE Serial!Sends \/ Serial!TimePasses
  <2>0. outQueue \in 0..Room /\ portLate \in BOOLEAN
    BY <1>0 DEF Serial!TypeOK
  <2>1. UNCHANGED <<port, kernel, arrived>> /\ portLate' \in BOOLEAN /\ outQueue' \in 0..Room
    <3>1. CASE Serial!Sends
      <4>1. outQueue > 0 /\ outQueue' = outQueue - 1 /\ UNCHANGED <<port, Serial!how, Serial!reading>>
        BY <3>1 DEF Serial!Sends
      <4>2. outQueue - 1 \in 0..Room
        BY <1>0, <2>0, <4>1
      <4>3. UNCHANGED <<kernel, arrived, portLate>>
        BY <4>1 DEF Serial!reading, Serial!how
      <4> QED BY <2>0, <4>1, <4>2, <4>3
    <3>2. CASE Serial!TimePasses
      BY <2>0, <3>2 DEF Serial!TimePasses, Serial!reading, Serial!writing
    <3> QED BY <1>5, <3>1, <3>2
  <2>2. InOrder'
    BY <1>1, <1>2, <2>1 DEF InOrder
  <2>3. SerialTypes'
    BY <1>0, <1>2, <2>1 DEF SerialTypes, Serial!TypeOK
  <2> QED BY <1>0, <1>2, <1>3, <2>1, <2>2, <2>3 DEF SerialInv, WhoHasBytes
<1>6. CASE Serial!Unplug
  <2>1. port' = "gone" /\ kernel' = <<>> /\ outQueue' = 0 /\ UNCHANGED <<arrived, portLate>>
    BY <1>6 DEF Serial!Unplug, Serial!how
  <2>2. InOrder'
    BY <1>1, <1>2, <2>1 DEF InOrder
  <2>3. <<>> \in Seq(Symbols) /\ 0 \in 0..Room
    BY <1>0
  <2>4. SerialTypes'
    BY <1>0, <1>2, <2>1, <2>3 DEF SerialTypes, Serial!TypeOK
  <2> QED BY <1>0, <1>2, <1>3, <2>1, <2>2, <2>4 DEF SerialInv, WhoHasBytes
<1> QED BY <1>4, <1>5, <1>6

LEMMA PortKeeps ==
  ASSUME SerialInv, Serial!Open \/ Serial!Close \/ Serial!DiscardInBuffer \/ Serial!DiscardOutBuffer
  PROVE  SerialInv'
<1>0. /\ SerialTypes /\ Serial!TypeOK /\ WhoHasBytes /\ kernel \in Seq(Symbols) /\ past \in Seq(Symbols)
      /\ kept \in Seq(Symbols) /\ Room \in Nat /\ <<>> \in Seq(Symbols)
  BY SerialAssumption DEF SerialInv, SerialTypes, Serial!TypeOK
<1>1. /\ UNCHANGED <<port, portCall, timed, portLate, count, text, past, rest, sent, asked>> /\ portCall = "none"
      /\ text = <<>> /\ text' = <<>>
  BY <1>0 DEF Serial!Open, Serial!Close, Serial!DiscardInBuffer, Serial!DiscardOutBuffer, Serial!how, Serial!reading, Serial!writing, WhoHasBytes
<1>2. WriteGoesOn'
  BY <1>1, WritingAlone
<1>3. outQueue' \in 0..Room /\ portOpen' \in BOOLEAN
  <2>1. outQueue \in 0..Room /\ 0 \in 0..Room /\ portOpen \in BOOLEAN
    BY <1>0 DEF Serial!TypeOK
  <2> QED BY <2>1 DEF Serial!Open, Serial!Close, Serial!DiscardInBuffer, Serial!DiscardOutBuffer, Serial!reading, Serial!writing
<1>4. CASE Serial!DiscardOutBuffer
  <2>1. UNCHANGED <<portOpen, port, Serial!reading>>
    BY <1>4 DEF Serial!DiscardOutBuffer, Serial!reading
  <2>2. WhoHasBytes' /\ InOrder'
    BY <1>1, <2>1, ReadingAlone
  <2>3. SerialTypes'
    BY <1>0, <1>1, <1>3, <2>1 DEF SerialTypes, Serial!TypeOK, Serial!reading
  <2> QED BY <1>2, <2>2, <2>3 DEF SerialInv
<1>5. CASE Serial!Open \/ Serial!DiscardInBuffer \/ Serial!Close
  <2>1. kernel' = <<>> /\ kept' \in Seq(Symbols) /\ arrived' = past \o kept'
    <3>1. past \o <<>> = past
      BY <1>0, ConcatEmptySeq
    <3> QED BY <1>0, <1>5, <3>1 DEF Serial!Open, Serial!DiscardInBuffer, Serial!Close, WhoHasBytes
  <2>2. HadOf' = past \o kept' /\ past \o kept' \in Seq(Symbols)
    <3>1. past \o <<>> = past
      BY <1>0, ConcatEmptySeq
    <3> QED BY <1>0, <1>1, <2>1, <3>1, ConcatProperties DEF HadOf
  <2>3. HadOf' \o <<>> = arrived' /\ arrived' \in Seq(Symbols)
    BY <2>1, <2>2, ConcatEmptySeq
  <2>4. InOrder'
    BY <1>0, <2>1, <2>3 DEF InOrder
  <2>5. SerialTypes'
    BY <1>0, <1>1, <1>3, <2>1, <2>3 DEF SerialTypes, Serial!TypeOK
  <2> QED BY <1>1, <1>2, <2>1, <2>4, <2>5 DEF SerialInv, WhoHasBytes
<1> QED BY <1>4, <1>5

-----------------------------------------------------------------------------
\* What every read leaves alone
LEMMA ReadsAlone ==
  ASSUME SerialInv,
         UNCHANGED <<port, portOpen, Serial!writing>>, portCall # "write", portCall' \in {"none", "read", "existing", "line", "wait"},
         timed' \in BOOLEAN, portLate' \in BOOLEAN, count' \in Nat,
         {kernel', kept', text', arrived', past'} \subseteq Seq(Symbols), WhoHasBytes', InOrder'
  PROVE  SerialInv'
<1>1. WriteGoesOn'
  BY WritingAlone DEF Serial!writing
<1>2. SerialTypes'
  BY DEF SerialInv, SerialTypes, Serial!TypeOK, Serial!writing
<1> QED BY <1>1, <1>2 DEF SerialInv


\* What a read does to the bytes: gives some that were kept, gives some that
\* the kernel has, or keeps some.
LEMMA NoMore == \A p \in Seq(Symbols) : p \o <<>> = p /\ <<>> \o p = p
BY ConcatEmptySeq

LEMMA Gives == \A p, a \in Seq(Symbols) : p \o a \in Seq(Symbols)
BY ConcatProperties

LEMMA GivesMore == \A p, a, b \in Seq(Symbols) : p \o a \o b = p \o (a \o b)
BY ConcatAssociative

LEMMA ReadsKeep ==
  ASSUME SerialInv,
         \/ \E limit \in BOOLEAN : (\E n \in 1..2 : Serial!Read(n, limit)) \/ Serial!ReadLine(limit)
         \/ Serial!ReadTimesOut \/ Serial!ReadLineTimesOut \/ Serial!ReadLineLoops
  PROVE  SerialInv'
<1>0. /\ SerialTypes /\ Serial!TypeOK /\ WhoHasBytes /\ HadOf \in Seq(Symbols) /\ kernel \in Seq(Symbols) /\ arrived \in Seq(Symbols)
      /\ past \in Seq(Symbols) /\ kept \in Seq(Symbols) /\ text \in Seq(Symbols) /\ <<>> \in Seq(Symbols)
      /\ count \in Nat /\ timed \in BOOLEAN /\ portLate \in BOOLEAN
  BY ConcatProperties DEF SerialInv, SerialTypes, Serial!TypeOK, HadOf
<1>1. /\ UNCHANGED <<port, portOpen, Serial!writing, kernel, text, arrived>>
      /\ portCall \in {"none", "read", "line", "wait"} /\ portCall' \in {"none", "read", "line", "wait"}
  BY <1>0 DEF Serial!Read, Serial!ReadLine, Serial!ReadTimesOut, Serial!ReadLineTimesOut, Serial!ReadLineLoops, Serial!Returns, Serial!reading
<1>2. timed' \in BOOLEAN /\ portLate' \in BOOLEAN /\ count' \in Nat
  <2>1. Serial!Returns => timed' \in BOOLEAN /\ portLate' \in BOOLEAN /\ count' \in Nat
    <3>1. Serial!Returns => timed' \in BOOLEAN /\ portLate' \in BOOLEAN
      BY DEF Serial!Returns
    <3>2. Serial!Returns => count' \in Nat
      BY DEF Serial!Returns
    <3> QED BY <3>1, <3>2
  <2>2. UNCHANGED Serial!how => timed' \in BOOLEAN /\ portLate' \in BOOLEAN /\ count' \in Nat
    BY <1>0 DEF Serial!how
  <2>3. ASSUME NEW limit \in BOOLEAN, NEW n \in 1..2, Serial!Read(n, limit)
        PROVE  timed' \in BOOLEAN /\ portLate' \in BOOLEAN /\ count' \in Nat
    BY <1>0, <2>3 DEF Serial!Read
  <2>4. ASSUME NEW limit \in BOOLEAN, Serial!ReadLine(limit)
        PROVE  timed' \in BOOLEAN /\ portLate' \in BOOLEAN /\ count' \in Nat
    BY <1>0, <2>4 DEF Serial!ReadLine
  <2>5. CASE Serial!ReadTimesOut \/ Serial!ReadLineTimesOut
    BY <2>1, <2>5 DEF Serial!ReadTimesOut, Serial!ReadLineTimesOut
  <2>6. CASE Serial!ReadLineLoops
    BY <2>1, <2>2, <2>6 DEF Serial!ReadLineLoops
  <2> QED BY <2>3, <2>4, <2>5, <2>6
<1>3. \/ UNCHANGED <<past, kept>>
      \/ \E n \in 0..Len(kept) :
           past' = past \o SubSeq(kept, 1, n) /\ kept' = SubSeq(kept, n + 1, Len(kept))
  <2>1. ASSUME NEW limit \in BOOLEAN, NEW n \in 1..2, Serial!Read(n, limit), kept # <<>>
        PROVE  \E k \in 0..Len(kept) :
                 past' = past \o SubSeq(kept, 1, k) /\ kept' = SubSeq(kept, k + 1, Len(kept))
    <3>1. Serial!Least(n, Len(kept)) \in 0..Len(kept)
      BY <1>0, LenProperties DEF Serial!Least
    <3> QED BY <2>1, <3>1 DEF Serial!Read, Serial!Given
  <2>2. ASSUME Serial!ReadLineLoops, Serial!Ends # {}
        PROVE  \E k \in 0..Len(kept) :
                 past' = past \o SubSeq(kept, 1, k) /\ kept' = SubSeq(kept, k + 1, Len(kept))
    BY <1>0, <2>2, LineIsKept DEF Serial!ReadLineLoops, Serial!Given
  <2> QED BY <2>1, <2>2 DEF Serial!Read, Serial!ReadLine, Serial!ReadTimesOut, Serial!ReadLineTimesOut, Serial!ReadLineLoops, Serial!reading
<1>4. portCall' \in {"read", "existing"} => kept' = <<>>
  BY <1>0, <1>1 DEF Serial!Read, Serial!ReadLine, Serial!ReadTimesOut, Serial!ReadLineTimesOut, Serial!ReadLineLoops, Serial!Returns, WhoHasBytes, Serial!reading
<1>5. WhoHasBytes'
  BY <1>0, <1>1, <1>4 DEF WhoHasBytes
<1>6. CASE UNCHANGED <<past, kept>>
  <2>1. HadOf' = HadOf /\ kernel' = kernel
    BY <1>1, <1>6 DEF HadOf
  <2>2. InOrder'
    BY <1>0, <1>1, <2>1, BytesMove
  <2> QED BY <1>0, <1>1, <1>2, <1>5, <1>6, <2>2, ReadsAlone
<1>7. ASSUME NEW n \in 0..Len(kept),
             past' = past \o SubSeq(kept, 1, n), kept' = SubSeq(kept, n + 1, Len(kept))
      PROVE  SerialInv'
  <2>1. PICK a \in Seq(Symbols), b \in Seq(Symbols) : past' = past \o a /\ kept' = b /\ a \o b = kept
    <3>1. /\ SubSeq(kept, 1, n) \in Seq(Symbols) /\ SubSeq(kept, n + 1, Len(kept)) \in Seq(Symbols)
          /\ SubSeq(kept, 1, n) \o SubSeq(kept, n + 1, Len(kept)) = kept
      BY <1>0, CutInTwo
    <3> QED BY <1>7, <3>1
  <2>2. text = <<>>
    BY <1>0, <1>1 DEF WhoHasBytes
  <2>3. HadOf = past \o (a \o b) /\ HadOf' = past \o a \o <<>> \o b
    BY <1>0, <1>1, <2>1, <2>2, NoMore DEF HadOf
  <2>4. past \o a \in Seq(Symbols)
    BY <1>0, <2>1, Gives
  <2>5. past \o a \o <<>> = past \o a /\ past \o a \o b = past \o (a \o b)
    <3>1. past \o a \o <<>> = past \o a
      BY <2>4, NoMore
    <3>2. past \in Seq(Symbols)
      BY <1>0
    <3>3. past \o a \o b = past \o (a \o b)
      BY <3>2, ConcatAssociative
    <3> QED BY <3>1, <3>3
  <2>6. HadOf' = HadOf /\ kernel' = kernel
    BY <1>1, <2>3, <2>5
  <2>7. InOrder'
    BY <1>0, <1>1, <2>6, BytesMove
  <2> QED BY <1>0, <1>1, <1>2, <1>5, <2>1, <2>4, <2>7, ReadsAlone
<1> QED BY <1>3, <1>6, <1>7

LEMMA ReadsGet ==
  ASSUME SerialInv, Serial!ReadGets \/ Serial!ReadLineGets \/ Serial!ReadExistingGets
  PROVE  SerialInv'
<1>0. /\ SerialTypes /\ Serial!TypeOK /\ WhoHasBytes /\ HadOf \in Seq(Symbols) /\ kernel \in Seq(Symbols) /\ arrived \in Seq(Symbols)
      /\ past \in Seq(Symbols) /\ kept \in Seq(Symbols) /\ text \in Seq(Symbols) /\ <<>> \in Seq(Symbols)
      /\ count \in Nat /\ timed \in BOOLEAN /\ portLate \in BOOLEAN /\ Chunk \in Nat
  BY ConcatProperties, SerialAssumption DEF SerialInv, SerialTypes, Serial!TypeOK, HadOf
<1>1. /\ UNCHANGED <<port, portOpen, Serial!writing, arrived>>
      /\ portCall \in {"existing", "read", "wait"} /\ portCall' \in {"none", "line"}
      /\ timed' \in BOOLEAN /\ portLate' \in BOOLEAN /\ count' \in Nat
  <2>1. CASE Serial!ReadGets
    BY <2>1 DEF Serial!ReadGets, Serial!Returns
  <2>2. CASE Serial!ReadExistingGets
    BY <2>2 DEF Serial!ReadExistingGets, Serial!Returns
  <2>3. CASE Serial!ReadLineGets
    BY <1>0, <2>3 DEF Serial!ReadLineGets, Serial!how
  <2> QED BY <2>1, <2>2, <2>3
<1>2. PICK g \in Seq(Symbols), stays \in Seq(Symbols) :
        /\ g \o stays = kernel /\ kernel' = stays /\ (stays # <<>> => kernel # <<>>)
        /\ \/ Serial!ReadGets /\ past' = past \o g /\ UNCHANGED <<kept, text>>
           \/ Serial!ReadLineGets /\ kept' = kept \o g /\ UNCHANGED <<past, text>>
           \/ Serial!ReadExistingGets /\ past' = past \o (text \o g) /\ text' = <<>> /\ kept' = kept
  <2>1. CASE Serial!ReadLineGets
    BY <1>0, <2>1, GetsSome DEF Serial!ReadLineGets
  <2>2. CASE Serial!ReadGets
    BY <1>0, <2>2, GetsSome DEF Serial!ReadGets, Serial!Given
  <2>3. CASE Serial!ReadExistingGets
    BY <1>0, <2>3, GetsSome DEF Serial!ReadExistingGets, Serial!Given
  <2> QED BY <2>1, <2>2, <2>3
<1>3. text' = <<>> /\ (Serial!ReadGets \/ Serial!ReadLineGets => text = <<>>) /\ (Serial!ReadGets \/ Serial!ReadExistingGets => kept = <<>> /\ kept' = <<>>)
  BY <1>0, <1>2 DEF WhoHasBytes, Serial!ReadGets, Serial!ReadLineGets, Serial!ReadExistingGets
<1>4. /\ past' \in Seq(Symbols) /\ kept' \in Seq(Symbols) /\ HadOf' \in Seq(Symbols)
      /\ HadOf' \o stays = HadOf \o (g \o stays)
  <2>1. ASSUME past' \in Seq(Symbols), kept' \in Seq(Symbols), HadOf' = HadOf \o g
        PROVE  HadOf' \in Seq(Symbols) /\ HadOf' \o stays = HadOf \o (g \o stays)
    <3>1. HadOf \o g \in Seq(Symbols)
      BY <1>0, Gives
    <3>2. HadOf \in Seq(Symbols)
      BY <1>0
    <3>3. HadOf \o g \o stays = HadOf \o (g \o stays)
      BY <3>2, ConcatAssociative
    <3> QED BY <2>1, <3>1, <3>3
  <2>2. CASE Serial!ReadGets /\ past' = past \o g
    <3>1. past' \in Seq(Symbols) /\ past' = past \o g /\ kept' = <<>> /\ kept = <<>> /\ text = <<>>
      BY <1>0, <1>3, <2>2, Gives
    <3>2. HadOf = past /\ HadOf' = past'
      BY <1>0, <1>3, <3>1, NoMore DEF HadOf
    <3> QED BY <1>0, <2>1, <3>1, <3>2
  <2>3. CASE Serial!ReadLineGets /\ kept' = kept \o g /\ past' = past
    <3>1. kept' \in Seq(Symbols)
      BY <1>0, <2>3, Gives
    <3>2. past \o <<>> = past /\ past \o kept \o g = past \o (kept \o g)
      <4>1. past \o <<>> = past
        BY <1>0, NoMore
      <4>2. past \in Seq(Symbols) /\ kept \in Seq(Symbols)
        BY <1>0
      <4>3. past \o kept \o g = past \o (kept \o g)
        BY <4>2, ConcatAssociative
      <4> QED BY <4>1, <4>3
    <3>3. HadOf = past \o kept /\ HadOf' = past \o (kept \o g)
      BY <1>3, <2>3, <3>2 DEF HadOf
    <3> QED BY <1>0, <2>1, <2>3, <3>1, <3>2, <3>3
  <2>4. CASE Serial!ReadExistingGets /\ past' = past \o (text \o g)
    <3>1. past \o text \o g = past \o (text \o g) /\ past \o text \o g \in Seq(Symbols)
          /\ past \o text \in Seq(Symbols)
      <4>1. past \in Seq(Symbols) /\ text \in Seq(Symbols)
        BY <1>0
      <4>2. past \o text \in Seq(Symbols) /\ past \o text \o g = past \o (text \o g)
        BY <4>1, Gives, ConcatAssociative
      <4>3. past \o text \o g \in Seq(Symbols)
        BY <4>2, Gives
      <4> QED BY <4>2, <4>3
    <3>2. HadOf = past \o text
      BY <1>3, <2>4, <3>1, NoMore DEF HadOf
    <3>3. HadOf' = past'
      BY <1>3, <2>4, <3>1, NoMore DEF HadOf
    <3> QED BY <1>0, <1>3, <2>1, <2>4, <3>1, <3>2, <3>3
  <2> QED BY <1>2, <2>2, <2>3, <2>4
<1>5. InOrder'
  <2>1. HadOf' \o kernel' = HadOf \o kernel /\ kernel' \in Seq(Symbols) /\ (kernel' # <<>> => kernel # <<>>)
    BY <1>2, <1>4
  <2> QED BY <1>1, <1>4, <2>1, BytesMove
<1>6. WhoHasBytes'
  BY <1>0, <1>1, <1>2, <1>3 DEF WhoHasBytes
<1> QED BY <1>0, <1>1, <1>2, <1>3, <1>4, <1>5, <1>6, ReadsAlone

LEMMA ReadExistingKeeps ==
  ASSUME SerialInv, Serial!ReadExisting
  PROVE  SerialInv'
<1>0. /\ SerialTypes /\ Serial!TypeOK /\ WhoHasBytes /\ HadOf \in Seq(Symbols) /\ kernel \in Seq(Symbols) /\ arrived \in Seq(Symbols)
      /\ past \in Seq(Symbols) /\ kept \in Seq(Symbols) /\ text \in Seq(Symbols) /\ <<>> \in Seq(Symbols)
      /\ count \in Nat /\ timed \in BOOLEAN /\ portLate \in BOOLEAN /\ Len(kernel) \in Nat
  BY ConcatProperties, LenProperties DEF SerialInv, SerialTypes, Serial!TypeOK, HadOf
<1>1. /\ UNCHANGED <<port, portOpen, Serial!writing, kernel, arrived, timed, portLate>> /\ portCall = "none" /\ text = <<>> /\ kept' = <<>>
  BY <1>0 DEF Serial!ReadExisting, WhoHasBytes
<1>2. HadOf = past \o kept /\ past \o kept \in Seq(Symbols) /\ past \o <<>> = past
  BY <1>0, <1>1, Gives, NoMore DEF HadOf
<1>3. \/ portCall' = "existing" /\ text' = kept /\ count' = Len(kernel) /\ past' = past
      \/ UNCHANGED <<portCall, text, count>> /\ past' = past \o kept
      \/ UNCHANGED <<portCall, text, count, past>> /\ ~(portOpen /\ port = "there")
  BY DEF Serial!ReadExisting, Serial!Given
<1>4. WhoHasBytes' /\ count' \in Nat /\ portCall' \in {"none", "existing"} /\ text' \in Seq(Symbols) /\ past' \in Seq(Symbols)
  BY <1>0, <1>1, <1>2, <1>3 DEF WhoHasBytes
<1>5. InOrder'
  <2>1. CASE (text' = kept /\ past' = past) \/ (text' = text /\ past' = past \o kept)
    <3>1. HadOf' = HadOf /\ kernel' = kernel
      <4>1. past \o kept \o <<>> = past \o kept
        BY <1>2, ConcatEmptySeq
      <4> QED BY <1>1, <1>2, <2>1, <4>1 DEF HadOf
    <3> QED BY <1>0, <1>1, <3>1, BytesMove
  <2>2. CASE text' = text /\ past' = past /\ ~(portOpen /\ port = "there")
    <3>1. PICK more \in Seq(Symbols) : HadOf \o more = arrived
      BY DEF SerialInv, InOrder
    <3>2. HadOf' = past
      BY <1>1, <1>2, <2>2 DEF HadOf
    <3>3. past \o (kept \o more) = arrived /\ kept \o more \in Seq(Symbols)
      <4>1. kept \o more \in Seq(Symbols)
        BY <1>0, Gives
      <4>2. past \in Seq(Symbols) /\ kept \in Seq(Symbols)
        BY <1>0
      <4>3. past \o kept \o more = past \o (kept \o more)
        BY <4>2, ConcatAssociative
      <4> QED BY <1>2, <3>1, <4>1, <4>3
    <3> QED BY <1>1, <2>2, <3>2, <3>3 DEF InOrder
  <2> QED BY <1>3, <2>1, <2>2
<1> QED BY <1>0, <1>1, <1>4, <1>5, ReadsAlone

-----------------------------------------------------------------------------
\* The writes
LEMMA WritesKeep ==
  ASSUME SerialInv,
         \/ \E line, limit \in BOOLEAN : Serial!Write(line, limit)
         \/ Serial!WriteStep \/ Serial!NextBuffer \/ Serial!WriteDone \/ Serial!WriteFails
  PROVE  SerialInv'
<1>0. /\ SerialTypes /\ Serial!TypeOK /\ WriteGoesOn
      /\ rest \in Seq(Seq(Symbols)) /\ Len(rest) \in 0..2 /\ sent \in Seq(Symbols) /\ asked \in Seq(Symbols)
      /\ outQueue \in 0..Room /\ Room \in Nat /\ <<>> \in Seq(Symbols) /\ <<>> \in Seq(Seq(Symbols))
      /\ timed \in BOOLEAN /\ portLate \in BOOLEAN /\ count \in Nat
  <2>1. SerialTypes /\ Serial!TypeOK /\ WriteGoesOn /\ Room \in Nat
    BY SerialAssumption DEF SerialInv, SerialTypes
  <2>2. rest \in Seq(Seq(Symbols)) /\ Len(rest) <= 2
    BY <2>1 DEF SerialTypes, Serial!TypeOK
  <2>3. Len(rest) \in 0..2
    <3>1. PICK n \in Nat : n = Len(rest)
      BY <2>2, LenProperties
    <3>2. n <= 2
      BY <2>2, <3>1
    <3>3. n \in 0..2
      BY <3>2
    <3> QED BY <3>1, <3>3
  <2> QED BY <2>1, <2>2, <2>3 DEF Serial!TypeOK
<1>1. /\ UNCHANGED <<portOpen, port, Serial!reading>> /\ portCall \in {"none", "write"} /\ portCall' \in {"none", "write"}
      /\ timed' \in BOOLEAN /\ portLate' \in BOOLEAN /\ count' \in Nat
  <2>1. ASSUME NEW line \in BOOLEAN, NEW limit \in BOOLEAN, Serial!Write(line, limit)
        PROVE  /\ UNCHANGED <<portOpen, port, Serial!reading>> /\ portCall = "none" /\ portCall' = "write"
               /\ timed' \in BOOLEAN /\ portLate' \in BOOLEAN /\ count' \in Nat
    BY <1>0, <2>1 DEF Serial!Write
  <2>2. CASE Serial!WriteStep \/ Serial!NextBuffer
    BY <1>0, <2>2 DEF Serial!WriteStep, Serial!NextBuffer, Serial!how
  <2>3. CASE Serial!WriteDone \/ Serial!WriteFails
    <3>1. Serial!WriteEnds /\ portCall = "write"
      BY <2>3 DEF Serial!WriteDone, Serial!WriteFails
    <3> QED BY <3>1 DEF Serial!WriteEnds, Serial!Returns
  <2> QED BY <2>1, <2>2, <2>3
<1>2. WhoHasBytes' /\ InOrder'
  BY <1>1, ReadingAlone
<1>3. ASSUME rest' \in Seq(Seq(Symbols)), Len(rest') <= 2, sent' \in Seq(Symbols), asked' \in Seq(Symbols),
             outQueue' \in 0..Room, WriteGoesOn'
      PROVE  SerialInv'
  <2>1. SerialTypes'
    BY <1>0, <1>1, <1>3 DEF SerialTypes, Serial!TypeOK, Serial!reading
  <2> QED BY <1>2, <1>3, <2>1 DEF SerialInv
<1>4. ASSUME NEW line \in BOOLEAN, NEW limit \in BOOLEAN, Serial!Write(line, limit) PROVE SerialInv'
  <2>1. Text \in Seq(Symbols) /\ NewLine \in Seq(Symbols) /\ Text \o NewLine \in Seq(Symbols)
    BY SerialAssumption, ConcatProperties
  <2>2. sent = <<>> /\ portCall' = "write" /\ UNCHANGED <<outQueue, sent>>
    BY <1>0, <1>4 DEF Serial!Write, WriteGoesOn
  <2>3. rest' \in Seq(Seq(Symbols)) /\ asked' \in Seq(Symbols) /\ Len(rest') <= 2 /\ ToWrite' = asked'
    <3>1. CASE line
      <4>1. rest' = <<Text, NewLine>> /\ asked' = Text \o NewLine
        BY <1>4, <3>1 DEF Serial!Write
      <4> QED BY <2>1, <4>1 DEF ToWrite
    <3>2. CASE ~line
      <4>1. rest' = <<Text>> /\ asked' = Text
        BY <1>4, <3>2 DEF Serial!Write
      <4> QED BY <2>1, <4>1 DEF ToWrite
    <3> QED BY <3>1, <3>2
  <2>4. sent' \o ToWrite' = asked'
    BY <2>2, <2>3, ConcatEmptySeq
  <2>5. WriteGoesOn'
    BY <2>2, <2>4 DEF WriteGoesOn
  <2> QED BY <1>0, <1>3, <2>2, <2>3, <2>5
<1>5. CASE Serial!WriteDone \/ Serial!WriteFails
  <2>1. rest' = <<>> /\ sent' = <<>> /\ asked' = <<>> /\ outQueue' = outQueue
    BY <1>5 DEF Serial!WriteDone, Serial!WriteFails, Serial!WriteEnds
  <2>2. ToWrite' = <<>> /\ Len(rest') = 0
    BY <2>1 DEF ToWrite
  <2>3. <<>> \o <<>> = <<>>
    BY <1>0, ConcatEmptySeq
  <2>4. WriteGoesOn'
    BY <2>1, <2>2, <2>3 DEF WriteGoesOn
  <2> QED BY <1>0, <1>3, <2>1, <2>2, <2>4
<1>6. CASE Serial!NextBuffer
  <2>1. rest # <<>> /\ rest[1] = <<>> /\ rest' = Tail(rest) /\ UNCHANGED <<outQueue, sent, asked>> /\ portCall' = "write"
    BY <1>0, <1>6 DEF Serial!NextBuffer
  <2>2. Len(rest) \in 1..2 /\ rest' \in Seq(Seq(Symbols)) /\ Len(rest') = Len(rest) - 1 /\ \A i \in 1..Len(rest') : rest'[i] = rest[i + 1]
    BY <1>0, <2>1, HeadTailProperties, EmptySeq
  <2>3. ToWrite' = ToWrite
    <3>1. CASE Len(rest) = 1
      BY <2>1, <2>2, <3>1 DEF ToWrite
    <3>2. CASE Len(rest) = 2
      <4>1. rest'[1] = rest[2] /\ Len(rest') = 1 /\ rest[2] \in Seq(Symbols)
        <5>1. 2 \in 1..Len(rest)
          BY <3>2
        <5>2. rest[2] \in Seq(Symbols)
          BY <1>0, <5>1, ElementOfSeq
        <5>3. Len(rest') = 1 /\ rest'[1] = rest[1 + 1]
          BY <2>2, <3>2
        <5> QED BY <5>2, <5>3
      <4>2. <<>> \o rest[2] = rest[2]
        BY <4>1, NoMore
      <4>3. ToWrite = rest[1] \o rest[2] /\ ToWrite' = rest'[1]
        BY <3>2, <4>1 DEF ToWrite
      <4> QED BY <2>1, <4>1, <4>2, <4>3
    <3> QED BY <2>2, <3>1, <3>2
  <2>4. WriteGoesOn'
    <3>1. asked = sent \o ToWrite
      BY <1>0 DEF WriteGoesOn
    <3>2. asked' = sent' \o ToWrite'
      BY <2>1, <2>3, <3>1
    <3> QED BY <2>1, <3>2 DEF WriteGoesOn
  <2>5. sent' \in Seq(Symbols) /\ asked' \in Seq(Symbols) /\ outQueue' \in 0..Room
    BY <1>0, <2>1
  <2>6. rest' \in Seq(Seq(Symbols)) /\ Len(rest') <= 2
    <3>1. PICK n \in 1..2 : n = Len(rest)
      BY <2>2
    <3>2. n - 1 <= 2
      OBVIOUS
    <3>3. Len(rest') = n - 1
      BY <2>2, <3>1
    <3>4. Len(rest') <= 2
      BY <3>2, <3>3, Zenon
    <3> QED BY <2>2, <3>4, Zenon
  <2> QED BY <1>3, <2>4, <2>5, <2>6
<1>7. CASE Serial!WriteStep
  <2> DEFINE n == Serial!Least(Room - outQueue, Len(Head(rest)))
  <2>1. rest # <<>> /\ outQueue < Room /\ portCall' = "write" /\ asked' = asked /\ Len(rest) \in 1..2
        /\ Head(rest) = rest[1] /\ rest[1] \in Seq(Symbols)
    BY <1>0, <1>7, HeadTailProperties, EmptySeq DEF Serial!WriteStep
  <2>2. n \in 0..Len(rest[1]) /\ outQueue + n \in 0..Room
    <3>1. Len(rest[1]) \in Nat
      BY <2>1, LenProperties
    <3> QED BY <1>0, <2>1, <3>1 DEF Serial!Least
  <2>3. /\ outQueue' = outQueue + n /\ sent' = sent \o SubSeq(rest[1], 1, n)
        /\ rest' = [rest EXCEPT ![1] = SubSeq(rest[1], n + 1, Len(rest[1]))]
    BY <1>7, <2>1 DEF Serial!WriteStep
  <2> HIDE DEF n
  <2>4. PICK a \in Seq(Symbols), b \in Seq(Symbols) :
          /\ a \o b = rest[1] /\ sent' = sent \o a /\ rest' = [rest EXCEPT ![1] = b]
    BY <2>1, <2>2, <2>3, CutInTwo
  <2>5. /\ rest' \in Seq(Seq(Symbols)) /\ Len(rest') = Len(rest) /\ rest'[1] = b
        /\ Len(rest) = 2 => rest'[2] = rest[2] /\ rest[2] \in Seq(Symbols)
    BY <1>0, <2>1, <2>4, ExceptSeq
  <2>6. sent' \in Seq(Symbols)
    BY <1>0, <2>4, ConcatProperties
  <2>7. sent' \o ToWrite' = sent \o ToWrite
    <3>1. CASE Len(rest) = 1
      <4>1. ToWrite = a \o b /\ ToWrite' = b
        BY <2>4, <2>5, <3>1 DEF ToWrite
      <4>2. sent \in Seq(Symbols)
        BY <1>0
      <4>3. (sent \o a) \o b = sent \o (a \o b)
        BY <4>2, ConcatAssociative
      <4> QED BY <2>4, <4>1, <4>3
    <3>2. CASE Len(rest) = 2
      <4>1. ToWrite = (a \o b) \o rest[2] /\ ToWrite' = b \o rest[2]
        <5>1. ToWrite = rest[1] \o rest[2] /\ ToWrite' = rest'[1] \o rest'[2]
          BY <2>5, <3>2 DEF ToWrite
        <5> QED BY <2>4, <2>5, <3>2, <5>1
      <4>2. (a \o b) \o rest[2] = a \o (b \o rest[2]) /\ b \o rest[2] \in Seq(Symbols)
        BY <2>5, <3>2, ConcatAssociative, Gives
      <4>3. (sent \o a) \o (b \o rest[2]) = sent \o (a \o (b \o rest[2]))
        <5>1. sent \in Seq(Symbols)
          BY <1>0
        <5>2. PICK more \in Seq(Symbols) : more = b \o rest[2]
          BY <4>2
        <5>3. (sent \o a) \o more = sent \o (a \o more)
          BY <5>1, ConcatAssociative
        <5> QED BY <5>2, <5>3
      <4> QED BY <2>4, <4>1, <4>2, <4>3
    <3> QED BY <2>1, <3>1, <3>2
  <2>8. WriteGoesOn'
    <3>1. asked = sent \o ToWrite
      BY <1>0 DEF WriteGoesOn
    <3>2. asked' = sent' \o ToWrite'
      BY <2>1, <2>7, <3>1
    <3> QED BY <2>1, <3>2 DEF WriteGoesOn
  <2>9. asked' \in Seq(Symbols) /\ outQueue' \in 0..Room
    BY <1>0, <2>1, <2>2, <2>3
  <2>10. rest' \in Seq(Seq(Symbols)) /\ Len(rest') <= 2
    <3>1. PICK lists \in 1..2 : lists = Len(rest)
      BY <2>1
    <3>2. lists <= 2
      OBVIOUS
    <3>3. Len(rest') <= 2
      BY <2>5, <3>1, <3>2, Zenon
    <3> QED BY <2>5, <3>3, Zenon
  <2> QED BY <1>3, <2>6, <2>8, <2>9, <2>10
<1> QED BY <1>4, <1>5, <1>6, <1>7

LEMMA SerialKeeps == SerialInv /\ [Serial!Next]_portVars => SerialInv'
<1> SUFFICES ASSUME SerialInv, [Serial!Next]_portVars PROVE SerialInv'
  OBVIOUS
<1>1. CASE UNCHANGED portVars
  BY <1>1 DEF portVars, Serial!how, Serial!reading, Serial!writing, SerialInv, SerialTypes, Serial!TypeOK, WhoHasBytes, InOrder, HadOf, WriteGoesOn, ToWrite
<1>2. CASE Serial!Next
  BY <1>2, LineKeeps, PortKeeps, ReadsKeep, ReadsGet, ReadExistingKeeps, WritesKeep DEF Serial!Next, Serial!CallStep
<1> QED BY <1>1, <1>2

LEMMA SerialHolds == SerialInv => Serial!TypeOK /\ Serial!WrittenOnce /\ Serial!BytesInOrder
<1> SUFFICES ASSUME SerialInv PROVE Serial!TypeOK /\ Serial!WrittenOnce /\ Serial!BytesInOrder
  OBVIOUS
<1>0. /\ Serial!TypeOK /\ sent \in Seq(Symbols) /\ past \in Seq(Symbols) /\ kept \in Seq(Symbols) /\ text \in Seq(Symbols)
      /\ rest \in Seq(Seq(Symbols)) /\ Len(rest) \in 0..2
  <2>1. Serial!TypeOK /\ Len(rest) <= 2
    BY DEF SerialInv, SerialTypes
  <2>2. rest \in Seq(Seq(Symbols))
    BY <2>1 DEF Serial!TypeOK
  <2>3. Len(rest) \in 0..2
    <3>1. PICK n \in Nat : n = Len(rest)
      BY <2>2, LenProperties
    <3>2. n <= 2
      BY <2>1, <3>1
    <3>3. n \in 0..2
      BY <3>2
    <3> QED BY <3>1, <3>3
  <2> QED BY <2>1, <2>2, <2>3 DEF Serial!TypeOK
<1>1. ToWrite \in Seq(Symbols)
  BY <1>0, ConcatProperties, ElementOfSeq DEF ToWrite
<1>2. Serial!WrittenOnce
  <2>1. asked = sent \o ToWrite
    BY DEF SerialInv, WriteGoesOn
  <2>2. rest = <<>> => sent = asked
    BY <1>0, <2>1, ConcatEmptySeq DEF ToWrite
  <2> QED BY <1>0, <1>1, <2>1, <2>2, BeginsWith DEF Serial!WrittenOnce
<1>3. Serial!BytesInOrder
  <2>1. PICK more \in Seq(Symbols) : HadOf \o more = arrived /\ (portOpen /\ port = "there" => more = kernel)
    BY DEF SerialInv, InOrder
  <2>2. past \o text \in Seq(Symbols) /\ kept \o more \in Seq(Symbols) /\ (past \o text) \o (kept \o more) = arrived
    <3>1. past \o text \in Seq(Symbols) /\ kept \o more \in Seq(Symbols)
      BY <1>0, Gives
    <3>2. PICK had \in Seq(Symbols) : had = past \o text
      BY <3>1
    <3>3. kept \in Seq(Symbols)
      BY <1>0
    <3>4. had \o kept \o more = had \o (kept \o more)
      BY <3>3, ConcatAssociative
    <3> QED BY <2>1, <3>1, <3>2, <3>4 DEF HadOf
  <2> QED BY <2>1, <2>2, BeginsWith DEF Serial!BytesInOrder, HadOf
<1> QED BY <1>0, <1>2, <1>3

-----------------------------------------------------------------------------
(* The seven together: a step of one leaves the others as they are.        *)

DevicesInv ==
  /\ UIInv /\ CommandsInv /\ UsbInv /\ InputInv /\ TouchInv /\ SoundInv /\ SerialInv

LEMMA DevicesBegin == Init => DevicesInv
BY UIInvInit, CommandsBegin, UsbBegins, InputBegins, TouchBegins, SoundBegins, SerialBegins
   DEF Init, DevicesInv

\* Each component goes on by itself.
LEMMA EachGoesOn ==
  ASSUME [Next]_<<subject, uiVars, usbVars, inputVars, touchVars, soundVars, portVars, runVars>>
  PROVE  /\ [UINext]_uiVars /\ [Usb!Next]_usbVars /\ [Input!Next]_inputVars
         /\ [Touch!Next]_touchVars /\ [Sound!Next]_soundVars /\ [Serial!Next]_portVars
         /\ [Tools!Next]_runVars
BY DEF Next

LEMMA DevicesKeep ==
  ASSUME DevicesInv,
         [Next]_<<subject, uiVars, usbVars, inputVars, touchVars, soundVars, portVars, runVars>>
  PROVE  DevicesInv'
<1>1. UIInv'
  BY EachGoesOn, UIInvNext DEF DevicesInv
<1>2. CommandsInv'
  BY EachGoesOn, CommandsKeep DEF DevicesInv
<1>3. UsbInv'
  BY EachGoesOn, UsbKeeps DEF DevicesInv
<1>4. InputInv'
  BY EachGoesOn, InputKeeps DEF DevicesInv
<1>5. TouchInv'
  BY EachGoesOn, TouchKeeps DEF DevicesInv
<1>6. SoundInv'
  BY EachGoesOn, SoundKeeps DEF DevicesInv
<1>7. SerialInv'
  BY EachGoesOn, SerialKeeps DEF DevicesInv
<1> QED BY <1>1, <1>2, <1>3, <1>4, <1>5, <1>6, <1>7 DEF DevicesInv

\* The invariant of the seven holds throughout.
LEMMA DevicesHold == Spec => []DevicesInv
BY DevicesBegin, DevicesKeep, PTL DEF Spec

\* All that the seven keep has its types, for any number of threads, timers,
\* interfaces, fingers, symbols and tools.
THEOREM DevicesTypes == Spec => []TypeOK
<1>1. DevicesInv => TypeOK
  <2> SUFFICES ASSUME DevicesInv PROVE TypeOK
    OBVIOUS
  <2>1. UITypeOK
    BY DEF DevicesInv, UIInv, UITypes
  <2>2. Usb!TypeOK /\ Input!TypeOK /\ Touch!TypeOK
    BY UsbHolds, InputHolds, TouchHolds DEF DevicesInv
  <2>3. Sound!TypeOK /\ Serial!TypeOK /\ Tools!TypeOK
    BY SoundHolds, SerialHolds, CommandsHold DEF DevicesInv
  <2> QED BY <2>1, <2>2, <2>3 DEF TypeOK
<1> QED BY <1>1, DevicesHold, PTL

\* LVGL is given one display at most, also while the program uses the others.
THEOREM DevicesOneDisplay == Spec => []OneDisplay
<1>1. DevicesInv => OneDisplay
  BY DEF DevicesInv, UIInv, StartsAlone, OneDisplay
<1> QED BY <1>1, DevicesHold, PTL

\* An interface is given back to its driver, a sound device and a recording's file
\* to the system, and a tool's pipes with all that it said; what is played and what
\* is written goes out once, and whole.
THEOREM DevicesGiveBack == Spec => []AllGivenBack
<1>1. DevicesInv => AllGivenBack
  <2> SUFFICES ASSUME DevicesInv PROVE AllGivenBack
    OBVIOUS
  <2>1. Usb!DriversBack /\ Sound!RecordsItAll /\ Sound!PlaysItAll
    BY UsbHolds, SoundHolds DEF DevicesInv
  <2>2. Tools!NothingLeft /\ Serial!WrittenOnce
    BY SerialHolds, CommandsHold DEF DevicesInv
  <2> QED BY <2>1, <2>2 DEF AllGivenBack
<1> QED BY <1>1, DevicesHold, PTL

\* No callback after a destructor came back, none after Disconnected, and none of a
\* timer that was deleted before its trampoline had the slot, on whatever thread.
THEOREM DevicesLastCall == Spec => []NoCallAfterClose
<1>1. Init => FiresLive
  BY FiresBegin DEF Init
<1>2. /\ DevicesInv /\ DevicesInv' /\ FiresLive
      /\ [Next]_<<subject, uiVars, usbVars, inputVars, touchVars, soundVars, portVars, runVars>>
      => FiresLive'
  BY EachGoesOn, FiresKeep DEF DevicesInv, UIInv, UITypes
<1>3. DevicesInv /\ FiresLive => NoCallAfterClose
  <2> SUFFICES ASSUME DevicesInv, FiresLive PROVE NoCallAfterClose
    OBVIOUS
  <2>1. Usb!NoCallAfterClose /\ Input!LastCall /\ Touch!NoCallAfterClose
    BY UsbHolds, InputHolds, TouchHolds DEF DevicesInv
  <2>2. NoDeletedFires
    BY DEF FiresLive
  <2> QED BY <2>1, <2>2 DEF NoCallAfterClose
<1> QED BY <1>1, <1>2, <1>3, DevicesHold, PTL DEF Spec

\* What a port's calls have read, of whatever mixture and length, is how what came
\* in begins; and nothing that came in is lost while the port is open.
THEOREM PortKeepsOrder == Spec => []Serial!BytesInOrder
<1>1. DevicesInv => Serial!BytesInOrder
  BY SerialHolds DEF DevicesInv
<1> QED BY <1>1, DevicesHold, PTL

\* Run does not wait for a tool that has ended.
THEOREM ToolsEndIsSeen == Spec => []Tools!EndIsSeen
<1>1. DevicesInv => Tools!EndIsSeen
  BY CommandsHold DEF DevicesInv
<1> QED BY <1>1, DevicesHold, PTL

===============================================================================

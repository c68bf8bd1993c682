---------------------------- MODULE UsbHost_proofs ----------------------------
(***************************************************************************)
(* Proofs about UsbHost for any paths, functions, controllers and threads: *)
(* its types, that no callback is called after Disable, and that nothing   *)
(* that a controller is to be told is lost or left over.                   *)
(***************************************************************************)
EXTENDS UsbHost, FiniteSetTheorems, SequenceTheorems, WellFoundedInduction, TLAPS

-----------------------------------------------------------------------------
Devices == [id : Nat, num : Numbers, functions : SUBSET Shown, loaded : BOOLEAN, aged : BOOLEAN]
Hosts ==
  [devices : [Paths -> Devices], due : [Paths -> {"no", "soon", "late", "now"}],
   events : Seq(EventType), enabled : SUBSET Controllers, nextId : Nat \ {0},
   wake : BOOLEAN, enables : Nat]
Places == [num : Numbers, functions : SUBSET Functions, driver : {"none", "module", "bound"}]
Kernels ==
  [messages : Seq({"add", "remove", "below"} \X Paths), plugs : Numbers, makes : Nat,
   lost : Nat, listening : BOOLEAN]
Watchers ==
  [pc : {"none", "scan", "load", "pop", "pick", "notify", "call", "poll", "receive"},
   load : SUBSET Paths, event : EventType \cup {None}, targets : SUBSET Controllers,
   now : Controllers \cup {None}]
ThreadStates ==
  [in : {"none", "bind", "list", "disable"}, of : Controllers \cup {None}, left : SUBSET Paths]

Types ==
  /\ sys \in [Paths -> Places] /\ kernel \in Kernels /\ host \in Hosts
  /\ watcher \in Watchers /\ thread \in [Threads -> ThreadStates]
  /\ \A t \in Threads : thread[t].in # "none" => thread[t].of \in Controllers
  /\ told \in [Controllers -> SUBSET ((1..(host.nextId - 1)) \X Shown)]
  /\ quiet \subseteq Controllers

\* A device has a handle of its own, one that was given out.
IdsOK(h) ==
  /\ \A p \in Paths : h.devices[p].id < h.nextId /\ (h.devices[p] = NoDevice \/ h.devices[p].id # 0)
  /\ \A p, q \in Paths : p # q /\ h.devices[p].id = h.devices[q].id => h.devices[p].id = 0

\* What is due is a device, but for one that went while modprobe ran.
DueOK(h, scanning) ==
  \A p \in Paths : h.due[p] # "no" => h.devices[p] # NoDevice \/ (scanning /\ h.due[p] = "now")

\* Something with the handle id gives the function f now.
Given(h, id, f) == \E p \in Paths : h.devices[p].id = id /\ f \in h.devices[p].functions

\* Behind position i of the queue there is an event for every controller about it.
AllBehind(h, i, id, f) ==
  \E j \in (i + 1)..Len(h.events) :
    h.events[j].to = All /\ h.events[j].id = id /\ h.events[j].function = f

\* An event is about a handle that was given out, and says what is so now, unless
\* one for every controller corrects it behind position i of the queue.
Right(h, i, e) ==
  /\ e.id \in 1..(h.nextId - 1)
  /\ ~AllBehind(h, i, e.id, e.function) => (e.on <=> Given(h, e.id, e.function))

QueueOK(h) == \A i \in 1..Len(h.events) : Right(h, i, h.events[i])

\* The event that is being delivered, and its targets
CurrentOK ==
  IF watcher.pc \in {"pick", "notify", "call"}
  THEN watcher.event \in EventType /\ Right(host, 0, watcher.event)
  ELSE watcher.targets = {}

\* What no event is on its way about was told right.
NoneQueued(h, c, id, f) == \A i \in 1..Len(h.events) : ~Tells(h.events[i], c, id, f)
ToldOK ==
  \A c \in host.enabled, id \in 1..(host.nextId - 1), f \in Shown :
    /\ NoneQueued(host, c, id, f)
    /\ ~(AboutToHear(c) /\ Tells(watcher.event, c, id, f))
    => (<<id, f>> \in told[c] <=> Given(host, id, f))

\* Only one thread is in Start, and the watcher's does not run yet.
StartOK ==
  \A t \in Threads : thread[t].in \in {"bind", "list"} =>
    watcher.pc = "none" /\ \A u \in Threads : thread[u].in \in {"bind", "list"} => u = t

\* The controller that is about to be called is not one whose Disable is over.
QuietOK ==
  /\ quiet \cap host.enabled = {}
  /\ watcher.pc = "notify" => watcher.now \in Controllers \ quiet

HostInv ==
  /\ Types /\ IdsOK(host) /\ DueOK(host, watcher.pc = "scan")
  /\ QueueOK(host) /\ CurrentOK /\ ToldOK /\ StartOK /\ QuietOK

-----------------------------------------------------------------------------
\* SetToSeq lists a finite set: all of its members and no other.
LEMMA Lists ==
  ASSUME NEW F, IsFiniteSet(F)
  PROVE  /\ SetToSeq(F) \in Seq(F) /\ Len(SetToSeq(F)) \in Nat
         /\ \A i \in 1..Len(SetToSeq(F)) : SetToSeq(F)[i] \in F
         /\ \A x \in F : \E i \in 1..Len(SetToSeq(F)) : SetToSeq(F)[i] = x
<1> DEFINE c == Cardinality(F)
           q == SetToSeq(F)
<1>1. c \in Nat /\ ExistsBijection(1..c, F)
  BY FS_CardinalityType
<1>2. \E g \in [1..c -> F] : IsInjective(g)
  BY <1>1 DEF ExistsBijection, Bijection, Injection
<1>3. q = CHOOSE g \in [1..c -> F] : IsInjective(g)
  BY DEF SetToSeq
<1>4. q \in [1..c -> F] /\ IsInjective(q)
  BY <1>2, <1>3
<1> HIDE DEF q
<1>5. q \in Seq(F) /\ Len(q) = c
  BY <1>1, <1>4
<1>6. IsFiniteSet(1..c) /\ Cardinality(1..c) = c
  BY <1>1, FS_Interval
<1>7. q \in Surjection(1..c, F)
  <2>1. q \in Injection(1..c, F)
    BY <1>4 DEF Injection
  <2> QED BY <2>1, <1>6, FS_Injection
<1>8. \A x \in F : \E i \in 1..c : q[i] = x
  BY <1>7 DEF Surjection
<1> QED BY <1>1, <1>4, <1>5, <1>8 DEF q

LEMMA ShownFinite == IsFiniteSet(Shown)
BY SetsAssumption, FS_AddElement DEF Shown

\* The events about a device's functions: one for each of them.
EventsAre(es, to, id, F, on) ==
  /\ es \in Seq(EventType) /\ Len(es) \in Nat
  /\ \A i \in 1..Len(es) : es[i].to = to /\ es[i].id = id /\ es[i].function \in F /\ (es[i].on <=> on)
  /\ \A f \in F : \E i \in 1..Len(es) : es[i].function = f

LEMMA EventsForAre ==
  ASSUME NEW to \in Controllers \cup {All}, NEW device \in Devices, NEW F, F \subseteq Shown,
         NEW on \in BOOLEAN
  PROVE  EventsAre(EventsFor(to, device, F, on), to, device.id, F, on)
<1> DEFINE order == SetToSeq(F)
<1>1. IsFiniteSet(F)
  BY ShownFinite, FS_Subset
<1>2. /\ Len(order) \in Nat /\ \A i \in 1..Len(order) : order[i] \in F
      /\ \A f \in F : \E i \in 1..Len(order) : order[i] = f
  BY <1>1, Lists
<1> DEFINE es == EventsFor(to, device, F, on)
<1>3. es = [i \in 1..Len(order) |-> Event(to, device, order[i], on)]
  BY DEF EventsFor
<1> HIDE DEF order, es
<1>4. \A i \in 1..Len(order) : Event(to, device, order[i], on) \in EventType
  BY <1>2 DEF Event, EventType, Devices
<1>5. es \in Seq(EventType) /\ Len(es) = Len(order)
  BY <1>2, <1>3, <1>4
<1>6. \A i \in 1..Len(es) :
        es[i].to = to /\ es[i].id = device.id /\ es[i].function = order[i] /\ (es[i].on <=> on)
  BY <1>3, <1>5 DEF Event
<1>7. EventsAre(es, to, device.id, F, on)
  BY <1>2, <1>5, <1>6 DEF EventsAre
<1> QED BY <1>7 DEF es

-----------------------------------------------------------------------------
\* h2 is h with the events es behind its own: they say what is so now, and for
\* every controller what changed.
Announces(h, h2, es) ==
  /\ es \in Seq(EventType) /\ h2.events = h.events \o es /\ h2.nextId >= h.nextId
  /\ \A i \in 1..Len(es) : /\ es[i].on <=> Given(h2, es[i].id, es[i].function)
                           /\ es[i].id \in 1..(h2.nextId - 1)
  /\ \A id \in Nat, f \in Shown :
       \/ Given(h2, id, f) <=> Given(h, id, f)
       \/ \E i \in 1..Len(es) : es[i].to = All /\ es[i].id = id /\ es[i].function = f

\* What is in the queue h.events \o es, and where.
LEMMA Concatenated ==
  ASSUME NEW h, NEW h2, h.events \in Seq(EventType), NEW es \in Seq(EventType),
         h2.events = h.events \o es
  PROVE  /\ Len(h.events) \in Nat /\ Len(es) \in Nat /\ Len(h2.events) = Len(h.events) + Len(es)
         /\ h2.events \in Seq(EventType)
         /\ \A i \in 1..Len(h.events) : h2.events[i] = h.events[i] /\ h.events[i] \in EventType
         /\ \A i \in 1..Len(es) : h2.events[Len(h.events) + i] = es[i] /\ es[i] \in EventType
<1>1. Len(h.events) \in Nat /\ Len(es) \in Nat
  BY LenProperties
<1>2. /\ h2.events \in Seq(EventType) /\ Len(h2.events) = Len(h.events) + Len(es)
      /\ \A i \in 1..(Len(h.events) + Len(es)) :
           h2.events[i] = IF i <= Len(h.events) THEN h.events[i] ELSE es[i - Len(h.events)]
  BY ConcatProperties
<1>3. /\ \A i \in 1..Len(h.events) : h.events[i] \in EventType
      /\ \A i \in 1..Len(es) : es[i] \in EventType
  BY ElementOfSeq
<1>4. \A i \in 1..Len(es) : h2.events[Len(h.events) + i] = es[i]
  <2> SUFFICES ASSUME NEW i \in 1..Len(es) PROVE h2.events[Len(h.events) + i] = es[i]
    OBVIOUS
  <2>1. /\ Len(h.events) + i \in 1..(Len(h.events) + Len(es)) /\ ~(Len(h.events) + i <= Len(h.events))
        /\ Len(h.events) + i - Len(h.events) = i
    BY <1>1
  <2> QED BY <1>2, <2>1
<1> QED BY <1>1, <1>2, <1>3, <1>4

\* What was right, or corrected, stays so.
LEMMA StaysRight ==
  ASSUME NEW h, NEW h2, NEW es, h.events \in Seq(EventType), Announces(h, h2, es),
         h.nextId \in Nat, h2.nextId \in Nat,
         NEW i \in 0..Len(h.events), NEW e \in EventType, Right(h, i, e)
  PROVE  Right(h2, i, e)
<1>0. e.id \in 1..(h2.nextId - 1)
  BY DEF Right, Announces
<1> SUFFICES ASSUME ~AllBehind(h2, i, e.id, e.function) PROVE e.on <=> Given(h2, e.id, e.function)
  BY <1>0 DEF Right
<1>1. /\ Len(h.events) \in Nat /\ Len(es) \in Nat /\ Len(h2.events) = Len(h.events) + Len(es)
      /\ \A j \in 1..Len(h.events) : h2.events[j] = h.events[j]
      /\ \A j \in 1..Len(es) : h2.events[Len(h.events) + j] = es[j]
  BY Concatenated DEF Announces
<1>2. ~AllBehind(h, i, e.id, e.function)
  <2>1. \A j \in (i + 1)..Len(h.events) : j \in (i + 1)..Len(h2.events) /\ h2.events[j] = h.events[j]
    BY <1>1
  <2> QED BY <2>1 DEF AllBehind
<1>3. ASSUME NEW j \in 1..Len(es), es[j].to = All, es[j].id = e.id, es[j].function = e.function
      PROVE  FALSE
  <2>1. Len(h.events) + j \in (i + 1)..Len(h2.events)
    BY <1>1
  <2>2. h2.events[Len(h.events) + j] = es[j]
    BY <1>1
  <2> QED BY <1>3, <2>1, <2>2 DEF AllBehind
<1>4. e.id \in Nat /\ e.function \in Shown
  BY DEF EventType
<1>5. Given(h2, e.id, e.function) <=> Given(h, e.id, e.function)
  BY <1>3, <1>4 DEF Announces
<1> QED BY <1>2, <1>5 DEF Right

LEMMA AnnouncesQueue ==
  ASSUME NEW h, NEW h2, NEW es, h.events \in Seq(EventType), Announces(h, h2, es), QueueOK(h),
         h.nextId \in Nat, h2.nextId \in Nat
  PROVE  QueueOK(h2)
<1>1. /\ Len(h.events) \in Nat /\ Len(es) \in Nat /\ Len(h2.events) = Len(h.events) + Len(es)
      /\ \A j \in 1..Len(h.events) : h2.events[j] = h.events[j] /\ h.events[j] \in EventType
      /\ \A j \in 1..Len(es) : h2.events[Len(h.events) + j] = es[j]
  BY Concatenated DEF Announces
<1> SUFFICES ASSUME NEW i \in 1..Len(h2.events) PROVE Right(h2, i, h2.events[i])
  BY DEF QueueOK
<1>2. CASE i <= Len(h.events)
  <2>1. i \in 1..Len(h.events) /\ i \in 0..Len(h.events)
    BY <1>1, <1>2
  <2>2. Right(h, i, h.events[i])
    BY <2>1 DEF QueueOK
  <2>3. Right(h2, i, h.events[i])
    BY <1>1, <2>1, <2>2, StaysRight
  <2> QED BY <1>1, <2>1, <2>3
<1>3. CASE ~(i <= Len(h.events))
  <2>1. i - Len(h.events) \in 1..Len(es) /\ Len(h.events) + (i - Len(h.events)) = i
    BY <1>1, <1>3
  <2>2. h2.events[i] = es[i - Len(h.events)]
    BY <1>1, <2>1
  <2> QED BY <2>1, <2>2 DEF Announces, Right
<1> QED BY <1>2, <1>3

\* A step that announces what it changes, and delivers nothing, keeps the words right.
WordsOK == QueueOK(host) /\ CurrentOK /\ ToldOK

LEMMA AnnouncesKeeps ==
  ASSUME Types, IdsOK(host), WordsOK, NEW es, Announces(host, host', es), host'.nextId \in Nat,
         UNCHANGED <<watcher.event, watcher.targets, watcher.now>>,
         watcher'.pc = watcher.pc \/ {watcher.pc, watcher'.pc} \cap {"pick", "notify", "call"} = {},
         \A c \in host'.enabled :
           \/ c \in host.enabled /\ told'[c] = told[c]
           \/ /\ told'[c] = {}
              /\ \A id \in Nat, f \in Shown : Given(host', id, f) =>
                   \E i \in 1..Len(es) : Tells(es[i], c, id, f)
  PROVE  WordsOK'
<1>1. host.events \in Seq(EventType) /\ host.nextId \in Nat /\ watcher \in Watchers
  BY DEF Types, Hosts
<1>2. QueueOK(host')
  BY <1>1, AnnouncesQueue DEF WordsOK
<1>3. CurrentOK'
  <2>1. CASE watcher'.pc \in {"pick", "notify", "call"}
    <3>1. watcher.pc = watcher'.pc /\ watcher.event \in EventType /\ Right(host, 0, watcher.event)
      BY <2>1 DEF WordsOK, CurrentOK
    <3>2. 0 \in 0..Len(host.events)
      BY <1>1, LenProperties
    <3>3. Right(host', 0, watcher.event)
      BY <1>1, <3>1, <3>2, StaysRight
    <3> QED BY <2>1, <3>1, <3>3 DEF CurrentOK
  <2>2. CASE watcher'.pc \notin {"pick", "notify", "call"}
    BY <2>2 DEF WordsOK, CurrentOK
  <2> QED BY <2>1, <2>2
<1>4. ToldOK'
  <2> SUFFICES ASSUME NEW c \in host'.enabled, NEW id \in 1..(host'.nextId - 1), NEW f \in Shown,
                      NoneQueued(host', c, id, f),
                      ~(AboutToHear(c)' /\ Tells(watcher.event, c, id, f))
               PROVE  <<id, f>> \in told'[c] <=> Given(host', id, f)
    BY DEF ToldOK
  <2>1. /\ Len(host.events) \in Nat /\ Len(es) \in Nat
        /\ Len(host'.events) = Len(host.events) + Len(es)
        /\ \A j \in 1..Len(host.events) : host'.events[j] = host.events[j]
        /\ \A j \in 1..Len(es) : host'.events[Len(host.events) + j] = es[j]
    BY <1>1, Concatenated DEF Announces
  <2>2. NoneQueued(host, c, id, f)
    BY <2>1 DEF NoneQueued
  <2>3. ASSUME NEW j \in 1..Len(es), Tells(es[j], c, id, f) PROVE FALSE
    <3>1. Len(host.events) + j \in 1..Len(host'.events)
      BY <2>1
    <3>2. Tells(host'.events[Len(host.events) + j], c, id, f)
      BY <2>1, <2>3
    <3> QED BY <3>1, <3>2 DEF NoneQueued
  <2>4. Given(host', id, f) <=> Given(host, id, f)
    <3>1. id \in Nat
      OBVIOUS
    <3> QED BY <2>3, <3>1 DEF Announces, Tells
  <2>5. CASE c \in host.enabled /\ told'[c] = told[c]
    <3>1. AboutToHear(c)' <=> AboutToHear(c)
      BY DEF AboutToHear
    <3>2. CASE id \in 1..(host.nextId - 1)
      BY <2>2, <2>4, <2>5, <3>1, <3>2 DEF WordsOK, ToldOK
    <3>3. CASE id \notin 1..(host.nextId - 1)
      <4>1. <<id, f>> \notin told[c]
        <5>1. told[c] \subseteq (1..(host.nextId - 1)) \X Shown
          BY <2>5 DEF Types, Hosts
        <5> QED BY <3>3, <5>1
      <4>2. ~Given(host, id, f)
        <5>1. \A p \in Paths : host.devices[p].id \in 0..(host.nextId - 1) /\ id # 0
          BY <1>1 DEF IdsOK, Types, Hosts, Devices
        <5>2. \A p \in Paths : host.devices[p] = NoDevice => host.devices[p].functions = {}
          BY DEF NoDevice
        <5> QED BY <3>3, <5>1, <5>2 DEF Given, IdsOK
      <4> QED BY <2>4, <2>5, <4>1, <4>2
    <3> QED BY <3>2, <3>3
  <2>6. CASE /\ told'[c] = {}
             /\ \A i \in Nat, g \in Shown : Given(host', i, g) =>
                  \E k \in 1..Len(es) : Tells(es[k], c, i, g)
    <3>1. id \in Nat
      OBVIOUS
    <3>2. ~Given(host', id, f)
      BY <2>3, <2>6, <3>1
    <3> QED BY <2>6, <3>2
  <2> QED BY <2>5, <2>6
<1> QED BY <1>2, <1>3, <1>4 DEF WordsOK

-----------------------------------------------------------------------------
\* What the steps under the gate do to the devices and the queue.
HostOK(h, scanning) == h \in Hosts /\ IdsOK(h) /\ DueOK(h, scanning)
Told(h, h2, scanning) ==
  HostOK(h2, scanning) /\ h2.enabled = h.enabled /\ \E es : Announces(h, h2, es)

LEMMA Fields ==
  ASSUME NEW h \in Hosts
  PROVE  /\ h.devices \in [Paths -> Devices] /\ h.due \in [Paths -> {"no", "soon", "late", "now"}]
         /\ h.events \in Seq(EventType) /\ h.enabled \in SUBSET Controllers
         /\ h.nextId \in Nat \ {0} /\ h.wake \in BOOLEAN /\ h.enables \in Nat
BY DEF Hosts

LEMMA NoDeviceIs ==
  /\ NoDevice \in Devices /\ NoDevice.id = 0 /\ NoDevice.num = 0 /\ NoDevice.functions = {}
  /\ NoDevice.loaded = FALSE /\ NoDevice.aged = FALSE
BY BoundsAssumption DEF NoDevice, Devices, Numbers

\* With nothing new nothing is announced.
LEMMA NothingNew ==
  ASSUME NEW h \in Hosts, NEW h2 \in Hosts, h2.events = h.events,
         h2.nextId >= h.nextId, \A id \in Nat, f \in Shown : Given(h2, id, f) <=> Given(h, id, f)
  PROVE  Announces(h, h2, <<>>)
<1>1. <<>> \in Seq(EventType) /\ Len(<<>>) = 0 /\ h.events \o <<>> = h.events
  BY Fields
<1> QED BY <1>1 DEF Announces

LEMMA Further ==
  ASSUME NEW h, NEW h2, NEW h3, NEW es, Announces(h, h2, es),
         h3.events = h2.events, h3.nextId \in Nat, h2.nextId \in Nat, h.nextId \in Nat,
         h3.nextId >= h2.nextId, \A id \in Nat, f \in Shown : Given(h3, id, f) <=> Given(h2, id, f)
  PROVE  Announces(h, h3, es)
<1>1. \A i \in 1..Len(es) : es[i].id \in Nat /\ es[i].function \in Shown
  <2>1. es \in Seq(EventType)
    BY DEF Announces
  <2>2. \A i \in 1..Len(es) : es[i] \in EventType
    BY <2>1, ElementOfSeq
  <2> QED BY <2>2 DEF EventType
<1>2. \A i \in 1..Len(es) : es[i].id \in 1..(h3.nextId - 1)
  BY DEF Announces
<1>3. \A i \in 1..Len(es) : es[i].on <=> Given(h3, es[i].id, es[i].function)
  BY <1>1 DEF Announces
<1>4. /\ es \in Seq(EventType) /\ h3.events = h.events \o es /\ h3.nextId >= h.nextId
      /\ \A id \in Nat, f \in Shown :
           \/ Given(h3, id, f) <=> Given(h, id, f)
           \/ \E i \in 1..Len(es) : es[i].to = All /\ es[i].id = id /\ es[i].function = f
  BY DEF Announces
<1> QED BY <1>2, <1>3, <1>4 DEF Announces

LEMMA RemoveTold ==
  ASSUME NEW h, NEW scanning \in BOOLEAN, HostOK(h, scanning), NEW p \in Paths
  PROVE  /\ Told(h, RemoveDevice(h, p), scanning)
         /\ RemoveDevice(h, p).devices = [h.devices EXCEPT ![p] = NoDevice]
         /\ RemoveDevice(h, p).due = [h.due EXCEPT ![p] = "no"]
         /\ RemoveDevice(h, p).nextId = h.nextId
<1> DEFINE h2 == RemoveDevice(h, p)
           d == h.devices[p]
           es == EventsFor(All, d, d.functions, FALSE)
<1>0. h \in Hosts /\ IdsOK(h) /\ DueOK(h, scanning)
  BY DEF HostOK
<1>1. /\ h2 = [h EXCEPT !.due = [h.due EXCEPT ![p] = "no"],
                 !.devices = [h.devices EXCEPT ![p] = NoDevice], !.events = h.events \o es]
  BY <1>0 DEF RemoveDevice, Hosts
<1>2. d \in Devices /\ d.functions \in SUBSET Shown /\ d.id \in Nat
  BY <1>0, Fields DEF Devices
<1>3. /\ es \in Seq(EventType) /\ Len(es) \in Nat
      /\ \A i \in 1..Len(es) :
           es[i].to = All /\ es[i].id = d.id /\ es[i].function \in d.functions /\ ~es[i].on
      /\ \A f \in d.functions : \E i \in 1..Len(es) : es[i].function = f
  <2>1. EventsAre(es, All, d.id, d.functions, FALSE)
    BY <1>2, EventsForAre
  <2> HIDE DEF es, d
  <2> QED BY <2>1 DEF EventsAre
<1> HIDE DEF es, h2
<1>4. h.events \o es \in Seq(EventType)
  BY <1>0, <1>3, ConcatProperties, Fields
<1>5. /\ h2 \in Hosts /\ h2.devices = [h.devices EXCEPT ![p] = NoDevice]
      /\ h2.due = [h.due EXCEPT ![p] = "no"] /\ h2.events = h.events \o es
      /\ h2.enabled = h.enabled /\ h2.nextId = h.nextId
  BY <1>0, <1>1, <1>4, NoDeviceIs DEF Hosts
<1>6. h2.devices[p] = NoDevice /\ \A q \in Paths : q # p => h2.devices[q] = h.devices[q]
  BY <1>0, <1>5, Fields
<1>7. IdsOK(h2) /\ DueOK(h2, scanning)
  BY <1>0, <1>5, <1>6, Fields, NoDeviceIs DEF IdsOK, DueOK
<1>8. \A i \in 1..Len(es) : ~Given(h2, es[i].id, es[i].function)
  <2>1. ASSUME d.id # 0 PROVE \A q \in Paths : h2.devices[q].id # d.id
    BY <2>1, <1>0, <1>6, NoDeviceIs DEF IdsOK
  <2>2. ASSUME d.id = 0 PROVE d.functions = {}
    BY <2>2, <1>0, NoDeviceIs DEF IdsOK
  <2> QED BY <2>1, <2>2, <1>3 DEF Given
<1>9. \A id \in Nat, f \in Shown :
        \/ Given(h2, id, f) <=> Given(h, id, f)
        \/ \E i \in 1..Len(es) : es[i].id = id /\ es[i].function = f
  <2> SUFFICES ASSUME NEW id \in Nat, NEW f \in Shown, ~(d.id = id /\ f \in d.functions)
               PROVE  Given(h2, id, f) <=> Given(h, id, f)
    BY <1>3
  <2> QED BY <1>6, NoDeviceIs DEF Given
<1>10. \A i \in 1..Len(es) : es[i].id \in 1..(h2.nextId - 1)
  <2>1. d.functions # {} => d.id # 0 /\ d.id < h.nextId
    BY <1>0, NoDeviceIs DEF IdsOK
  <2>2. h.nextId \in Nat /\ h2.nextId = h.nextId /\ d.id \in Nat
    BY <1>0, <1>2, <1>5, Fields
  <2> SUFFICES ASSUME NEW i \in 1..Len(es) PROVE es[i].id \in 1..(h2.nextId - 1)
    OBVIOUS
  <2> HIDE DEF d
  <2>3. es[i].id = d.id /\ d.functions # {}
    BY <1>3
  <2> QED BY <2>1, <2>2, <2>3
<1>11. h2.nextId >= h.nextId
  BY <1>0, <1>5, Fields
<1>12. Announces(h, h2, es)
  <2>1. \A i \in 1..Len(es) : es[i].on <=> Given(h2, es[i].id, es[i].function)
    BY <1>3, <1>8
  <2>2. \A id \in Nat, f \in Shown :
          \/ Given(h2, id, f) <=> Given(h, id, f)
          \/ \E i \in 1..Len(es) : es[i].to = All /\ es[i].id = id /\ es[i].function = f
    BY <1>3, <1>9
  <2> QED BY <1>3, <1>5, <1>10, <1>11, <2>1, <2>2 DEF Announces
<1> QED BY <1>5, <1>7, <1>12 DEF Told, HostOK, h2

\* A device that is new gives nothing yet.
NewDevice(h, p, s, when) ==
  [h EXCEPT !.due[p] = when, !.nextId = @ + 1,
            !.devices[p] = [NoDevice EXCEPT !.id = h.nextId, !.num = s.num]]

LEMMA NewTold ==
  ASSUME NEW h, NEW h2, NEW scanning \in BOOLEAN, NEW p \in Paths, NEW s \in Places,
         NEW when \in {"soon", "now"}, h \in Hosts,
         Told(h, h2, scanning), h2.devices[p] = NoDevice,
         NEW h3, h3 = NewDevice(h2, p, s, when)
  PROVE  Told(h, h3, scanning)
<1> DEFINE d == [NoDevice EXCEPT !.id = h2.nextId, !.num = s.num]
<1>0. h2 \in Hosts /\ IdsOK(h2) /\ DueOK(h2, scanning) /\ h2.nextId \in Nat \ {0}
  BY Fields DEF Told, HostOK
<1>1. d \in Devices /\ d.id = h2.nextId /\ d.functions = {}
  BY <1>0 DEF NoDevice, Devices, Places
<1> HIDE DEF d
<1>2. /\ h3 \in Hosts /\ h3.devices = [h2.devices EXCEPT ![p] = d]
      /\ h3.due = [h2.due EXCEPT ![p] = when] /\ h3.events = h2.events
      /\ h3.enabled = h2.enabled /\ h3.nextId = h2.nextId + 1
  <2>1. h3 = [h2 EXCEPT !.due = [h2.due EXCEPT ![p] = when], !.nextId = h2.nextId + 1,
                !.devices = [h2.devices EXCEPT ![p] = d]]
    BY <1>0 DEF Hosts, d, NewDevice
  <2>2. /\ [h2.due EXCEPT ![p] = when] \in [Paths -> {"no", "soon", "late", "now"}]
        /\ [h2.devices EXCEPT ![p] = d] \in [Paths -> Devices]
        /\ h2.nextId + 1 \in Nat \ {0}
    BY <1>0, <1>1, Fields
  <2> QED BY <2>1, <2>2, <1>0 DEF Hosts
<1>3. /\ h3.devices[p] = d /\ \A q \in Paths : q # p => h3.devices[q] = h2.devices[q]
      /\ \A q \in Paths : q # p => h3.due[q] = h2.due[q]
  BY <1>0, <1>2, Fields
<1>4. \A q \in Paths : h2.devices[q].id \in Nat
  BY <1>0, Fields DEF Devices
<1>5. IdsOK(h3)
  BY <1>0, <1>1, <1>2, <1>3, <1>4 DEF IdsOK
<1>6. DueOK(h3, scanning)
  BY <1>0, <1>1, <1>3, NoDeviceIs DEF DueOK
<1>7. \A id \in Nat, f \in Shown : Given(h3, id, f) <=> Given(h2, id, f)
  BY <1>1, <1>3, NoDeviceIs DEF Given
<1>8. \E es : Announces(h, h3, es)
  <2>1. PICK es : Announces(h, h2, es)
    BY DEF Told
  <2>2. h.nextId \in Nat /\ h2.nextId \in Nat /\ h3.nextId \in Nat /\ h3.nextId >= h2.nextId
    BY <1>0, <1>2, Fields
  <2>3. Announces(h, h3, es)
    BY <2>1, <2>2, <1>2, <1>7, Further
  <2> QED BY <2>3
<1> QED BY <1>2, <1>5, <1>6, <1>8 DEF Told, HostOK

LEMMA SameTold ==
  ASSUME NEW h, NEW scanning \in BOOLEAN, HostOK(h, scanning) PROVE Told(h, h, scanning)
<1>1. h \in Hosts /\ h.nextId \in Nat
  BY Fields DEF HostOK
<1> QED BY <1>1, NothingNew DEF Told, HostOK

LEMMA AddTold ==
  ASSUME NEW h, NEW scanning \in BOOLEAN, HostOK(h, scanning), NEW p \in Paths, NEW s \in Places,
         NEW when \in {"soon", "now"}
  PROVE  Told(h, Add(h, p, s, when), scanning)
<1>0. h \in Hosts
  BY DEF HostOK
<1>1. CASE h.devices[p] # NoDevice /\ h.devices[p].num = s.num
  BY <1>1, SameTold DEF Add
<1>2. CASE ~(h.devices[p] # NoDevice /\ h.devices[p].num = s.num)
  <2> DEFINE rest == IF h.devices[p] # NoDevice THEN RemoveDevice(h, p) ELSE h
  <2>1. Told(h, rest, scanning) /\ rest.devices[p] = NoDevice
    <3>1. CASE h.devices[p] # NoDevice
      <4>1. RemoveDevice(h, p).devices[p] = NoDevice
        <5>1. RemoveDevice(h, p).devices = [h.devices EXCEPT ![p] = NoDevice]
          BY RemoveTold
        <5> QED BY <5>1, <1>0, Fields
      <4> QED BY <3>1, <4>1, RemoveTold
    <3>2. CASE h.devices[p] = NoDevice
      BY <3>2, SameTold
    <3> QED BY <3>1, <3>2
  <2>2. Add(h, p, s, when) =
          IF s = Gone THEN rest
          ELSE NewDevice(rest, p, s, when)
    BY <1>2 DEF Add, NewDevice
  <2> HIDE DEF rest
  <2>3. CASE s = Gone
    BY <2>1, <2>2, <2>3
  <2>4. CASE s # Gone
    BY <2>1, <2>2, <2>4, <1>0, NewTold
  <2> QED BY <2>3, <2>4
<1> QED BY <1>1, <1>2

LEMMA Before ==
  ASSUME NEW h, NEW h1, NEW h2, NEW es, Announces(h1, h2, es),
         h1.events = h.events, h1.nextId = h.nextId,
         \A id \in Nat, f \in Shown : Given(h1, id, f) <=> Given(h, id, f)
  PROVE  Announces(h, h2, es)
BY DEF Announces

\* What one look at a device changes: its functions, and its driver is asked for.
LookedAt(h, p, want, loaded, when) ==
  [h EXCEPT !.devices[p].functions = want, !.devices[p].loaded = loaded, !.due[p] = when,
            !.events = @ \o EventsFor(All, h.devices[p], h.devices[p].functions \ want, FALSE)
                         \o EventsFor(All, h.devices[p], want \ h.devices[p].functions, TRUE)]

LEMMA LookedAtTold ==
  ASSUME NEW h, HostOK(h, TRUE), NEW p \in Paths, h.devices[p] # NoDevice,
         NEW want \in SUBSET Shown, NEW loaded \in BOOLEAN, NEW when \in {"no", "late"},
         NEW h2, h2 = LookedAt(h, p, want, loaded, when)
  PROVE  Told(h, h2, TRUE)
<1> DEFINE d == h.devices[p]
           n == [d EXCEPT !.functions = want, !.loaded = loaded]
           gone == EventsFor(All, d, d.functions \ want, FALSE)
           come == EventsFor(All, d, want \ d.functions, TRUE)
           es == gone \o come
<1>0. /\ h \in Hosts /\ IdsOK(h) /\ DueOK(h, TRUE) /\ h.devices \in [Paths -> Devices]
      /\ h.events \in Seq(EventType) /\ h.nextId \in Nat
  BY Fields DEF HostOK
<1>1. d \in Devices /\ d.functions \in SUBSET Shown /\ d.id \in Nat
  BY <1>0 DEF Devices
<1>2. n \in Devices /\ n.id = d.id /\ n.functions = want
  BY <1>1 DEF Devices
<1>3. /\ gone \in Seq(EventType) /\ Len(gone) \in Nat
      /\ \A i \in 1..Len(gone) :
           gone[i].to = All /\ gone[i].id = d.id /\ gone[i].function \in d.functions \ want /\ ~gone[i].on
      /\ \A f \in d.functions \ want : \E i \in 1..Len(gone) : gone[i].function = f
  <2>1. EventsAre(gone, All, d.id, d.functions \ want, FALSE)
    BY <1>1, EventsForAre
  <2> HIDE DEF gone, d
  <2> QED BY <2>1 DEF EventsAre
<1>4. /\ come \in Seq(EventType) /\ Len(come) \in Nat
      /\ \A i \in 1..Len(come) :
           come[i].to = All /\ come[i].id = d.id /\ come[i].function \in want \ d.functions /\ come[i].on
      /\ \A f \in want \ d.functions : \E i \in 1..Len(come) : come[i].function = f
  <2>1. EventsAre(come, All, d.id, want \ d.functions, TRUE)
    BY <1>1, EventsForAre
  <2> HIDE DEF come, d
  <2> QED BY <2>1 DEF EventsAre
<1>5. h2 = [h EXCEPT !.devices = [h.devices EXCEPT ![p] = n], !.due = [h.due EXCEPT ![p] = when],
              !.events = (h.events \o gone) \o come]
  BY <1>0 DEF LookedAt, Hosts, Devices
<1> HIDE DEF gone, come
<1>6. /\ es \in Seq(EventType) /\ Len(es) = Len(gone) + Len(come)
      /\ \A i \in 1..(Len(gone) + Len(come)) :
           es[i] = IF i <= Len(gone) THEN gone[i] ELSE come[i - Len(gone)]
  <2>1. /\ gone \o come \in Seq(EventType) /\ Len(gone \o come) = Len(gone) + Len(come)
        /\ \A i \in 1..(Len(gone) + Len(come)) :
             (gone \o come)[i] = IF i <= Len(gone) THEN gone[i] ELSE come[i - Len(gone)]
    BY <1>3, <1>4, ConcatProperties
  <2> QED BY <2>1
<1>7. (h.events \o gone) \o come = h.events \o es
  <2>1. PICK s \in Seq(EventType), t \in Seq(EventType), u \in Seq(EventType) :
          s = h.events /\ t = gone /\ u = come
    BY <1>0, <1>3, <1>4
  <2>2. (s \o t) \o u = s \o (t \o u)
    BY ConcatAssociative
  <2> QED BY <2>1, <2>2
<1> HIDE DEF es, n, d
<1>8. h.events \o es \in Seq(EventType)
  BY <1>0, <1>6, ConcatProperties
<1>9. /\ h2 \in Hosts /\ h2.devices = [h.devices EXCEPT ![p] = n]
      /\ h2.due = [h.due EXCEPT ![p] = when] /\ h2.events = h.events \o es
      /\ h2.enabled = h.enabled /\ h2.nextId = h.nextId
  <2>1. h2 = [h EXCEPT !.devices = [h.devices EXCEPT ![p] = n], !.due = [h.due EXCEPT ![p] = when],
                !.events = h.events \o es]
    BY <1>5, <1>7
  <2>2. /\ [h.due EXCEPT ![p] = when] \in [Paths -> {"no", "soon", "late", "now"}]
        /\ [h.devices EXCEPT ![p] = n] \in [Paths -> Devices]
    BY <1>0, <1>2, Fields
  <2> QED BY <2>1, <2>2, <1>0, <1>8 DEF Hosts
<1>10. /\ h2.devices[p] = n /\ \A q \in Paths : q # p => h2.devices[q] = h.devices[q]
       /\ \A q \in Paths : q # p => h2.due[q] = h.due[q]
  BY <1>0, <1>9, Fields
<1>11. d.id # 0 /\ \A q \in Paths : q # p => h.devices[q].id # d.id
  BY <1>0 DEF IdsOK, d
<1>12. IdsOK(h2) /\ DueOK(h2, TRUE)
  <2>1. n # NoDevice
    BY <1>2, <1>11, NoDeviceIs
  <2> QED BY <2>1, <1>0, <1>2, <1>9, <1>10, <1>11 DEF IdsOK, DueOK, d
<1>13. \A f \in Shown : Given(h2, d.id, f) <=> f \in want
  BY <1>2, <1>10, <1>11 DEF Given
<1>14. \A i \in 1..Len(es) : es[i].to = All /\ (es[i].on <=> Given(h2, es[i].id, es[i].function))
  <2> SUFFICES ASSUME NEW i \in 1..Len(es)
               PROVE  es[i].to = All /\ (es[i].on <=> Given(h2, es[i].id, es[i].function))
    OBVIOUS
  <2>1. CASE i <= Len(gone)
    <3>1. es[i] = gone[i] /\ i \in 1..Len(gone)
      BY <1>3, <1>4, <1>6, <2>1
    <3> QED BY <3>1, <1>1, <1>3, <1>13
  <2>2. CASE ~(i <= Len(gone))
    <3>1. es[i] = come[i - Len(gone)] /\ i - Len(gone) \in 1..Len(come)
      BY <1>3, <1>4, <1>6, <2>2
    <3> QED BY <3>1, <1>4, <1>13
  <2> QED BY <2>1, <2>2
<1>15. \A id \in Nat, f \in Shown :
        \/ Given(h2, id, f) <=> Given(h, id, f)
        \/ \E i \in 1..Len(es) : es[i].id = id /\ es[i].function = f
  <2> SUFFICES ASSUME NEW id \in Nat, NEW f \in Shown, ~(Given(h2, id, f) <=> Given(h, id, f))
               PROVE  \E i \in 1..Len(es) : es[i].id = id /\ es[i].function = f
    OBVIOUS
  <2>1. id = d.id /\ ~(f \in want <=> f \in d.functions)
    BY <1>2, <1>10 DEF Given, d
  <2>2. CASE f \in d.functions \ want
    <3>1. PICK i \in 1..Len(gone) : gone[i].function = f
      BY <1>3, <2>2
    <3>2. i \in 1..Len(es) /\ es[i] = gone[i]
      BY <1>3, <1>4, <1>6
    <3> QED BY <3>1, <3>2, <2>1, <1>3
  <2>3. CASE f \in want \ d.functions
    <3>1. PICK i \in 1..Len(come) : come[i].function = f
      BY <1>4, <2>3
    <3>2. Len(gone) + i \in 1..Len(es) /\ es[Len(gone) + i] = come[i]
      BY <1>3, <1>4, <1>6
    <3> QED BY <3>1, <3>2, <2>1, <1>4
  <2> QED BY <2>1, <2>2, <2>3
<1>16. \A i \in 1..Len(es) : es[i].id \in 1..(h2.nextId - 1)
  <2>1. d.id \in 1..(h.nextId - 1)
    BY <1>0, <1>1, <1>11 DEF IdsOK, d
  <2> SUFFICES ASSUME NEW i \in 1..Len(es) PROVE es[i].id = d.id
    BY <2>1, <1>9
  <2>2. CASE i <= Len(gone)
    <3>1. es[i] = gone[i] /\ i \in 1..Len(gone)
      BY <1>3, <1>4, <1>6, <2>2
    <3> QED BY <3>1, <1>3
  <2>3. CASE ~(i <= Len(gone))
    <3>1. es[i] = come[i - Len(gone)] /\ i - Len(gone) \in 1..Len(come)
      BY <1>3, <1>4, <1>6, <2>3
    <3> QED BY <3>1, <1>4
  <2> QED BY <2>2, <2>3
<1>17. h2.nextId >= h.nextId
  BY <1>0, <1>9
<1>18. Announces(h, h2, es)
  BY <1>6, <1>9, <1>14, <1>15, <1>16, <1>17 DEF Announces
<1> QED BY <1>9, <1>12, <1>18 DEF Told, HostOK

LEMMA NotDue ==
  ASSUME NEW h, HostOK(h, TRUE), NEW p \in Paths, NEW rest, rest = [h EXCEPT !.due[p] = "no"]
  PROVE  /\ Told(h, rest, TRUE) /\ HostOK(rest, TRUE) /\ rest.devices = h.devices
         /\ rest.events = h.events /\ rest.enabled = h.enabled /\ rest.nextId = h.nextId
<1>0. h \in Hosts /\ IdsOK(h) /\ DueOK(h, TRUE) /\ h.nextId \in Nat
  BY Fields DEF HostOK
<1>1. /\ rest \in Hosts /\ rest.devices = h.devices /\ rest.due = [h.due EXCEPT ![p] = "no"]
      /\ rest.events = h.events /\ rest.enabled = h.enabled /\ rest.nextId = h.nextId
  BY <1>0 DEF Hosts
<1>2. HostOK(rest, TRUE)
  BY <1>0, <1>1, Fields DEF HostOK, IdsOK, DueOK
<1>3. Announces(h, rest, <<>>)
  <2>1. rest.nextId >= h.nextId /\ \A id \in Nat, f \in Shown : Given(rest, id, f) <=> Given(h, id, f)
    BY <1>0, <1>1 DEF Given
  <2> QED BY <2>1, <1>0, <1>1, NothingNew
<1> QED BY <1>1, <1>2, <1>3 DEF Told

LEMMA ScanTold ==
  ASSUME NEW h, HostOK(h, TRUE), NEW p \in Paths, NEW s \in Places
  PROVE  Told(h, Scan(h, p, s), TRUE)
<1> DEFINE rest == [h EXCEPT !.due[p] = "no"]
           d == h.devices[p]
           want == Want(d, s)
           late == want = {} /\ ~ToLoad(d, s)
<1>1. /\ Told(h, rest, TRUE) /\ HostOK(rest, TRUE) /\ rest.devices = h.devices
      /\ rest.events = h.events /\ rest.enabled = h.enabled /\ rest.nextId = h.nextId
  BY NotDue
<1>2. h \in Hosts /\ h.devices \in [Paths -> Devices] /\ h.due \in [Paths -> {"no", "soon", "late", "now"}]
  BY Fields DEF HostOK
<1>3. CASE d = NoDevice
  BY <1>1, <1>3 DEF Scan
<1>4. CASE d # NoDevice /\ d.num # s.num
  <2> DEFINE removed == RemoveDevice(rest, p)
  <2>1. Scan(h, p, s) = IF s = Gone THEN removed ELSE Add(removed, p, s, "soon")
    BY <1>4 DEF Scan
  <2> HIDE DEF rest
  <2>2. Told(rest, removed, TRUE) /\ removed.devices = [h.devices EXCEPT ![p] = NoDevice]
    <3>1. PICK scanning \in BOOLEAN : scanning = TRUE
      OBVIOUS
    <3>2. Told(rest, RemoveDevice(rest, p), scanning)
      BY <1>1, <3>1, RemoveTold
    <3>3. RemoveDevice(rest, p).devices = [rest.devices EXCEPT ![p] = NoDevice]
      BY <1>1, <3>1, RemoveTold
    <3> QED BY <1>1, <3>1, <3>2, <3>3
  <2>3. removed.devices[p] = NoDevice
    BY <1>2, <2>2
  <2> HIDE DEF removed
  <2>4. Told(h, removed, TRUE)
    <3>1. PICK es : Announces(rest, removed, es)
      BY <2>2 DEF Told
    <3>2. Announces(h, removed, es)
      BY <1>1, <3>1, Before DEF Given
    <3> QED BY <1>1, <2>2, <3>2 DEF Told
  <2>5. CASE s = Gone
    BY <2>1, <2>4, <2>5
  <2>6. CASE s # Gone
    <3>1. Add(removed, p, s, "soon") = NewDevice(removed, p, s, "soon")
      BY <2>3, <2>6 DEF Add, NewDevice
    <3>2. Told(h, Add(removed, p, s, "soon"), TRUE)
      BY <1>2, <2>3, <2>4, <3>1, NewTold
    <3> QED BY <3>2, <2>1, <2>6
  <2> QED BY <2>5, <2>6
<1>5. CASE d # NoDevice /\ d.num = s.num
  <2> DEFINE loaded == d.loaded \/ ToLoad(d, s)
             when == IF late THEN "late" ELSE "no"
  <2>1. Scan(h, p, s) = LookedAt(rest, p, want, loaded, when)
    BY <1>2, <1>5 DEF Scan, LookedAt, Sooner, Hosts
  <2>2. want \in SUBSET Shown /\ loaded \in BOOLEAN /\ when \in {"no", "late"}
    <3>1. s.functions \in SUBSET Functions
      BY DEF Places
    <3> QED BY <3>1 DEF Want, Shown
  <2> HIDE DEF rest, want, loaded, when
  <2>3. Told(rest, LookedAt(rest, p, want, loaded, when), TRUE)
    BY <1>1, <1>5, <2>2, LookedAtTold
  <2>4. PICK es : Announces(rest, LookedAt(rest, p, want, loaded, when), es)
    BY <2>3 DEF Told
  <2>5. Announces(h, LookedAt(rest, p, want, loaded, when), es)
    BY <1>1, <2>4, Before DEF Given
  <2> QED BY <1>1, <2>1, <2>3, <2>5 DEF Told
<1> QED BY <1>3, <1>4, <1>5

-----------------------------------------------------------------------------
\* What is there already is told to a controller that is enabled.
LEMMA AlreadyThereAnnounces ==
  ASSUME NEW h \in Hosts, NEW c \in Controllers, NEW h2, h2.events = h.events \o AlreadyThere(h, c),
         h2.devices = h.devices, h2.nextId = h.nextId, IdsOK(h)
  PROVE  /\ Announces(h, h2, AlreadyThere(h, c)) /\ h2.events \in Seq(EventType)
         /\ \A id \in Nat, f \in Shown : Given(h2, id, f) =>
              \E i \in 1..Len(AlreadyThere(h, c)) : Tells(AlreadyThere(h, c)[i], c, id, f)
<1> DEFINE pairs == UNION {{p} \X h.devices[p].functions : p \in Paths}
           order == SetToSeq(pairs)
           es == AlreadyThere(h, c)
<1>1. /\ \A p \in Paths : h.devices[p] \in Devices /\ h.devices[p].functions \subseteq Shown
      /\ h.events \in Seq(EventType) /\ h.nextId \in Nat
  BY Fields DEF Devices
<1>2. IsFiniteSet(pairs)
  <2>1. IsFiniteSet(Paths \X Shown)
    BY SetsAssumption, ShownFinite, FS_Product
  <2>2. pairs \subseteq Paths \X Shown
    BY <1>1
  <2> QED BY <2>1, <2>2, FS_Subset
<1>3. \A x : x \in pairs <=> \E p \in Paths : x \in {p} \X h.devices[p].functions
  OBVIOUS
<1> HIDE DEF pairs
<1>4. /\ Len(order) \in Nat /\ \A i \in 1..Len(order) : order[i] \in pairs
      /\ \A x \in pairs : \E i \in 1..Len(order) : order[i] = x
  BY <1>2, Lists
<1>5. es = [i \in 1..Len(order) |-> Event(c, h.devices[order[i][1]], order[i][2], TRUE)]
  BY DEF AlreadyThere, pairs
<1> HIDE DEF order, es
<1>6. \A i \in 1..Len(order) : order[i][1] \in Paths /\ order[i][2] \in h.devices[order[i][1]].functions
  BY <1>3, <1>4
<1>7. es \in Seq(EventType) /\ Len(es) = Len(order)
  <2> DEFINE E(i) == Event(c, h.devices[order[i][1]], order[i][2], TRUE)
  <2>1. \A i \in 1..Len(order) : E(i) \in EventType
    BY <1>1, <1>6 DEF Event, EventType, Devices
  <2>2. es = [i \in 1..Len(order) |-> E(i)]
    BY <1>5
  <2> HIDE DEF E
  <2> QED BY <2>1, <2>2, <1>4
<1>8. \A i \in 1..Len(es) :
        es[i].to = c /\ es[i].id = h.devices[order[i][1]].id /\ es[i].function = order[i][2] /\ es[i].on
  BY <1>5, <1>7 DEF Event
<1>9. \A i \in 1..Len(es) : Given(h2, es[i].id, es[i].function)
  BY <1>6, <1>7, <1>8 DEF Given
<1>10. \A id \in Nat, f \in Shown : Given(h2, id, f) => \E i \in 1..Len(es) : Tells(es[i], c, id, f)
  <2> SUFFICES ASSUME NEW id \in Nat, NEW f \in Shown, NEW p \in Paths,
                      h.devices[p].id = id, f \in h.devices[p].functions
               PROVE  \E i \in 1..Len(es) : Tells(es[i], c, id, f)
    BY DEF Given
  <2>1. <<p, f>> \in pairs
    BY <1>3
  <2>2. PICK i \in 1..Len(order) : order[i] = <<p, f>>
    BY <1>4, <2>1
  <2> QED BY <2>2, <1>7, <1>8 DEF Tells
<1>a. \A i \in 1..Len(es) : es[i].id \in 1..(h2.nextId - 1)
  <2>1. \A p \in Paths : h.devices[p].functions # {} => h.devices[p].id \in 1..(h.nextId - 1)
    BY <1>1, NoDeviceIs DEF IdsOK, Devices
  <2> QED BY <2>1, <1>6, <1>7, <1>8
<1>b. h2.nextId >= h.nextId /\ \A id, f : Given(h2, id, f) <=> Given(h, id, f)
  BY <1>1 DEF Given
<1>11. Announces(h, h2, es)
  <2>1. h2.events = h.events \o es
    BY DEF es
  <2> QED BY <2>1, <1>7, <1>8, <1>9, <1>a, <1>b DEF Announces
<1>12. h2.events \in Seq(EventType)
  BY <1>1, <1>7, ConcatProperties DEF es
<1> QED BY <1>10, <1>11, <1>12 DEF es

LEMMA EnableKeeps ==
  ASSUME HostInv, NEW c \in Controllers, host' = Enable(host, c), told' = [told EXCEPT ![c] = {}],
         UNCHANGED <<watcher.event, watcher.targets, watcher.now>>,
         watcher'.pc = watcher.pc \/ {watcher.pc, watcher'.pc} \cap {"pick", "notify", "call"} = {}
  PROVE  /\ WordsOK' /\ host' \in Hosts /\ IdsOK(host') /\ host'.nextId = host.nextId
         /\ \A s \in BOOLEAN : DueOK(host, s) => DueOK(host', s)
         /\ host'.enabled = host.enabled \cup {c}
         /\ told' \in [Controllers -> SUBSET ((1..(host.nextId - 1)) \X Shown)]
<1> DEFINE es == AlreadyThere(host, c)
<1>1. host \in Hosts /\ Types /\ IdsOK(host) /\ WordsOK /\ host.nextId \in Nat \ {0} /\ host.enables \in Nat
  BY Fields DEF HostInv, Types, WordsOK
<1>2. host' = [host EXCEPT !.enabled = host.enabled \cup {c}, !.enables = host.enables + 1,
                 !.events = host.events \o es, !.wake = TRUE]
  BY <1>1 DEF Enable, Hosts
<1> HIDE DEF es
<1>3. /\ host'.enabled = host.enabled \cup {c} /\ host'.events = host.events \o es
      /\ host'.devices = host.devices /\ host'.nextId = host.nextId /\ host'.due = host.due
  BY <1>1, <1>2 DEF Hosts
<1>4. /\ Announces(host, host', es) /\ host'.events \in Seq(EventType)
      /\ \A id \in Nat, f \in Shown : Given(host', id, f) => \E i \in 1..Len(es) : Tells(es[i], c, id, f)
  BY <1>1, <1>3, AlreadyThereAnnounces DEF es
<1>5. host' \in Hosts
  <2>1. host.enabled \cup {c} \in SUBSET Controllers /\ host.enables + 1 \in Nat
    BY <1>1, Fields
  <2> QED BY <2>1, <1>1, <1>2, <1>3, <1>4 DEF Hosts
<1>6. IdsOK(host') /\ \A s \in BOOLEAN : DueOK(host, s) => DueOK(host', s)
  BY <1>1, <1>3 DEF IdsOK, DueOK
<1>7. told \in [Controllers -> SUBSET ((1..(host.nextId - 1)) \X Shown)]
  BY <1>1 DEF Types
<1>8. \A e \in host'.enabled :
        \/ e \in host.enabled /\ told'[e] = told[e]
        \/ /\ told'[e] = {}
           /\ \A id \in Nat, f \in Shown : Given(host', id, f) =>
                \E i \in 1..Len(es) : Tells(es[i], e, id, f)
  BY <1>1, <1>3, <1>4, <1>7, Fields
<1>9. WordsOK'
  BY <1>1, <1>3, <1>4, <1>8, AnnouncesKeeps
<1> QED BY <1>3, <1>5, <1>6, <1>7, <1>9

-----------------------------------------------------------------------------
\* What Without leaves is in its order: idx[n] is where its n-th event was.
Keeps(events, c, r) ==
  /\ r \in Seq(EventType) /\ Len(r) \in Nat
  /\ \E idx \in [1..Len(r) -> 1..Len(events)] :
       /\ \A n \in 1..Len(r) : r[n] = events[idx[n]] /\ r[n].to # c
       /\ \A m, n \in 1..Len(r) : idx[m] < idx[n] => m < n
       /\ \A i \in 1..Len(events) : events[i].to # c => \E n \in 1..Len(r) : idx[n] = i

LEMMA WithoutIs ==
  ASSUME NEW events \in Seq(EventType), NEW c PROVE Keeps(events, c, Without(events, c))
<1> DEFINE r == Without(events, c)
<1> DEFINE kept == {i \in 1..Len(events) : events[i].to # c}
           N == Cardinality(kept)
           Below(i) == {j \in kept : j <= i}
           rank == [i \in kept |-> Cardinality(Below(i))]
<1>1. Len(events) \in Nat /\ \A i \in 1..Len(events) : events[i] \in EventType
  BY LenProperties, ElementOfSeq
<1>2. IsFiniteSet(kept) /\ N \in Nat
  <2>1. IsFiniteSet(1..Len(events))
    BY <1>1, FS_Interval
  <2>2. IsFiniteSet(kept)
    BY <2>1, FS_Subset
  <2> QED BY <2>2, FS_CardinalityType
<1>3. \A i \in kept : i \in Nat /\ i \in 1..Len(events)
  BY <1>1
<1>4. ASSUME NEW i \in kept
      PROVE  IsFiniteSet(Below(i)) /\ Cardinality(Below(i)) \in 1..N
  <2>1. IsFiniteSet(Below(i)) /\ Cardinality(Below(i)) <= N
    <3>1. Below(i) \subseteq kept
      OBVIOUS
    <3> HIDE DEF Below, kept
    <3> QED BY <3>1, <1>2, FS_Subset
  <2>2. Below(i) # {}
    BY <1>3
  <2>3. Cardinality(Below(i)) \in Nat /\ Cardinality(Below(i)) # 0
    <3> HIDE DEF Below
    <3> QED BY <2>1, <2>2, FS_CardinalityType, FS_EmptySet
  <2> QED BY <2>1, <2>3, <1>2
<1>5. ASSUME NEW i \in kept, NEW j \in kept, i < j PROVE Cardinality(Below(i)) < Cardinality(Below(j))
  <2>1. Below(i) \subseteq Below(j) /\ j \in Below(j) /\ j \notin Below(i)
    BY <1>3, <1>5
  <2>2. IsFiniteSet(Below(i)) /\ IsFiniteSet(Below(j))
    BY <1>4
  <2> HIDE DEF Below
  <2>3. Below(i) # Below(j)
    BY <2>1
  <2> QED BY <2>1, <2>2, <2>3, FS_Subset, FS_CardinalityType
<1> HIDE DEF kept, N, Below
<1>6. rank \in Injection(kept, 1..N)
  <2>1. rank \in [kept -> 1..N]
    BY <1>4
  <2>2. \A i, j \in kept : rank[i] = rank[j] => i = j
    <3> SUFFICES ASSUME NEW i \in kept, NEW j \in kept, i # j PROVE rank[i] # rank[j]
      OBVIOUS
    <3>1. i < j \/ j < i
      BY <1>3
    <3>2. rank[i] \in 1..N /\ rank[j] \in 1..N
      BY <2>1
    <3> QED BY <3>1, <3>2, <1>2, <1>5
  <2> QED BY <2>1, <2>2 DEF Injection, IsInjective
<1>7. rank \in Surjection(kept, 1..N)
  <2>1. IsFiniteSet(1..N) /\ Cardinality(1..N) = N
    BY <1>2, FS_Interval
  <2> QED BY <2>1, <1>2, <1>6, FS_Injection DEF N
<1>8. \A n \in 1..N : \E i \in kept : rank[i] = n
  BY <1>7 DEF Surjection
<1> DEFINE idx == [n \in 1..N |-> CHOOSE i \in kept : rank[i] = n]
<1>9. \A n \in 1..N : idx[n] \in kept /\ rank[idx[n]] = n
  BY <1>8
<1> HIDE DEF r
<1>10. r = [n \in 1..N |-> events[CHOOSE i \in kept : Cardinality(Below(i)) = n]]
  BY DEF Without, kept, N, Below, r
<1>11. r = [n \in 1..N |-> events[idx[n]]]
  <2>1. \A n \in 1..N : (CHOOSE i \in kept : Cardinality(Below(i)) = n) = idx[n]
    <3> SUFFICES ASSUME NEW n \in 1..N
                 PROVE  (CHOOSE i \in kept : Cardinality(Below(i)) = n) = idx[n]
      OBVIOUS
    <3>1. \A i \in kept : Cardinality(Below(i)) = n <=> rank[i] = n
      OBVIOUS
    <3> HIDE DEF rank
    <3>2. (CHOOSE i \in kept : Cardinality(Below(i)) = n) = (CHOOSE i \in kept : rank[i] = n)
      BY <3>1
    <3> QED BY <3>2
  <2> HIDE DEF idx
  <2> QED BY <2>1, <1>10
<1> HIDE DEF idx
<1>12. idx \in [1..N -> 1..Len(events)] /\ \A i \in kept : rank[i] \in 1..N /\ idx[rank[i]] = i
  <2>1. \A i \in kept : rank[i] \in 1..N
    BY <1>6 DEF Injection
  <2>2. \A i, j \in kept : rank[i] = rank[j] => i = j
    BY <1>6 DEF Injection, IsInjective
  <2>3. idx = [n \in 1..N |-> idx[n]]
    BY DEF idx
  <2> HIDE DEF rank
  <2>4. \A i \in kept : idx[rank[i]] = i
    BY <2>1, <2>2, <1>9
  <2> QED BY <1>3, <1>9, <2>1, <2>3, <2>4
<1>13. r \in Seq(EventType) /\ Len(r) = N
  <2>1. \A n \in 1..N : events[idx[n]] \in EventType
    BY <1>1, <1>12
  <2> QED BY <2>1, <1>2, <1>11
<1>14. \A n \in 1..N : r[n] = events[idx[n]] /\ r[n].to # c
  <2>1. \A i \in kept : events[i].to # c
    BY DEF kept
  <2> QED BY <2>1, <1>9, <1>11
<1>15. \A m, n \in 1..N : idx[m] < idx[n] => m < n
  <2> SUFFICES ASSUME NEW m \in 1..N, NEW n \in 1..N, idx[m] < idx[n] PROVE m < n
    OBVIOUS
  <2>1. idx[m] \in kept /\ idx[n] \in kept /\ rank[idx[m]] = m /\ rank[idx[n]] = n
    BY <1>9
  <2> QED BY <2>1, <1>5
<1>16. \A i \in 1..Len(events) : events[i].to # c => \E n \in 1..N : idx[n] = i
  BY <1>12 DEF kept
<1>17. Keeps(events, c, r)
  BY <1>2, <1>12, <1>13, <1>14, <1>15, <1>16 DEF Keeps
<1> QED BY <1>17 DEF r

\* Disable: the others' events stay, in their order.
LEMMA DisableKeeps ==
  ASSUME HostInv, NEW c \in Controllers, host' = Disable(host, c), told' = [told EXCEPT ![c] = {}],
         UNCHANGED watcher
  PROVE  /\ WordsOK' /\ host' \in Hosts /\ IdsOK(host') /\ host'.nextId = host.nextId
         /\ \A s \in BOOLEAN : DueOK(host, s) => DueOK(host', s)
         /\ host'.enabled = host.enabled \ {c}
         /\ told' \in [Controllers -> SUBSET ((1..(host.nextId - 1)) \X Shown)]
<1> DEFINE r == Without(host.events, c)
<1>1. /\ host \in Hosts /\ Types /\ IdsOK(host) /\ QueueOK(host) /\ CurrentOK /\ ToldOK
      /\ host.events \in Seq(EventType) /\ host.nextId \in Nat \ {0}
  BY Fields DEF HostInv, Types
<1>2. host' = [host EXCEPT !.enabled = host.enabled \ {c}, !.events = r]
  BY <1>1 DEF Disable, Hosts
<1>3. /\ r \in Seq(EventType) /\ Len(r) \in Nat
      /\ \E idx \in [1..Len(r) -> 1..Len(host.events)] :
           /\ \A n \in 1..Len(r) : r[n] = host.events[idx[n]] /\ r[n].to # c
           /\ \A m, n \in 1..Len(r) : idx[m] < idx[n] => m < n
           /\ \A i \in 1..Len(host.events) : host.events[i].to # c => \E n \in 1..Len(r) : idx[n] = i
  <2>1. Keeps(host.events, c, r)
    BY <1>1, WithoutIs
  <2> HIDE DEF r
  <2> QED BY <2>1 DEF Keeps
<1> HIDE DEF r
<1>4. PICK idx \in [1..Len(r) -> 1..Len(host.events)] :
           /\ \A n \in 1..Len(r) : r[n] = host.events[idx[n]] /\ r[n].to # c
           /\ \A m, n \in 1..Len(r) : idx[m] < idx[n] => m < n
           /\ \A i \in 1..Len(host.events) : host.events[i].to # c => \E n \in 1..Len(r) : idx[n] = i
  BY <1>3
<1>5. /\ host' \in Hosts /\ host'.enabled = host.enabled \ {c} /\ host'.events = r
      /\ host'.devices = host.devices /\ host'.nextId = host.nextId /\ host'.due = host.due
  BY <1>1, <1>2, <1>3 DEF Hosts
<1>6. IdsOK(host') /\ \A s \in BOOLEAN : DueOK(host, s) => DueOK(host', s)
  BY <1>1, <1>5 DEF IdsOK, DueOK
<1>7. \A id, f : Given(host', id, f) <=> Given(host, id, f)
  BY <1>5 DEF Given
<1>8. Len(host.events) \in Nat /\ \A i \in 1..Len(host.events) : host.events[i] \in EventType
  BY <1>1, LenProperties, ElementOfSeq
\* An event for every controller behind position i was behind position k.
<1>9. ASSUME NEW i \in 0..Len(r), NEW k \in 0..Len(host.events), NEW id, NEW f,
             \A n \in 1..Len(r) : idx[n] > k => n > i, AllBehind(host, k, id, f)
      PROVE  AllBehind(host', i, id, f)
  <2>1. PICK j \in (k + 1)..Len(host.events) :
          host.events[j].to = All /\ host.events[j].id = id /\ host.events[j].function = f
    BY <1>9 DEF AllBehind
  <2>2. j \in 1..Len(host.events) /\ j > k /\ All # c
    BY <1>8, NamesAssumption
  <2>3. PICK n \in 1..Len(r) : idx[n] = j
    BY <2>1, <2>2, <1>4
  <2>4. n \in (i + 1)..Len(r) /\ r[n] = host.events[j]
    BY <2>2, <2>3, <1>3, <1>4, <1>9
  <2> QED BY <2>1, <2>4, <1>5 DEF AllBehind
<1>10. QueueOK(host')
  <2> SUFFICES ASSUME NEW n \in 1..Len(r) PROVE Right(host', n, r[n])
    BY <1>5 DEF QueueOK
  <2>1. idx[n] \in 1..Len(host.events) /\ r[n] = host.events[idx[n]]
    BY <1>4
  <2>2. Right(host, idx[n], r[n])
    BY <2>1, <1>1 DEF QueueOK
  <2>3. \A m \in 1..Len(r) : idx[m] > idx[n] => m > n
    <3>1. \A m \in 1..Len(r) : idx[m] \in Nat
      BY <1>8
    <3> QED BY <3>1, <1>4
  <2>4. n \in 0..Len(r) /\ idx[n] \in 0..Len(host.events)
    BY <2>1, <1>3, <1>8
  <2>5. AllBehind(host, idx[n], r[n].id, r[n].function) => AllBehind(host', n, r[n].id, r[n].function)
    BY <2>3, <2>4, <1>9
  <2> QED BY <2>2, <2>5, <1>5, <1>7 DEF Right
<1>11. CurrentOK'
  <2>1. ASSUME NEW e, Right(host, 0, e) PROVE Right(host', 0, e)
    <3>1. AllBehind(host, 0, e.id, e.function) => AllBehind(host', 0, e.id, e.function)
      <4>1. 0 \in 0..Len(r) /\ 0 \in 0..Len(host.events) /\ \A m \in 1..Len(r) : idx[m] > 0 => m > 0
        BY <1>3, <1>8
      <4> QED BY <4>1, <1>9
    <3> QED BY <2>1, <3>1, <1>5, <1>7 DEF Right
  <2>2. CASE watcher.pc \in {"pick", "notify", "call"}
    <3>1. watcher.event \in EventType /\ Right(host, 0, watcher.event)
      BY <2>2, <1>1 DEF CurrentOK
    <3>2. Right(host', 0, watcher.event)
      BY <3>1, <2>1
    <3> QED BY <2>2, <3>1, <3>2 DEF CurrentOK
  <2>3. CASE watcher.pc \notin {"pick", "notify", "call"}
    BY <2>3, <1>1 DEF CurrentOK
  <2> QED BY <2>2, <2>3
<1>12. told \in [Controllers -> SUBSET ((1..(host.nextId - 1)) \X Shown)]
  BY <1>1 DEF Types
<1>13. ToldOK'
  <2> SUFFICES ASSUME NEW e \in host.enabled \ {c}, NEW id \in 1..(host.nextId - 1), NEW f \in Shown,
                      NoneQueued(host', e, id, f),
                      ~(AboutToHear(e) /\ Tells(watcher.event, e, id, f))
               PROVE  <<id, f>> \in told'[e] <=> Given(host, id, f)
    BY <1>5, <1>7 DEF ToldOK, AboutToHear
  <2>1. NoneQueued(host, e, id, f)
    <3> SUFFICES ASSUME NEW i \in 1..Len(host.events), Tells(host.events[i], e, id, f) PROVE FALSE
      BY DEF NoneQueued
    <3>1. host.events[i].to # c
      BY NamesAssumption DEF Tells
    <3>2. PICK n \in 1..Len(r) : idx[n] = i
      BY <3>1, <1>4
    <3>3. r[n] = host.events[i]
      BY <3>2, <1>4
    <3> QED BY <3>3, <1>5 DEF NoneQueued
  <2>2. told'[e] = told[e]
    BY <1>1, <1>12, Fields
  <2> QED BY <2>1, <2>2, <1>1 DEF ToldOK
<1> QED BY <1>5, <1>6, <1>10, <1>11, <1>12, <1>13 DEF WordsOK

\* Deliver takes the head, for those that are enabled now.
LEMMA PopsKeeps ==
  ASSUME HostInv, Pops, host.events # <<>>
  PROVE  WordsOK' /\ host' \in Hosts /\ host' = [host EXCEPT !.events = Tail(host.events)] /\ watcher' \in Watchers
<1> DEFINE e == Head(host.events)
<1>1. /\ host \in Hosts /\ QueueOK(host) /\ CurrentOK /\ ToldOK /\ watcher \in Watchers
      /\ host.events \in Seq(EventType) /\ host.enabled \subseteq Controllers
  BY Fields DEF HostInv, Types
<1>2. /\ watcher.pc = "pop" /\ told' = told
      /\ host' = [host EXCEPT !.events = Tail(host.events)]
      /\ watcher' = [watcher EXCEPT !.pc = "pick", !.event = e,
                       !.targets = {c \in host.enabled : e.to \in {All, c}}]
  BY <1>1 DEF Pops, Hosts
<1>3. /\ Len(host.events) \in Nat /\ Len(host.events) > 0 /\ e = host.events[1] /\ e \in EventType
      /\ Tail(host.events) \in Seq(EventType) /\ Len(Tail(host.events)) = Len(host.events) - 1
      /\ \A i \in 1..(Len(host.events) - 1) : Tail(host.events)[i] = host.events[i + 1]
  BY <1>1, LenProperties, EmptySeq, HeadTailProperties
<1> HIDE DEF e
<1>4. /\ host' \in Hosts /\ host'.events = Tail(host.events) /\ host'.devices = host.devices
      /\ host'.nextId = host.nextId /\ host'.enabled = host.enabled
  BY <1>1, <1>2, <1>3 DEF Hosts
<1>5. /\ watcher' \in Watchers /\ watcher'.pc = "pick" /\ watcher'.event = e
      /\ watcher'.targets = {c \in host.enabled : e.to \in {All, c}}
  BY <1>1, <1>2, <1>3 DEF Watchers
<1>6. ASSUME NEW i \in 0..(Len(host.events) - 1), NEW x, Right(host, i + 1, x) PROVE Right(host', i, x)
  <2>1. AllBehind(host, i + 1, x.id, x.function) => AllBehind(host', i, x.id, x.function)
    <3> SUFFICES ASSUME NEW j \in (i + 2)..Len(host.events), host.events[j].to = All,
                        host.events[j].id = x.id, host.events[j].function = x.function
                 PROVE  AllBehind(host', i, x.id, x.function)
      BY <1>3 DEF AllBehind
    <3>1. j - 1 \in (i + 1)..(Len(host.events) - 1) /\ j - 1 \in 1..(Len(host.events) - 1) /\ (j - 1) + 1 = j
      BY <1>3
    <3>2. host'.events[j - 1] = host.events[j] /\ j - 1 \in (i + 1)..Len(host'.events)
      BY <3>1, <1>3, <1>4
    <3> QED BY <3>2 DEF AllBehind
  <2> QED BY <1>4, <1>6, <2>1 DEF Right, Given
<1>7. QueueOK(host')
  <2> SUFFICES ASSUME NEW i \in 1..(Len(host.events) - 1) PROVE Right(host', i, host'.events[i])
    BY <1>3, <1>4 DEF QueueOK
  <2>1. i + 1 \in 1..Len(host.events) /\ i \in 0..(Len(host.events) - 1) /\ host'.events[i] = host.events[i + 1]
    BY <1>3, <1>4
  <2>2. Right(host, i + 1, host.events[i + 1])
    BY <2>1, <1>1 DEF QueueOK
  <2> QED BY <2>1, <2>2, <1>6
<1>8. CurrentOK'
  <2>1. Right(host, 0 + 1, e)
    BY <1>1, <1>3 DEF QueueOK
  <2>2. Right(host', 0, e)
    BY <2>1, <1>3, <1>6
  <2> QED BY <2>2, <1>3, <1>5 DEF CurrentOK
<1>9. ToldOK'
  <2> SUFFICES ASSUME NEW c \in host.enabled, NEW id \in 1..(host.nextId - 1), NEW f \in Shown,
                      NoneQueued(host', c, id, f),
                      ~(AboutToHear(c)' /\ Tells(e, c, id, f))
               PROVE  <<id, f>> \in told[c] <=> Given(host, id, f)
    BY <1>2, <1>4, <1>5 DEF ToldOK, Given
  <2>1. ~Tells(e, c, id, f)
    BY <1>5 DEF AboutToHear, Tells
  <2>2. NoneQueued(host, c, id, f)
    <3> SUFFICES ASSUME NEW i \in 1..Len(host.events) PROVE ~Tells(host.events[i], c, id, f)
      BY DEF NoneQueued
    <3>1. CASE i = 1
      BY <3>1, <2>1, <1>3
    <3>2. CASE i # 1
      <4>1. i - 1 \in 1..(Len(host.events) - 1) /\ (i - 1) + 1 = i
        BY <3>2, <1>3
      <4>2. host'.events[i - 1] = host.events[i] /\ i - 1 \in 1..Len(host'.events)
        BY <4>1, <1>3, <1>4
      <4> QED BY <4>2 DEF NoneQueued
    <3> QED BY <3>1, <3>2
  <2>3. ~AboutToHear(c)
    BY <1>1, <1>2 DEF AboutToHear, CurrentOK
  <2> QED BY <2>2, <2>3, <1>1 DEF ToldOK
<1> QED BY <1>2, <1>4, <1>5, <1>7, <1>8, <1>9 DEF WordsOK

-----------------------------------------------------------------------------
LEMMA InitInv == Init => HostInv
<1> SUFFICES ASSUME Init PROVE HostInv
  OBVIOUS
<1>1. /\ host.devices = [p \in Paths |-> NoDevice] /\ host.due = [p \in Paths |-> "no"]
      /\ host.events = <<>> /\ host.enabled = {} /\ host.nextId = 1
      /\ watcher.pc = "none" /\ watcher.targets = {} /\ thread = [t \in Threads |-> Idle]
      /\ told = [c \in Controllers |-> {}] /\ quiet = {}
  BY DEF Init
<1>2. host \in Hosts
  <2>1. host.events \in Seq(EventType)
    BY <1>1
  <2> QED BY <2>1, NoDeviceIs DEF Init, Hosts
<1>3. sys \in [Paths -> Places] /\ kernel \in Kernels
  <2>1. Gone \in Places
    BY BoundsAssumption DEF Gone, Places, Numbers
  <2>2. <<>> \in Seq({"add", "remove", "below"} \X Paths) /\ 0 \in Numbers
    BY BoundsAssumption DEF Numbers
  <2> QED BY <2>1, <2>2 DEF Init, Kernels
<1>4. watcher \in Watchers /\ thread \in [Threads -> ThreadStates]
  BY DEF Init, Watchers, ThreadStates, Idle
<1>5. \A t \in Threads : thread[t].in = "none"
  BY <1>1 DEF Idle
<1>6. Types
  BY <1>1, <1>2, <1>3, <1>4, <1>5 DEF Types
<1>7. IdsOK(host) /\ DueOK(host, watcher.pc = "scan") /\ StartOK /\ QuietOK
  BY <1>1, <1>5, NoDeviceIs DEF IdsOK, DueOK, StartOK, QuietOK
<1>8. QueueOK(host) /\ CurrentOK /\ ToldOK
  BY <1>1 DEF QueueOK, CurrentOK, ToldOK
<1> QED BY <1>6, <1>7, <1>8 DEF HostInv

\* A step that leaves the host and what is delivered alone.
LEMMA AsideKeeps ==
  ASSUME HostInv, UNCHANGED <<host, told, watcher.event, watcher.targets, watcher.now>>,
         watcher'.pc = watcher.pc \/ {watcher.pc, watcher'.pc} \cap {"pick", "notify", "call"} = {}
  PROVE  WordsOK'
<1>1. /\ Types /\ IdsOK(host) /\ WordsOK /\ host \in Hosts /\ host.nextId \in Nat
  BY Fields DEF HostInv, WordsOK, Types
<1>2. Announces(host, host', <<>>)
  BY <1>1, NothingNew DEF Given
<1>3. host'.nextId \in Nat /\ \A c \in host'.enabled : c \in host.enabled /\ told'[c] = told[c]
  BY <1>1
<1> QED BY <1>1, <1>2, <1>3, AnnouncesKeeps

\* A step that tells what it changes.
LEMMA ToldKeeps ==
  ASSUME HostInv, NEW scanning, Told(host, host', scanning),
         UNCHANGED <<told, watcher.event, watcher.targets, watcher.now>>,
         watcher'.pc = watcher.pc \/ {watcher.pc, watcher'.pc} \cap {"pick", "notify", "call"} = {}
  PROVE  /\ WordsOK' /\ host' \in Hosts /\ IdsOK(host') /\ DueOK(host', scanning)
         /\ host'.enabled = host.enabled
         /\ told' \in [Controllers -> SUBSET ((1..(host'.nextId - 1)) \X Shown)]
<1>1. /\ Types /\ IdsOK(host) /\ WordsOK /\ host \in Hosts /\ host.nextId \in Nat
      /\ told \in [Controllers -> SUBSET ((1..(host.nextId - 1)) \X Shown)]
  BY Fields DEF HostInv, WordsOK, Types
<1>2. /\ host' \in Hosts /\ IdsOK(host') /\ DueOK(host', scanning) /\ host'.enabled = host.enabled
      /\ host'.nextId \in Nat
  BY Fields DEF Told, HostOK
<1>3. PICK es : Announces(host, host', es)
  BY DEF Told
<1>4. \A c \in host'.enabled : c \in host.enabled /\ told'[c] = told[c]
  BY <1>2
<1>5. WordsOK'
  BY <1>1, <1>2, <1>3, <1>4, AnnouncesKeeps
<1>6. host'.nextId >= host.nextId
  BY <1>3 DEF Announces
<1>7. (1..(host.nextId - 1)) \X Shown \subseteq (1..(host'.nextId - 1)) \X Shown
  BY <1>1, <1>2, <1>6
<1> QED BY <1>1, <1>2, <1>5, <1>7

LEMMA SendsKeeps ==
  ASSUME NEW k \in Kernels, NEW action \in {"add", "remove", "below"}, NEW p \in Paths,
         SendsOrLoses(k, action, p)
  PROVE  kernel' \in Kernels
<1>1. Append(k.messages, <<action, p>>) \in Seq({"add", "remove", "below"} \X Paths)
  <2>1. k.messages \in Seq({"add", "remove", "below"} \X Paths)
    BY DEF Kernels
  <2> QED BY <2>1, AppendProperties
<1>2. k.lost + 1 \in Nat
  BY DEF Kernels
<1>3. /\ [k EXCEPT !.messages = Append(k.messages, <<action, p>>)] \in Kernels
      /\ [k EXCEPT !.lost = k.lost + 1] \in Kernels
  <2>1. [k EXCEPT !.lost = k.lost + 1] \in Kernels
    BY <1>2 DEF Kernels
  <2> DEFINE ms == Append(k.messages, <<action, p>>)
  <2>2. ms \in Seq({"add", "remove", "below"} \X Paths)
    BY <1>1
  <2> HIDE DEF ms
  <2>3. [k EXCEPT !.messages = ms] \in Kernels
    BY <2>2 DEF Kernels
  <2> QED BY <2>1, <2>3 DEF ms
<1>4. kernel' \in {k, [k EXCEPT !.messages = Append(k.messages, <<action, p>>)],
                   [k EXCEPT !.lost = k.lost + 1]}
  BY DEF SendsOrLoses, Sends, Kernels
<1> QED BY <1>3, <1>4

LEMMA KernelKeeps == HostInv /\ KernelNext => HostInv'
<1> SUFFICES ASSUME HostInv, NEW p \in Paths,
                    \/ \E driver \in Drivers : PlugIn(p, driver)
                    \/ PullOut(p)
                    \/ \E f \in Functions : DriverMakes(p, f)
             PROVE  HostInv'
  BY DEF KernelNext
<1>1. /\ sys \in [Paths -> Places] /\ kernel \in Kernels /\ kernel.plugs \in Numbers /\ kernel.makes \in Nat
      /\ MaxPlugs \in Nat
  BY BoundsAssumption DEF HostInv, Types, Kernels
<1>2. sys' \in [Paths -> Places] /\ kernel' \in Kernels
  <2>1. ASSUME NEW driver \in Drivers, PlugIn(p, driver) PROVE sys' \in [Paths -> Places] /\ kernel' \in Kernels
    <3>1. kernel.plugs + 1 \in Numbers
      BY <1>1, <2>1 DEF PlugIn, Numbers
    <3>2. [num |-> kernel.plugs + 1, functions |-> {}, driver |-> driver] \in Places
      BY <3>1, DriversAssumption DEF Places
    <3>3. [kernel EXCEPT !.plugs = @ + 1] \in Kernels
      BY <1>1, <3>1 DEF Kernels
    <3>4. kernel' \in Kernels
      BY <2>1, <3>3, SendsKeeps DEF PlugIn
    <3> QED BY <1>1, <2>1, <3>2, <3>4 DEF PlugIn
  <2>2. CASE PullOut(p)
    <3>1. Gone \in Places
      BY <1>1 DEF Gone, Places, Numbers
    <3>2. kernel' \in Kernels
      BY <1>1, <2>2, SendsKeeps DEF PullOut
    <3> QED BY <1>1, <2>2, <3>1, <3>2 DEF PullOut
  <2>3. ASSUME NEW f \in Functions, DriverMakes(p, f) PROVE sys' \in [Paths -> Places] /\ kernel' \in Kernels
    <3>1. [kernel EXCEPT !.makes = @ + 1] \in Kernels
      BY <1>1 DEF Kernels
    <3>2. kernel' \in Kernels
      BY <2>3, <3>1, SendsKeeps DEF DriverMakes
    <3>3. sys' \in [Paths -> Places]
      BY <1>1, <2>3 DEF DriverMakes, Places
    <3> QED BY <3>2, <3>3
  <2> QED BY <2>1, <2>2, <2>3
<1>3. UNCHANGED <<host, watcher, thread, told, quiet>>
  BY DEF PlugIn, PullOut, DriverMakes
<1>4. WordsOK'
  BY <1>3, AsideKeeps
<1>5. Types'
  BY <1>2, <1>3 DEF HostInv, Types
<1>6. IdsOK(host') /\ DueOK(host', watcher'.pc = "scan") /\ StartOK' /\ QuietOK'
  BY <1>3 DEF HostInv, StartOK, QuietOK
<1> QED BY <1>4, <1>5, <1>6 DEF HostInv, WordsOK

LEMMA TimeKeeps == HostInv /\ TimeNext => HostInv'
<1> SUFFICES ASSUME HostInv, NEW p \in Paths, TimePasses(p) \/ Ages(p) PROVE HostInv'
  BY DEF TimeNext
<1>1. /\ host \in Hosts /\ host.devices \in [Paths -> Devices] /\ host.nextId \in Nat
      /\ host.due \in [Paths -> {"no", "soon", "late", "now"}] /\ host.devices[p] \in Devices
  BY Fields DEF HostInv, Types
<1>2. UNCHANGED <<sys, kernel, watcher, thread, told, quiet>> /\ watcher.pc # "scan"
  BY DEF TimePasses, Ages
<1>3. /\ host' \in Hosts /\ host'.events = host.events /\ host'.enabled = host.enabled
      /\ host'.nextId = host.nextId
      /\ \A q \in Paths : /\ host'.devices[q].id = host.devices[q].id
                          /\ host'.devices[q].functions = host.devices[q].functions
                          /\ host'.devices[q] = NoDevice <=> host.devices[q] = NoDevice
                          /\ host'.due[q] # "no" => host.due[q] # "no"
  <2>1. CASE TimePasses(p)
    <3>1. host' = [host EXCEPT !.due = [host.due EXCEPT ![p] = "now"]]
      BY <1>1, <2>1 DEF TimePasses, Hosts
    <3>2. [host.due EXCEPT ![p] = "now"] \in [Paths -> {"no", "soon", "late", "now"}]
      BY <1>1
    <3>3. /\ host' \in Hosts /\ host'.events = host.events /\ host'.enabled = host.enabled
          /\ host'.nextId = host.nextId /\ host'.devices = host.devices
          /\ host'.due = [host.due EXCEPT ![p] = "now"]
      BY <1>1, <3>1, <3>2 DEF Hosts
    <3> QED BY <1>1, <2>1, <3>3 DEF TimePasses
  <2>2. CASE Ages(p)
    <3> DEFINE n == [host.devices[p] EXCEPT !.aged = TRUE]
               due == [host.due EXCEPT ![p] = IF @ = "late" THEN "now" ELSE @]
    <3>1. host' = [host EXCEPT !.devices = [host.devices EXCEPT ![p] = n], !.due = due]
      BY <1>1, <2>2 DEF Ages, Hosts, Devices
    <3>2. /\ n \in Devices /\ n.id = host.devices[p].id /\ n.functions = host.devices[p].functions
          /\ n # NoDevice
      BY <1>1, NoDeviceIs DEF Devices
    <3>3. due \in [Paths -> {"no", "soon", "late", "now"}] /\ \A q \in Paths : due[q] # "no" => host.due[q] # "no"
      BY <1>1
    <3> HIDE DEF n, due
    <3>4. [host.devices EXCEPT ![p] = n] \in [Paths -> Devices]
      BY <1>1, <3>2
    <3>5. /\ host' \in Hosts /\ host'.events = host.events /\ host'.enabled = host.enabled
          /\ host'.nextId = host.nextId /\ host'.due = due
          /\ host'.devices = [host.devices EXCEPT ![p] = n]
      BY <1>1, <3>1, <3>3, <3>4 DEF Hosts
    <3>6. host.devices[p] # NoDevice
      BY <2>2 DEF Ages
    <3> QED BY <1>1, <3>2, <3>3, <3>5, <3>6
  <2> QED BY <2>1, <2>2
<1>4. IdsOK(host') /\ DueOK(host', watcher'.pc = "scan")
  BY <1>2, <1>3 DEF HostInv, IdsOK, DueOK
<1>5. \A id \in Nat, f \in Shown : Given(host', id, f) <=> Given(host, id, f)
  BY <1>3 DEF Given
<1>6. WordsOK'
  <2>1. Announces(host, host', <<>>)
    BY <1>1, <1>3, <1>5, NothingNew
  <2>2. Types /\ IdsOK(host) /\ WordsOK
    BY DEF HostInv, WordsOK
  <2>3. host'.nextId \in Nat /\ \A c \in host'.enabled : c \in host.enabled /\ told'[c] = told[c]
    BY <1>1, <1>2, <1>3
  <2> QED BY <1>2, <2>1, <2>2, <2>3, AnnouncesKeeps
<1>7. Types' /\ StartOK' /\ QuietOK'
  BY <1>2, <1>3 DEF HostInv, Types, StartOK, QuietOK
<1> QED BY <1>4, <1>6, <1>7 DEF HostInv, WordsOK

\* What Enable and Disable leave to be seen of the threads, the watcher and quiet.
LEMMA ProgramKeeps == HostInv /\ ProgramNext => HostInv'
<1> SUFFICES ASSUME HostInv, ProgramNext PROVE HostInv'
  OBVIOUS
<1>0. /\ Types /\ DueOK(host, watcher.pc = "scan") /\ StartOK /\ QuietOK /\ WordsOK
      /\ thread \in [Threads -> ThreadStates] /\ host.enabled \subseteq Controllers
  BY Fields DEF HostInv, Types, WordsOK
<1>1. ASSUME NEW c \in Controllers, Enables(c), UNCHANGED <<sys, kernel, watcher, thread>> PROVE HostInv'
  <2>1. host' = Enable(host, c) /\ told' = [told EXCEPT ![c] = {}] /\ quiet' = quiet \ {c}
    BY <1>1 DEF Enables
  <2>2. /\ WordsOK' /\ host' \in Hosts /\ IdsOK(host') /\ host'.nextId = host.nextId
        /\ DueOK(host', watcher.pc = "scan") /\ host'.enabled = host.enabled \cup {c}
        /\ told' \in [Controllers -> SUBSET ((1..(host.nextId - 1)) \X Shown)]
    BY <1>0, <1>1, <2>1, EnableKeeps
  <2> QED BY <1>0, <1>1, <2>1, <2>2 DEF HostInv, Types, StartOK, QuietOK, WordsOK
<1>2. ASSUME NEW c \in Controllers, host' = Disable(host, c), told' = [told EXCEPT ![c] = {}],
             UNCHANGED <<sys, kernel, watcher>>, thread' \in [Threads -> ThreadStates],
             \A t \in Threads : /\ thread'[t].in \in {"bind", "list"} => thread'[t] = thread[t]
                                /\ thread'[t].in # "none" => thread'[t].of \in Controllers,
             quiet' = quiet \/ (quiet' = quiet \cup {c} /\ watcher.pc # "notify")
      PROVE  HostInv'
  <2>1. /\ WordsOK' /\ host' \in Hosts /\ IdsOK(host') /\ host'.nextId = host.nextId
        /\ DueOK(host', watcher.pc = "scan") /\ host'.enabled = host.enabled \ {c}
        /\ told' \in [Controllers -> SUBSET ((1..(host.nextId - 1)) \X Shown)]
    BY <1>0, <1>2, DisableKeeps
  <2>2. Types' /\ StartOK' /\ QuietOK'
    BY <1>0, <1>2, <2>1 DEF Types, StartOK, QuietOK
  <2> QED BY <1>2, <2>1, <2>2 DEF HostInv, WordsOK
<1>3. ASSUME NEW t \in Threads, NEW c \in Controllers, ThreadEnables(t, c) PROVE HostInv'
  BY <1>1, <1>3 DEF ThreadEnables
<1>4. ASSUME NEW c \in Controllers, CallbackEnables(c) PROVE HostInv'
  BY <1>1, <1>4 DEF CallbackEnables
<1>5. ASSUME NEW t \in Threads, NEW c \in Controllers, DisableErases(t, c) PROVE HostInv'
  <2> DEFINE n == [in |-> "disable", of |-> c, left |-> {}]
  <2>1. /\ host' = Disable(host, c) /\ told' = [told EXCEPT ![c] = {}] /\ thread' = [thread EXCEPT ![t] = n]
        /\ UNCHANGED <<sys, kernel, watcher, quiet>>
    BY <1>5 DEF DisableErases
  <2>2. n \in ThreadStates /\ n.in = "disable" /\ n.of = c
    BY DEF ThreadStates
  <2> HIDE DEF n
  <2>3. /\ thread' \in [Threads -> ThreadStates]
        /\ \A u \in Threads : /\ thread'[u].in \in {"bind", "list"} => thread'[u] = thread[u]
                              /\ thread'[u].in # "none" => thread'[u].of \in Controllers
    BY <1>0, <2>1, <2>2 DEF Types
  <2> QED BY <1>2, <2>1, <2>3
<1>6. ASSUME NEW c \in Controllers, CallbackDisables(c) PROVE HostInv'
  BY <1>0, <1>2, <1>6 DEF CallbackDisables, Types
<1>7. ASSUME NEW t \in Threads, NEW c \in Controllers, StartBinds(t, c) PROVE HostInv'
  <2> DEFINE n == [in |-> "bind", of |-> c, left |-> {}]
  <2>1. /\ watcher.pc = "none" /\ GateFree /\ thread' = [thread EXCEPT ![t] = n]
        /\ kernel' = [kernel EXCEPT !.listening = TRUE] /\ UNCHANGED <<sys, host, watcher, told, quiet>>
    BY <1>7 DEF StartBinds
  <2>2. n \in ThreadStates /\ n.of = c
    BY DEF ThreadStates
  <2> HIDE DEF n
  <2>3. kernel' \in Kernels
    BY <1>0, <2>1 DEF Types, Kernels
  <2>4. \A u \in Threads : u # t => thread'[u] = thread[u] /\ thread[u].in \notin {"bind", "list"}
    BY <1>0, <2>1 DEF GateFree, Starting
  <2>5. Types' /\ StartOK'
    BY <1>0, <2>1, <2>2, <2>3, <2>4 DEF Types, StartOK
  <2>6. WordsOK'
    BY <2>1, AsideKeeps
  <2> QED BY <2>1, <2>5, <2>6 DEF HostInv, WordsOK, QuietOK
<1> QED BY <1>3, <1>4, <1>5, <1>6, <1>7 DEF ProgramNext

LEMMA ThreadKeeps == ASSUME HostInv, NEW t \in Threads, ThreadGoesOn(t) PROVE HostInv'
<1>0. /\ Types /\ IdsOK(host) /\ DueOK(host, watcher.pc = "scan") /\ StartOK /\ QuietOK /\ WordsOK
      /\ thread \in [Threads -> ThreadStates] /\ host.enabled \subseteq Controllers
      /\ watcher \in Watchers /\ host \in Hosts /\ sys \in [Paths -> Places]
  BY Fields DEF HostInv, Types, WordsOK
<1>1. CASE StartLists(t)
  <2> DEFINE left == {p \in Paths : sys[p] # Gone}
  <2>1. /\ thread[t].in = "bind" /\ thread' = [thread EXCEPT ![t] = [thread[t] EXCEPT !.in = "list", !.left = left]]
        /\ UNCHANGED <<sys, kernel, host, watcher, told, quiet>>
    BY <1>0, <1>1 DEF StartLists, ThreadStates
  <2>2. /\ [thread[t] EXCEPT !.in = "list", !.left = left] \in ThreadStates
        /\ [thread[t] EXCEPT !.in = "list", !.left = left].in = "list"
        /\ [thread[t] EXCEPT !.in = "list", !.left = left].of = thread[t].of
    BY <1>0 DEF ThreadStates
  <2> HIDE DEF left
  <2>3. Types' /\ StartOK' /\ QuietOK'
    BY <1>0, <2>1, <2>2 DEF Types, StartOK, QuietOK
  <2>4. WordsOK'
    BY <2>1, AsideKeeps
  <2> QED BY <1>0, <2>1, <2>3, <2>4 DEF HostInv, WordsOK
<1>2. CASE StartAdds(t)
  <2>1. PICK p \in thread[t].left : /\ host' = Add(host, p, sys[p], "now")
                                    /\ thread' = [thread EXCEPT ![t].left = @ \ {p}]
    BY <1>2 DEF StartAdds
  <2>2. UNCHANGED <<sys, kernel, watcher, told, quiet>> /\ thread[t].in = "list" /\ watcher.pc = "none"
    BY <1>0, <1>2 DEF StartAdds, StartOK
  <2>3. p \in Paths /\ sys[p] \in Places
    BY <1>0 DEF ThreadStates
  <2>4. Told(host, host', FALSE)
    <3>1. HostOK(host, FALSE)
      BY <1>0, <2>2 DEF HostOK
    <3>2. Told(host, Add(host, p, sys[p], "now"), FALSE)
      BY <2>3, <3>1, AddTold
    <3> QED BY <2>1, <3>2
  <2>5. /\ WordsOK' /\ host' \in Hosts /\ IdsOK(host') /\ DueOK(host', FALSE)
        /\ host'.enabled = host.enabled
        /\ told' \in [Controllers -> SUBSET ((1..(host'.nextId - 1)) \X Shown)]
    BY <2>2, <2>4, ToldKeeps
  <2>6. /\ thread' \in [Threads -> ThreadStates]
        /\ \A u \in Threads : thread'[u].in = thread[u].in /\ thread'[u].of = thread[u].of
    BY <1>0, <2>1 DEF ThreadStates
  <2>7. Types' /\ StartOK' /\ QuietOK'
    BY <1>0, <2>2, <2>5, <2>6 DEF Types, StartOK, QuietOK
  <2> QED BY <2>2, <2>5, <2>7 DEF HostInv, WordsOK
<1>3. CASE StartEnds(t)
  <2>1. /\ thread[t].in = "list" /\ host' = Enable(host, thread[t].of)
        /\ told' = [told EXCEPT ![thread[t].of] = {}] /\ quiet' = quiet \ {thread[t].of}
        /\ watcher' = [watcher EXCEPT !.pc = "scan"] /\ thread' = [thread EXCEPT ![t] = Idle]
        /\ UNCHANGED <<sys, kernel>>
    BY <1>3 DEF StartEnds
  <2>2. thread[t].of \in Controllers /\ watcher.pc = "none" /\ \A u \in Threads : u # t => thread[u].in \notin {"bind", "list"}
    BY <1>0, <2>1 DEF Types, StartOK
  <2>3. /\ watcher' \in Watchers /\ watcher'.pc = "scan"
        /\ UNCHANGED <<watcher.event, watcher.targets, watcher.now>>
    BY <1>0, <2>1 DEF Watchers
  <2>4. {watcher.pc, watcher'.pc} \cap {"pick", "notify", "call"} = {}
    BY <2>2, <2>3
  <2>5. /\ WordsOK' /\ host' \in Hosts /\ IdsOK(host') /\ host'.nextId = host.nextId
        /\ DueOK(host', FALSE) /\ host'.enabled = host.enabled \cup {thread[t].of}
        /\ told' \in [Controllers -> SUBSET ((1..(host.nextId - 1)) \X Shown)]
    <3>1. PICK c \in Controllers : c = thread[t].of
      BY <2>2
    <3>2. DueOK(host, FALSE)
      BY <1>0, <2>2
    <3>3. host' = Enable(host, c) /\ told' = [told EXCEPT ![c] = {}]
      BY <2>1, <3>1
    <3>4. /\ WordsOK' /\ host' \in Hosts /\ IdsOK(host') /\ host'.nextId = host.nextId
          /\ \A s \in BOOLEAN : DueOK(host, s) => DueOK(host', s)
          /\ host'.enabled = host.enabled \cup {c}
          /\ told' \in [Controllers -> SUBSET ((1..(host.nextId - 1)) \X Shown)]
      BY <2>3, <2>4, <3>3, EnableKeeps
    <3> QED BY <3>1, <3>2, <3>4
  <2>6. Idle \in ThreadStates /\ Idle.in = "none"
    BY DEF Idle, ThreadStates
  <2>7. Types' /\ StartOK' /\ QuietOK'
    BY <1>0, <2>1, <2>2, <2>3, <2>5, <2>6 DEF Types, StartOK, QuietOK
  <2>8. DueOK(host', watcher'.pc = "scan")
    BY <2>5 DEF DueOK
  <2> QED BY <2>5, <2>7, <2>8 DEF HostInv, WordsOK
<1>4. CASE DisableReturns(t)
  <2>1. /\ thread[t].in = "disable" /\ watcher.pc # "notify" /\ thread' = [thread EXCEPT ![t] = Idle]
        /\ quiet' = quiet \cup ({thread[t].of} \ host.enabled)
        /\ UNCHANGED <<sys, kernel, host, watcher, told>>
    BY <1>4 DEF DisableReturns, Delivering
  <2>2. Idle \in ThreadStates /\ Idle.in = "none" /\ thread[t].of \in Controllers
    BY <1>0, <2>1 DEF Idle, ThreadStates, Types
  <2>3. Types' /\ StartOK' /\ QuietOK'
    BY <1>0, <2>1, <2>2 DEF Types, StartOK, QuietOK
  <2>4. WordsOK'
    BY <2>1, AsideKeeps
  <2> QED BY <1>0, <2>1, <2>3, <2>4 DEF HostInv, WordsOK
<1> QED BY <1>1, <1>2, <1>3, <1>4 DEF ThreadGoesOn, StartGoesOn

-----------------------------------------------------------------------------
\* The watcher's thread.
LEMMA ScanKeeps == ASSUME HostInv, NEW p \in Paths, ScanDue(p) PROVE HostInv'
<1>0. /\ Types /\ IdsOK(host) /\ DueOK(host, TRUE) /\ StartOK /\ QuietOK /\ WordsOK
      /\ watcher \in Watchers /\ host \in Hosts /\ sys \in [Paths -> Places] /\ watcher.pc = "scan"
  BY DEF HostInv, Types, WordsOK, ScanDue
<1>1. /\ host' = Scan(host, p, sys[p]) /\ watcher' \in {watcher, [watcher EXCEPT !.load = @ \cup {p}]}
      /\ UNCHANGED <<sys, kernel, thread, told, quiet>>
  BY DEF ScanDue
<1>2. /\ watcher' \in Watchers /\ watcher'.pc = "scan"
      /\ UNCHANGED <<watcher.event, watcher.targets, watcher.now>>
  BY <1>0, <1>1 DEF Watchers
<1>3. Told(host, host', TRUE)
  <2>1. HostOK(host, TRUE) /\ sys[p] \in Places
    BY <1>0 DEF HostOK
  <2>2. Told(host, Scan(host, p, sys[p]), TRUE)
    BY <2>1, ScanTold
  <2> QED BY <1>1, <2>2
<1>4. /\ WordsOK' /\ host' \in Hosts /\ IdsOK(host') /\ DueOK(host', TRUE)
      /\ host'.enabled = host.enabled
      /\ told' \in [Controllers -> SUBSET ((1..(host'.nextId - 1)) \X Shown)]
  BY <1>0, <1>1, <1>2, <1>3, ToldKeeps
<1>5. Types' /\ StartOK' /\ QuietOK'
  BY <1>0, <1>1, <1>2, <1>4 DEF Types, StartOK, QuietOK
<1> QED BY <1>2, <1>4, <1>5 DEF HostInv, WordsOK

LEMMA ReceivesKeeps == ASSUME HostInv, Receives PROVE HostInv'
<1>0. /\ Types /\ IdsOK(host) /\ DueOK(host, FALSE) /\ StartOK /\ QuietOK /\ WordsOK
      /\ watcher \in Watchers /\ host \in Hosts /\ sys \in [Paths -> Places] /\ watcher.pc = "receive"
      /\ kernel \in Kernels /\ kernel.messages \in Seq({"add", "remove", "below"} \X Paths)
  BY DEF HostInv, Types, WordsOK, Receives, Kernels
<1>1. UNCHANGED <<sys, thread, told, quiet>>
  BY DEF Receives
<1>2. CASE kernel.messages = <<>>
  <2>1. watcher' = [watcher EXCEPT !.pc = "scan"] /\ UNCHANGED <<kernel, host>>
    BY <1>2 DEF Receives
  <2>2. /\ watcher' \in Watchers /\ watcher'.pc = "scan"
        /\ UNCHANGED <<watcher.event, watcher.targets, watcher.now>>
    BY <1>0, <2>1 DEF Watchers
  <2>3. {watcher.pc, watcher'.pc} \cap {"pick", "notify", "call"} = {}
    BY <1>0, <2>2
  <2>4. WordsOK'
    BY <1>1, <2>1, <2>2, <2>3, AsideKeeps
  <2>5. DueOK(host', watcher'.pc = "scan")
    BY <1>0, <2>1 DEF DueOK
  <2>6. GateFree
    BY DEF Receives
  <2>7. Types' /\ StartOK' /\ QuietOK'
    BY <1>0, <1>1, <2>1, <2>2, <2>6 DEF Types, StartOK, QuietOK, GateFree, Starting
  <2> QED BY <1>0, <2>1, <2>4, <2>5, <2>7 DEF HostInv, WordsOK
<1>3. CASE kernel.messages # <<>>
  <2> DEFINE m == Head(kernel.messages)
  <2>1. m \in {"add", "remove", "below"} \X Paths /\ Tail(kernel.messages) \in Seq({"add", "remove", "below"} \X Paths)
    BY <1>0, <1>3, HeadTailProperties
  <2>2. m[1] \in {"add", "remove", "below"} /\ m[2] \in Paths /\ sys[m[2]] \in Places
    BY <1>0, <2>1
  <2>3. /\ kernel' = [kernel EXCEPT !.messages = Tail(kernel.messages)]
        /\ host' = CASE m[1] = "add" -> Add(host, m[2], sys[m[2]], "soon")
                     [] m[1] = "remove" -> RemoveDevice(host, m[2])
                     [] m[1] = "below" ->
                          IF host.devices[m[2]] = NoDevice THEN host
                          ELSE [host EXCEPT !.due[m[2]] = Sooner(@, "soon")]
        /\ UNCHANGED watcher
    BY <1>0, <1>3 DEF Receives, Kernels
  <2>4. kernel' \in Kernels
    BY <1>0, <2>1, <2>3 DEF Kernels
  <2> HIDE DEF m
  <2>5. Told(host, host', FALSE)
    <3>1. HostOK(host, FALSE)
      BY <1>0 DEF HostOK
    <3>2. CASE m[1] = "add"
      <4>1. Told(host, Add(host, m[2], sys[m[2]], "soon"), FALSE)
        BY <2>2, <3>1, AddTold
      <4> QED BY <4>1, <2>3, <3>2
    <3>3. CASE m[1] = "remove"
      <4>1. Told(host, RemoveDevice(host, m[2]), FALSE)
        BY <2>2, <3>1, RemoveTold
      <4> QED BY <4>1, <2>3, <3>3
    <3>4. CASE m[1] = "below" /\ host.devices[m[2]] = NoDevice
      <4>1. host' = host
        BY <2>3, <3>4
      <4> QED BY <4>1, <3>1, SameTold
    <3>5. CASE m[1] = "below" /\ host.devices[m[2]] # NoDevice
      <4> DEFINE due == [host.due EXCEPT ![m[2]] = Sooner(@, "soon")]
      <4>1. host' = [host EXCEPT !.due = due]
        BY <1>0, <2>2, <2>3, <3>5 DEF Hosts
      <4>2. due \in [Paths -> {"no", "soon", "late", "now"}]
        BY <1>0, Fields DEF Sooner
      <4>3. \A q \in Paths : q # m[2] => due[q] = host.due[q]
        BY <1>0, Fields
      <4> HIDE DEF due
      <4>4. /\ host' \in Hosts /\ host'.devices = host.devices /\ host'.due = due
            /\ host'.events = host.events /\ host'.enabled = host.enabled /\ host'.nextId = host.nextId
        BY <1>0, <4>1, <4>2 DEF Hosts
      <4>5. IdsOK(host') /\ DueOK(host', FALSE)
        BY <1>0, <3>5, <4>3, <4>4 DEF IdsOK, DueOK
      <4>6. host'.nextId >= host.nextId /\ \A id \in Nat, f \in Shown : Given(host', id, f) <=> Given(host, id, f)
        BY <1>0, <4>4, Fields DEF Given
      <4>7. Announces(host, host', <<>>)
        BY <1>0, <4>4, <4>6, NothingNew
      <4> QED BY <4>4, <4>5, <4>7 DEF Told, HostOK
    <3> QED BY <2>2, <3>2, <3>3, <3>4, <3>5
  <2>6. /\ WordsOK' /\ host' \in Hosts /\ IdsOK(host') /\ DueOK(host', FALSE)
        /\ host'.enabled = host.enabled
        /\ told' \in [Controllers -> SUBSET ((1..(host'.nextId - 1)) \X Shown)]
    BY <1>1, <2>3, <2>5, ToldKeeps
  <2>7. Types' /\ StartOK' /\ QuietOK'
    BY <1>0, <1>1, <2>3, <2>4, <2>6 DEF Types, StartOK, QuietOK
  <2> QED BY <1>0, <2>3, <2>6, <2>7 DEF HostInv, WordsOK
<1> QED BY <1>2, <1>3

LEMMA LoadsKeeps == ASSUME HostInv, Loads PROVE HostInv'
<1>0. /\ Types /\ IdsOK(host) /\ DueOK(host, FALSE) /\ StartOK /\ QuietOK /\ WordsOK
      /\ watcher \in Watchers /\ host \in Hosts /\ sys \in [Paths -> Places] /\ watcher.pc = "load"
  BY DEF HostInv, Types, WordsOK, Loads
<1> DEFINE due == [p \in Paths |-> IF p \in watcher.load THEN "now" ELSE host.due[p]]
<1>1. /\ host' = [host EXCEPT !.due = due] /\ watcher' = [watcher EXCEPT !.pc = "scan", !.load = {}]
      /\ GateFree /\ UNCHANGED <<kernel, thread, told, quiet>>
  BY <1>0 DEF Loads, Hosts
<1>2. sys' \in [Paths -> Places]
  <2>1. PICK bound : sys' = [p \in Paths |-> IF p \in bound THEN [sys[p] EXCEPT !.driver = "bound"] ELSE sys[p]]
    BY DEF Loads
  <2>2. \A p \in Paths : sys[p] \in Places /\ [sys[p] EXCEPT !.driver = "bound"] \in Places
    BY <1>0 DEF Places
  <2> QED BY <2>1, <2>2
<1>3. /\ due \in [Paths -> {"no", "soon", "late", "now"}]
      /\ \A p \in Paths : due[p] = "now" \/ due[p] = host.due[p]
  BY <1>0, Fields
<1> HIDE DEF due
<1>4. /\ host' \in Hosts /\ host'.devices = host.devices /\ host'.due = due
      /\ host'.events = host.events /\ host'.enabled = host.enabled /\ host'.nextId = host.nextId
  BY <1>0, <1>1, <1>3 DEF Hosts
<1>5. /\ watcher' \in Watchers /\ watcher'.pc = "scan"
      /\ UNCHANGED <<watcher.event, watcher.targets, watcher.now>>
  BY <1>0, <1>1 DEF Watchers
<1>6. IdsOK(host') /\ DueOK(host', TRUE)
  BY <1>0, <1>3, <1>4 DEF IdsOK, DueOK
<1>7. WordsOK'
  <2>1. host'.nextId >= host.nextId /\ \A id \in Nat, f \in Shown : Given(host', id, f) <=> Given(host, id, f)
    BY <1>0, <1>4, Fields DEF Given
  <2>2. Announces(host, host', <<>>)
    BY <1>0, <1>4, <2>1, NothingNew
  <2>3. Told(host, host', TRUE)
    BY <1>4, <1>6, <2>2 DEF Told, HostOK
  <2>4. {watcher.pc, watcher'.pc} \cap {"pick", "notify", "call"} = {}
    BY <1>0, <1>5
  <2> QED BY <1>1, <1>5, <2>3, <2>4, ToldKeeps
<1>8. Types' /\ StartOK' /\ QuietOK'
  BY <1>0, <1>1, <1>2, <1>4, <1>5 DEF Types, StartOK, QuietOK, GateFree, Starting
<1> QED BY <1>5, <1>6, <1>7, <1>8 DEF HostInv, WordsOK

\* A step of the watcher's that changes only where it is.
LEMMA MovesKeeps ==
  ASSUME HostInv, ScanEnds \/ Polls \/ (Pops /\ host.events = <<>>) PROVE HostInv'
<1>0. /\ Types /\ IdsOK(host) /\ DueOK(host, watcher.pc = "scan") /\ StartOK /\ QuietOK /\ WordsOK
      /\ watcher \in Watchers /\ host \in Hosts
  BY DEF HostInv, Types, WordsOK
<1>1. /\ watcher'.pc \in {"load", "pop", "poll", "receive", "scan"} /\ watcher' = [watcher EXCEPT !.pc = watcher'.pc]
      /\ UNCHANGED <<sys, kernel, thread, told, quiet>> /\ watcher.pc \in {"scan", "poll", "pop"}
      /\ host' = host \/ host' = [host EXCEPT !.wake = FALSE]
  BY <1>0 DEF ScanEnds, Polls, Pops, Watchers
<1>2. /\ host' \in Hosts /\ host'.devices = host.devices /\ host'.due = host.due
      /\ host'.events = host.events /\ host'.enabled = host.enabled /\ host'.nextId = host.nextId
  BY <1>0, <1>1 DEF Hosts
<1>3. watcher' \in Watchers /\ UNCHANGED <<watcher.event, watcher.targets, watcher.now>>
  BY <1>0, <1>1 DEF Watchers
<1>4. IdsOK(host')
  BY <1>0, <1>2 DEF IdsOK
<1>5. DueOK(host', FALSE)
  <2>1. CASE ScanEnds
    BY <2>1, <1>0, <1>2 DEF ScanEnds, DueOK
  <2>2. CASE Polls \/ Pops
    <3>1. watcher.pc # "scan"
      BY <2>2 DEF Polls, Pops
    <3> QED BY <3>1, <1>0, <1>2 DEF DueOK
  <2> QED BY <2>1, <2>2
<1>6. WordsOK'
  <2>1. host'.nextId >= host.nextId /\ \A id \in Nat, f \in Shown : Given(host', id, f) <=> Given(host, id, f)
    BY <1>0, <1>2, Fields DEF Given
  <2>2. Announces(host, host', <<>>)
    BY <1>0, <1>2, <2>1, NothingNew
  <2>3. Told(host, host', FALSE)
    BY <1>2, <1>4, <1>5, <2>2 DEF Told, HostOK
  <2>4. {watcher.pc, watcher'.pc} \cap {"pick", "notify", "call"} = {}
    BY <1>1
  <2> QED BY <1>1, <1>3, <2>3, <2>4, ToldKeeps
<1>7. Types' /\ StartOK' /\ QuietOK'
  BY <1>0, <1>1, <1>2, <1>3 DEF Types, StartOK, QuietOK
<1>8. DueOK(host', watcher'.pc = "scan")
  BY <1>5 DEF DueOK
<1> QED BY <1>4, <1>6, <1>7, <1>8 DEF HostInv, WordsOK

LEMMA DeliversKeeps ==
  ASSUME HostInv, (Pops /\ host.events # <<>>) \/ Picks \/ Notifies \/ CallReturns PROVE HostInv'
<1>0. /\ Types /\ IdsOK(host) /\ DueOK(host, FALSE) /\ StartOK /\ QuietOK /\ WordsOK
      /\ watcher \in Watchers /\ host \in Hosts
      /\ told \in [Controllers -> SUBSET ((1..(host.nextId - 1)) \X Shown)]
      /\ watcher.pc \in {"pop", "pick", "notify", "call"}
  BY DEF HostInv, Types, WordsOK, Pops, Picks, Notifies, CallReturns
<1>1. \A s : DueOK(host, FALSE) => DueOK(host, s)
  BY DEF DueOK
<1>2. CASE Pops /\ host.events # <<>>
  <2>1. WordsOK' /\ host' \in Hosts /\ host' = [host EXCEPT !.events = Tail(host.events)] /\ watcher' \in Watchers
    BY <1>2, PopsKeeps
  <2>2. /\ host'.devices = host.devices /\ host'.due = host.due /\ host'.enabled = host.enabled
        /\ host'.nextId = host.nextId
    BY <1>0, <2>1 DEF Hosts
  <2>3. watcher'.pc = "pick" /\ UNCHANGED <<sys, kernel, thread, told, quiet>> /\ watcher.pc = "pop"
    BY <1>0, <1>2 DEF Pops, Watchers
  <2>4. Types' /\ StartOK' /\ QuietOK' /\ IdsOK(host') /\ DueOK(host', FALSE)
    BY <1>0, <2>1, <2>2, <2>3 DEF Types, StartOK, QuietOK, IdsOK, DueOK
  <2>5. DueOK(host', watcher'.pc = "scan")
    BY <2>4 DEF DueOK
  <2> QED BY <2>1, <2>4, <2>5 DEF HostInv, WordsOK
<1>3. CASE Picks
  <2>1. watcher.pc = "pick" /\ UNCHANGED <<sys, kernel, host, thread, told, quiet>>
    BY <1>3 DEF Picks
  <2>2. /\ watcher.event \in EventType /\ Right(host, 0, watcher.event) /\ QueueOK(host) /\ ToldOK
    BY <1>0, <2>1 DEF WordsOK, CurrentOK
  <2>3. CASE watcher.targets = {}
    <3>1. watcher' = [watcher EXCEPT !.pc = "pop", !.event = None]
      BY <1>3, <2>3 DEF Picks
    <3>2. watcher' \in Watchers /\ watcher'.pc = "pop" /\ watcher'.targets = {}
      BY <1>0, <2>3, <3>1 DEF Watchers
    <3>3. CurrentOK'
      BY <3>2 DEF CurrentOK
    <3>4. ToldOK'
      BY <2>1, <2>2, <2>3, <3>2 DEF ToldOK, AboutToHear
    <3>5. Types' /\ StartOK' /\ QuietOK' /\ DueOK(host', watcher'.pc = "scan")
      BY <1>0, <1>1, <2>1, <3>2 DEF Types, StartOK, QuietOK
    <3> QED BY <1>0, <2>1, <2>2, <3>3, <3>4, <3>5 DEF HostInv
  <2>4. CASE watcher.targets # {}
    <3>1. PICK c \in watcher.targets :
            watcher' = IF c \in host.enabled
                       THEN [watcher EXCEPT !.targets = @ \ {c}, !.pc = "notify", !.now = c]
                       ELSE [watcher EXCEPT !.targets = @ \ {c}]
      BY <1>3, <2>4 DEF Picks
    <3>2. c \in Controllers
      BY <1>0 DEF Watchers
    <3>3. /\ watcher' \in Watchers /\ watcher'.event = watcher.event /\ watcher'.targets = watcher.targets \ {c}
          /\ \/ c \in host.enabled /\ watcher'.pc = "notify" /\ watcher'.now = c
             \/ c \notin host.enabled /\ watcher'.pc = "pick"
      BY <1>0, <2>1, <3>1, <3>2 DEF Watchers
    <3>4. CurrentOK'
      BY <2>1, <2>2, <3>3 DEF CurrentOK, Right, AllBehind, Given
    <3>5. \A e \in host.enabled : AboutToHear(e)' <=> AboutToHear(e)
      BY <2>1, <3>3 DEF AboutToHear
    <3>6. ToldOK'
      BY <2>1, <2>2, <3>3, <3>5 DEF ToldOK
    <3>7. Types' /\ StartOK' /\ QuietOK' /\ DueOK(host', watcher'.pc = "scan")
      BY <1>0, <1>1, <2>1, <3>2, <3>3 DEF Types, StartOK, QuietOK
    <3> QED BY <1>0, <2>1, <2>2, <3>4, <3>6, <3>7 DEF HostInv
  <2> QED BY <2>3, <2>4
<1>4. CASE Notifies
  <2>1. /\ watcher.pc = "notify" /\ watcher' = [watcher EXCEPT !.pc = "call"]
        /\ told' = [told EXCEPT ![watcher.now] =
                      IF watcher.now \in host.enabled THEN Knows(@, watcher.event) ELSE @]
        /\ UNCHANGED <<sys, kernel, host, thread, quiet>>
    BY <1>4 DEF Notifies
  <2>2. /\ watcher' \in Watchers /\ watcher'.pc = "call" /\ UNCHANGED <<watcher.event, watcher.targets, watcher.now>>
    BY <1>0, <2>1 DEF Watchers
  <2>3. /\ watcher.event \in EventType /\ Right(host, 0, watcher.event) /\ QueueOK(host) /\ ToldOK
        /\ watcher.now \in Controllers
    BY <1>0, <2>1 DEF WordsOK, CurrentOK, QuietOK
  <2>4. CurrentOK'
    BY <2>1, <2>2, <2>3 DEF CurrentOK, Right, AllBehind, Given
  <2>a. Knows(told[watcher.now], watcher.event) \in SUBSET ((1..(host.nextId - 1)) \X Shown)
    BY <1>0, <2>3 DEF Knows, EventType, Right
  <2>5. told' \in [Controllers -> SUBSET ((1..(host.nextId - 1)) \X Shown)]
    BY <1>0, <2>1, <2>3, <2>a
  <2>6. ToldOK'
    <3> SUFFICES ASSUME NEW c \in host.enabled, NEW id \in 1..(host.nextId - 1), NEW f \in Shown,
                        NoneQueued(host, c, id, f), ~(AboutToHear(c)' /\ Tells(watcher.event, c, id, f))
                 PROVE  <<id, f>> \in told'[c] <=> Given(host, id, f)
      BY <2>1, <2>2 DEF ToldOK
    <3> DEFINE e == watcher.event
    <3>0. AboutToHear(c)' <=> c \in watcher.targets
      BY <2>2 DEF AboutToHear
    <3>1. CASE c = watcher.now /\ id = e.id /\ f = e.function
      <4>1. told'[c] = IF e.on THEN told[c] \cup {<<id, f>>} ELSE told[c] \ {<<id, f>>}
        BY <1>0, <2>1, <2>3, <3>1 DEF Knows
      <4>2. ~AllBehind(host, 0, id, f)
        BY DEF AllBehind, NoneQueued, Tells
      <4> QED BY <2>3, <3>1, <4>1, <4>2 DEF Right
    <3>2. CASE ~(c = watcher.now /\ id = e.id /\ f = e.function)
      <4>1. <<id, f>> \in told'[c] <=> <<id, f>> \in told[c]
        BY <1>0, <2>1, <2>3, <3>2 DEF Knows
      <4>2. ~(AboutToHear(c) /\ Tells(e, c, id, f))
        BY <3>0, <3>2 DEF AboutToHear, Tells
      <4> QED BY <2>3, <4>1, <4>2 DEF ToldOK
    <3> QED BY <3>1, <3>2
  <2>7. Types' /\ StartOK' /\ QuietOK' /\ DueOK(host', watcher'.pc = "scan")
    BY <1>0, <1>1, <2>1, <2>2, <2>5 DEF Types, StartOK, QuietOK
  <2> QED BY <1>0, <2>1, <2>3, <2>4, <2>6, <2>7 DEF HostInv
<1>5. CASE CallReturns
  <2>1. /\ watcher.pc = "call" /\ watcher' = [watcher EXCEPT !.pc = "pick", !.now = None]
        /\ UNCHANGED <<sys, kernel, host, thread, told, quiet>>
    BY <1>5 DEF CallReturns
  <2>2. watcher' \in Watchers /\ watcher'.pc = "pick" /\ UNCHANGED <<watcher.event, watcher.targets>>
    BY <1>0, <2>1 DEF Watchers
  <2>3. CurrentOK' /\ ToldOK'
    BY <1>0, <2>1, <2>2 DEF WordsOK, CurrentOK, ToldOK, AboutToHear, Right, AllBehind, Given
  <2>4. Types' /\ StartOK' /\ QuietOK' /\ DueOK(host', watcher'.pc = "scan")
    BY <1>0, <1>1, <2>1, <2>2 DEF Types, StartOK, QuietOK
  <2> QED BY <1>0, <2>1, <2>3, <2>4 DEF HostInv, WordsOK
<1> QED BY <1>2, <1>3, <1>4, <1>5

-----------------------------------------------------------------------------
LEMMA NextInv == HostInv /\ [Next]_vars => HostInv'
<1> SUFFICES ASSUME HostInv, [Next]_vars PROVE HostInv'
  OBVIOUS
<1>1. CASE KernelNext
  BY <1>1, KernelKeeps
<1>2. CASE ProgramNext
  BY <1>2, ProgramKeeps
<1>3. CASE WatcherNext
  <2>1. CASE \E p \in Paths : ScanDue(p)
    BY <2>1, ScanKeeps
  <2>2. CASE ScanEnds \/ Polls \/ (Pops /\ host.events = <<>>)
    BY <2>2, MovesKeeps
  <2>3. CASE (Pops /\ host.events # <<>>) \/ Picks \/ Notifies \/ CallReturns
    BY <2>3, DeliversKeeps
  <2>4. CASE Loads
    BY <2>4, LoadsKeeps
  <2>5. CASE Receives
    BY <2>5, ReceivesKeeps
  <2> QED BY <1>3, <2>1, <2>2, <2>3, <2>4, <2>5 DEF WatcherNext
<1>4. CASE TimeNext
  BY <1>4, TimeKeeps
<1>5. CASE \E t \in Threads : ThreadGoesOn(t)
  BY <1>5, ThreadKeeps
<1>6. CASE UNCHANGED vars
  BY <1>6 DEF vars, HostInv, Types, IdsOK, DueOK, QueueOK, CurrentOK, ToldOK, StartOK, QuietOK,
              Right, AllBehind, Given, NoneQueued, AboutToHear
<1> QED BY <1>1, <1>2, <1>3, <1>4, <1>5, <1>6 DEF Next

LEMMA AlwaysInv == Spec => []HostInv
BY InitInv, NextInv, PTL DEF Spec

LEMMA InvTypes == HostInv => TypeOK
<1> SUFFICES ASSUME HostInv PROVE TypeOK
  OBVIOUS
<1>1. Types /\ host \in Hosts /\ DueOK(host, watcher.pc = "scan")
  BY DEF HostInv, Types
<1>2. \A p \in Paths : host.due[p] # "no" => host.devices[p] # NoDevice \/ watcher.pc = "scan"
  BY <1>1 DEF DueOK
<1>3. \A c \in Controllers : told[c] \subseteq (1..(host.nextId - 1)) \X Shown
  BY <1>1 DEF Types
<1> QED BY <1>1, <1>2, <1>3 DEF TypeOK, Types, Hosts, Devices, Places, Watchers

\* A set of positions in a queue has a last one.
LEMMA LastPosition ==
  ASSUME NEW n \in Nat, NEW S, S \subseteq 1..n, S # {}
  PROVE  \E m \in S : \A j \in S : j <= m
<1> DEFINE Left == {k \in 0..n : n - k \in S}
<1>2. \A k \in Left : k \in 0..n /\ n - k \in S
  OBVIOUS
<1>3. \A j \in S : n - j \in Left
  <2> SUFFICES ASSUME NEW j \in S PROVE n - j \in Left
    OBVIOUS
  <2>1. n - j \in 0..n /\ n - (n - j) = j
    OBVIOUS
  <2> QED BY <2>1
<1> HIDE DEF Left
<1>0. 0..n \subseteq Nat
  OBVIOUS
<1>a. Left \subseteq Nat
  BY <1>0, <1>2
<1>b. Left # {}
  BY <1>3, Zenon
<1>1. Left \subseteq Nat /\ Left # {}
  BY <1>a, <1>b
<1>4. PICK k \in Left : \A j \in Left : <<j, k>> \notin OpToRel(<, Nat)
  BY <1>1, NatLessThanWellFounded, WFMin
<1>5. \A j \in Left : ~(j < k)
  BY <1>1, <1>4 DEF OpToRel
<1>6. n - k \in S
  BY <1>2
<1>7. \A j \in S : j <= n - k
  <2> SUFFICES ASSUME NEW j \in S PROVE j <= n - k
    OBVIOUS
  <2>1. ~(n - j < k)
    BY <1>3, <1>5
  <2> QED BY <2>1, <1>2
<1> QED BY <1>6, <1>7

LEMMA InvTold == HostInv => EverythingTold
<1> SUFFICES ASSUME HostInv, NEW c \in host.enabled, NEW id \in 1..(host.nextId - 1), NEW f \in Shown
             PROVE  LET queued == {i \in 1..Len(host.events) : Tells(host.events[i], c, id, f)}
                        last == host.events[CHOOSE i \in queued : \A j \in queued : j <= i]
                    IN  <<id, f>> \in Connected <=>
                          IF queued # {} THEN last.on
                          ELSE IF AboutToHear(c) /\ Tells(watcher.event, c, id, f) THEN watcher.event.on
                          ELSE <<id, f>> \in told[c]
  BY DEF EverythingTold
<1> DEFINE queued == {i \in 1..Len(host.events) : Tells(host.events[i], c, id, f)}
           m == CHOOSE i \in queued : \A j \in queued : j <= i
<1>1. QueueOK(host) /\ CurrentOK /\ ToldOK /\ host.events \in Seq(EventType)
  BY Fields DEF HostInv, Types
<1>2. Len(host.events) \in Nat
  BY <1>1, LenProperties
<1>3. <<id, f>> \in Connected <=> Given(host, id, f)
  BY DEF Connected, Given
<1>4. CASE queued # {}
  <2>1. m \in queued /\ \A j \in queued : j <= m
    <3>1. queued \subseteq 1..Len(host.events)
      OBVIOUS
    <3> HIDE DEF queued
    <3>2. \E i \in queued : \A j \in queued : j <= i
      BY <1>2, <1>4, <3>1, LastPosition
    <3> QED BY <3>2
  <2> HIDE DEF m
  <2>2. m \in 1..Len(host.events) /\ Tells(host.events[m], c, id, f)
    BY <2>1
  <2>3. ~AllBehind(host, m, id, f)
    <3> SUFFICES ASSUME NEW j \in (m + 1)..Len(host.events), host.events[j].to = All,
                        host.events[j].id = id, host.events[j].function = f
                 PROVE  FALSE
      BY DEF AllBehind
    <3>1. j \in queued
      BY <1>2, <2>2 DEF Tells
    <3> QED BY <1>2, <2>1, <2>2, <3>1
  <2>4. Right(host, m, host.events[m])
    BY <1>1, <2>2 DEF QueueOK
  <2>5. host.events[m].on <=> Given(host, id, f)
    BY <2>2, <2>3, <2>4 DEF Right, Tells
  <2> QED BY <1>3, <1>4, <2>5 DEF m
<1>5. CASE queued = {}
  <2>1. NoneQueued(host, c, id, f) /\ ~AllBehind(host, 0, id, f)
    BY <1>5 DEF NoneQueued, AllBehind, Tells
  <2>2. CASE AboutToHear(c) /\ Tells(watcher.event, c, id, f)
    <3>1. Right(host, 0, watcher.event)
      BY <1>1, <2>2 DEF CurrentOK, AboutToHear
    <3>2. watcher.event.on <=> Given(host, id, f)
      BY <2>1, <2>2, <3>1 DEF Right, Tells
    <3> QED BY <1>3, <1>5, <2>2, <3>2
  <2>3. CASE ~(AboutToHear(c) /\ Tells(watcher.event, c, id, f))
    <3>1. <<id, f>> \in told[c] <=> Given(host, id, f)
      BY <1>1, <2>1, <2>3 DEF ToldOK
    <3> QED BY <1>3, <1>5, <2>3, <3>1
  <2> QED BY <2>2, <2>3
<1> QED BY <1>4, <1>5

\* The watcher's state, what is due, the queue and what the controllers know are
\* of their types, whatever the program, the kernel and the library do.
THEOREM TypeCorrect == Spec => []TypeOK
BY AlwaysInv, InvTypes, PTL

\* Nothing is lost or left over: the last word on its way to a controller, or
\* else what it was told, is what the devices give now (UsbHost.cpp:267, 497, 548, 703).
THEOREM NothingLost == Spec => []EverythingTold
BY AlwaysInv, InvTold, PTL

\* Once Disable has returned the callback is not called, until the controller is
\* enabled again (UsbHost.cpp:276).
THEOREM QuietIsQuiet == Spec => NoCallAfterDisable
<1>1. HostInv /\ [Next]_vars => [Notifies => watcher.now \notin quiet]_vars
  BY DEF HostInv, QuietOK, Notifies
<1> QED BY <1>1, AlwaysInv, PTL DEF Spec, NoCallAfterDisable

=============================================================================

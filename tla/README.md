# Endpoint's native library: a verification project

TLA+ models, TLC runs and TLAPS proofs for `src/native`, the C++ library behind
GHI Electronics' Endpoint boards (STM32MP1 with Linux). Most of the .NET and Python
libraries are wrappers over its C interface, so their threads, shared state and
error paths are here; the .NET core library has the pins and ports a second
time in C#, line by line the same algorithms. Paths below are relative to
`src/native/src` unless they begin with another directory.

1. [The system](#1-the-system)
2. [Modules](#2-modules): which models what, and how it corresponds to the code
3. [Runs](#3-runs): what each checks, its bounds, its fairness
4. [Proofs](#4-proofs)
5. [Findings](#5-findings): what the code does that its documents do not say
6. [What is not modelled](#6-what-is-not-modelled)

## 1. The system

### Components

| component | state it keeps | operations | talks to |
|---|---|---|---|
| pin reservations (`PinReservations.cpp`) | pin → owner name, under a gate | Reserve, Release | everybody that uses pins |
| peripheral pins (`PeripheralPins.cpp`, `Stm32Mp1Pins.cpp`) | owner → its pins and how it found them, under a gate; the port registers through `/dev/mem` | Connect, Disconnect | reservations, registers |
| GPIO (`Gpio.cpp`, `GpioChips.cpp`) | per controller: open lines, callbacks, a watcher thread, an eventfd; the kernel's queue of edges per line | OpenPin, ClosePin, SetPinMode, AddCallback, RemoveCallback, WaitForEvent, the destructor | reservations, kernel |
| buses and ports of the EPM815 (`Epm815.cpp`) | which are initialized (= connected pins), SerialPort's map of flow control, I2C's frequency file, CAN links | Initialize, UnInitialize | peripheral pins, `ip` commands |
| USB host (`UsbHost.cpp`) | devices by path, what is due, events to deliver, enabled controllers; one watcher thread | Enable, Disable, the watcher's scan, load, receive, deliver | kernel uevents, `/sys`, callbacks |
| storage (`Storage.cpp`) | drives by disk with a handle each, folders and mounts, events | Mount, Unmount, Enable, the watcher's check, receive, deliver | kernel uevents, `/sys/block`, `/proc/mounts` |
| camera (`Camera.cpp`) | running, events, the latest frame, one worker thread, under a mutex | Capture, StartStreaming, StopStreaming, SetResolution, the destructor | V4L2, the frame event |
| user interface (`UI.cpp`, `include/endpoint/UI.h`) | LVGL initialized or not, its one display, the loop's two flags, timers with their trampolines, the point fed last | Initialize (framebuffer, custom), Run, Stop, Create, SetPeriod, Delete, FeedTouch | LVGL, program callbacks |
| widgets (`UICApi.cpp`, the classes of `UI.h`) | LVGL's tree of objects; memory hung on them (event callbacks, user data, a table of images); the program's handles | make, delete, set an image, define a grid | LVGL |
| USB access (`UsbAccess.cpp`) | a device's file, claimed interfaces and those to give back to their drivers, a watch thread with its gone flag | RawDevice, HidDevice, Printer: open, transfer, SetConfiguration, Watch, close | usbfs, kernel drivers |
| USB input (`Input.cpp`) | the device's state under a mutex, the cursor with bounds and scale, a thread with a stop | open, read the state, SetPosition, SetBounds, SetScale, close | evdev, the program's callback |
| touch (`Touch.cpp`) | slots of fingers, a single touch, a thread with a stop | open, CurrentPoints, close | evdev, the program's callback |
| sound (`Sound.cpp`) | the open PCM, a recording flag and thread | Play, Record, StartRecording, StopRecording | ALSA |
| serial ports (`Ports.cpp`, `Ports.h`) | the file, what ReadLine kept for the next read | Read…, Write…, Discard…, Close | a terminal of the kernel |
| system commands (`SystemCommands.cpp`) | two pipes and a process per call | Run | `ip`, `modprobe` and others |
| displays (`Display.cpp`, `DisplayStm32.cpp`) | the panel's kernel modules, the framebuffer's stream, the backlight's process and the file that names it | Enable, Disable | kernel, `gpioset` |
| initializers of EPN256 and EPN128 (`EPN256.h`, `EPN128.h`) | counts of users per peripheral under a gate | Initialize, UnInitialize of SPI, I2C, PWM, CAN, UART | `modprobe`, bind files, `ip` |
| PWM channels (`Buses.cpp`) | period, frequency and duty cycle as last written | open, Frequency, DutyCycle, Start, Stop, close | the kernel's channel |
| network (`Network.cpp`) | nothing in memory but the controller's type; interfaces, DHCP clients, routes and a settings file | Enable, Disable, the interface's name, save settings | `ip`, `udhcpc`, `wpa_supplicant` |
| watchdog and clock (`System.cpp`) | enabled or not, the open device | Enable, Reset, Disable; read and set the clock | kernel |
| ADC, DAC, I2C and SPI devices, CAN sockets, graphics | a file each, some under a gate | one call at a time | kernel |
| C interface (`*CApi.cpp`, `Errors.cpp`), headers, most of .NET and Python | handles, callback records | forward, turn exceptions into codes | all of the above |
| .NET pins, ports and GPIO driver (`src/Dotnet/…Core`) | as the native ones, under C# locks | Reserve, Connect, Initialize, … | `/dev/mem`, `/sys`, commands |
| .NET digital signals (`…Devices.DigitalSignal`, `NativeRpmsgHelper.cs`) | a busy flag per operation, one receive thread | Generate, ReadPulse, Capture, Abort, Trigger | a timing helper on another core |
| .NET camera interface (`DcmiController.cs`) | a count of objects, the shared pins, a stream thread | open, Capture, VideoStreamStart/Stop, Dispose | pins, V4L2 |
| .NET and Python for EPN128, EPN256 and EPDomino24 | another chip's tables | Initialize, UnInitialize | `/dev/mem`, programs |

### How they interact

Everything that uses a pin goes through PinReservations. A bus or port connects
its pins through PeripheralPins (reserve all, save and set each register, record
the entry), a GPIO controller reserves pin by pin under the one name "GPIO". The
three libraries with a watcher thread (GPIO, USB host, storage) have the same
shape: a gate around their tables, a thread that sleeps in `poll` on kernel files
and on an eventfd, and callbacks that it runs with the gate released, from copies
or a queue made under it. The camera differs: its worker is started and ended
on demand, and joined with the mutex released (Halt) or held (Run). USB input,
touch and USB access have a thread per open device, which a stop through an
eventfd ends; the program's destructor waits for it. The user interface has the
program's own thread as its loop, and other threads feed it a point and a stop.

Whatever sets up the system (drivers, CAN links, network interfaces, panels, the
serial converter's driver) does so through SystemCommands, which starts a tool,
reads its output and waits for it. The initializers, displays and the network have
no lock around a sequence of such commands beyond a gate for their own tables.

### What is hard

* **Interleaving and atomicity.** Several gates are taken one after the other and
  none for a whole operation: pins and registers, OpenPin and PinReservations;
  I2c and Can have no gate at all around connect, set up and undo.
* **Callbacks without the lock**: copies that are out of date when they are called;
  a callback that removes, disables or destroys what calls it.
* **Kernel messages late, lost or out of order** against what `/sys` shows now:
  both watchers look at `/sys` themselves and hear of it again.
* **File numbers that are used again** while the watcher still polls the old one.
* **Partial failure**: a register whose port has no clock after two were set, an
  `ip` command that is killed when it took too long but has done its work.
* **Liveness**: destructors and Disable that must come back from any thread,
  waits with a timeout, controllers that must learn of everything in the end.
* **State that outlives the program**: mounts, also of a card that is no more in its reader, a
  `gpioset` process that holds the backlight, DHCP clients that renew their leases, kernel
  modules, a settings file cut short.
* **Lists without a lock**: the claimed interfaces of a USB device, LVGL's timers and slots.
* **Order of two writes to the kernel**, either of which may fail: a PWM channel's
  period and duty time, a link's commands, a driver's bind and count.
* **Ownership across languages**: memory hung on LVGL's objects that goes with the
  object, while C++ objects on both sides also delete.

PROJECT.json lists 40 hazards at their lines with the properties that guard them;
one has none, as its note says: a callback that was copied out may be called after
RemoveCallback came back (`Gpio.cpp:399`), which the code accepts. Where the code does go wrong,
and no document says otherwise, the property excepts exactly what goes wrong; section 3 lists
these exceptions.

### What makes each component correct

Pins: one holder per pin; a pin is given back as it was found; nothing leaks.
Buses and ports: an Initialize that failed leaves nothing, one that succeeded
keeps its pins. GPIO: a registered callback hears its changes, and the destructor
and a timed wait come back. USB host and storage: what a controller was told and
what is still queued add up to what is there, nothing after Disable, right in the
end. Storage also: a folder shows the drive it belongs to, whatever earlier programs
left mounted. Camera: a fresh picture, a stream that goes on until it is stopped, calls that return.
USB access: interfaces go back to their drivers. Input and touch: the state given
is the device's, the program was told of it, nothing after the destructor. Sound
and serial: every frame and byte once, in order. User interface: one display, a
Stop ends Run, a deleted timer is silent. Widgets: no block of memory is used after it
was freed, and each goes with its object but for those that the code is known to keep. Initializers: a driver is there
while anybody uses it and gone after the last. PWM: no write that the kernel
refuses. Network: ethernet before Wi-Fi, the name of what was configured, settings whole. Display: one process on
the backlight, at the level asked for. Watchdog: a restart in time, and only then.
Commands: what the tool wrote, its status, and nothing left over.

## 2. Modules

| module | models | state ↔ code |
|---|---|---|
| `PinOwnership` | the promise of the pin bookkeeping, without locks and error paths | `holder`, `reg`, `found` |
| `PeripheralPins` | `PinReservations.cpp`, `PeripheralPins.cpp`, `Stm32Mp1Pins.cpp` and what GPIO controllers do with reservations | `owners` = the map of PinReservations, `connected` = that of PeripheralPins, `reg` = MODER/AFR/PUPD of a pin, `call` = the thread in Connect or Disconnect (the gate lets in one), `lines`/`job` = a controller's open lines and its OpenPin/ClosePin under way |
| `Gpio` | `GpioControllerImpl` and its Watch thread | `lines`, `callbacks`, `nextId` as in the code; `events` the kernel's queues; `watcher` the thread with its snapshot (`watched`), poll set and calls to make; `control` the destructor; `wake` the eventfd |
| `Epm815` | Initialize/UnInitialize of I2C, SPI, PWM, serial and CAN | `pins` = entries of PeripheralPins, `speed` = I2C's file, `flowControl`, `gate` = SerialPort's, `running` = CAN links, `thread` = a call between two of its steps |
| `UsbHost` | the USB watcher, its kernel, Enable and Disable | `host` = what the gate guards, `watcher` = the thread, `sys`/`kernel` = `/sys` and the messages, `thread` = Start and Disable under way |
| `Storage` | the storage watcher, Mount and Unmount, mounts of earlier programs and unmounts of others | `drives`, `due`, `events`, `nextHdc` as in the code; `disk`, `mounts`, `messages` the kernel's |
| `Camera` | captures, streaming, resolution, worker, destructor | `mutex`, `running`, `events`, `stopping`, `failed`, `latestNumber`, `worker` as in the code; `workers` the threads; `call` a call between two of its steps |
| `UI` | both initializations, the loop with Run and Stop, timers and `TimerTrampoline`, the fed point and `TouchReadCb` | the two flags of `UI.cpp`, displays LVGL was given, a slot per timer, the touch mutex's point; each thread's place |
| `Widgets` | making and deleting all kinds of widgets in C and C++ | LVGL's tree (`kind`, parents), `heap` = the library's blocks, `frees` = what an object's delete callbacks free, `image` = the table of background images, `records` = the SubRecords of an object's subscriptions, handles |
| `UsbAccess` | RawDevice, HidDevice, Printer and the Watch thread | `claimed`, `detached` as in the code, each push_back in two steps (`found` = the list it read), `drivers` = interfaces the kernel's drivers have, `watch`, `gone`, calls and what is pending on the wire |
| `Input` | keyboards, mice, joysticks | `s` = State, `batch` = events read, `out` = changes to tell; `held`, `place`, `turns` the device itself, `queue` the kernel's; `told` what the program heard |
| `Touch` | numbered and single-touch screens | `slots`, `slot`, `single`, `changed`, `previous` as in the code; `fingers` the screen itself; `told` what the program heard |
| `Sound` | Play, Record, the recorder thread | samples counted, not kept: `source`, `toWrite`, `played`, `bytes`, `output`; `recording`, `recorder` as in the code |
| `SerialPort` | all reads, ReadLine, writes, discards | `kept` = `pending_`, `kernel` = bytes that came; `arrived`, `past`, `sent`, `asked` count for the properties |
| `Commands` | Run in several threads | `holders` = who has a pipe's write end, `inPipe`, `readText`, `child` = the tool, `late` = the deadline is over |
| `Drivers` | Initialize/UnInitialize of the EPN256 and EPN128 in three shapes: bus, CAN, UART | counts, gate, loaded modules, bound devices, links |
| `Pwm` | `PwmChannelImpl` on the kernel's channel | `period_`, frequency and duty cycle as in the code; `kperiod`, `kduty` the kernel's |
| `Network` | Enable, Disable, the name, carriers, DHCP, routes, saving settings | interfaces up and with a carrier (`linked`), leases, pid files, metrics; the settings file and its temporary file |
| `Display` | Enable, Disable, the backlight's process, across programs | loaded modules, `fb` and its stream, processes on the line, `pidfile` |
| `Watchdog` | the watchdog of several controllers, one after the other | `enabled`, the device's user, `timeout`, the chip's countdown `left` |
| `MCPeripheralPins`, `MCGpio`, `MCEpm815`, `MCUsbHost`, `MCStorage`, `MCCamera` | constants for TLC | |
| `Resources` | Widgets, Drivers, Pwm, Network, Display and Watchdog in one specification, one of them active in a behaviour | `subject` = which |
| `Devices` | UI, UsbAccess, Input, Touch, Sound, SerialPort and Commands in the same way, with their fairness | `subject` = which |
| `MCResources`, `MCDevices` | their constants for TLC | |
| `…_proofs` | proofs about `PeripheralPins`, `Gpio`, `Epm815`, `UsbHost`, `Storage`, `Camera`, `Resources` and `Devices` with all their components | |

**Composition.** `PeripheralPins` composes reservations, peripheral pins and GPIO
controllers, and shows Connect and Disconnect sound as wholes (it implements
`PinOwnership`, in which taking a peripheral's pins is one step). On that ground `Epm815` uses
Connect and Disconnect as one step each, and `Gpio` leaves reservations out.
`Commands` is `SystemCommands::Run` itself; `Epm815`, `Drivers`, `Network` and `Display`
use its outcomes (done, failed, killed after it had done its work) as steps.

`Devices` (UI, UsbAccess, Input, Touch, Sound, SerialPort, Commands) and
`Resources` (Widgets, Drivers, Pwm, Network, Display, Watchdog) put components that
share nothing into one state machine: `subject` is chosen at first, that component
moves, the others stay in one of their initial states. Each is explored in full, and
the sum of their states is the run's, not the product. The properties are
conjunctions of the components' own.

**Grain of atomicity.** A section under a lock is one step when everything it
touches is guarded by that lock, and several steps when it meets something that
is not: PinReservations and registers inside PeripheralPins' gate, the kernel
inside Start and the scan of USB devices, `read` inside Gpio's Watch (where it can block),
the commands inside Drivers' gate. A batch of input events is handled an event a step, and the
end of a mouse's packet a button a step, with the lock held. A read, poll or write of a file is a step of its own where another
thread or the device can move before the next. A call that throws before it changed
anything has no action.

**What the environment does** is in the models: edges, plugs and unplugs, drivers
that make functions later, lost and late messages, media swapped in a reader,
ioctls and commands that fail or are killed, the unplugged camera, card, adapter and
touchscreen, device files and framebuffers that come late, underruns of a sound card,
carriers that come late, DHCP leases that come after Enable gave up and their renewals, a program that
ends at any step of saving settings or of holding the backlight, settings that cannot be written, a camera
that breaks while plugged, a folder that another program unmounts, time. Times are
abstract: the wait of a call that has a time limit (a Capture, a read, a wait for an edge, a tool, a
carrier, a route) may be over at any moment, however soon what it waits for would have come, and the USB and
storage watchers' "soon" and "late" pass at any moment after they were set. Only the
watchdog has a clock, of ticks.

**History variables** (what the code does not keep): `asked` in Epm815 (the last
Initialize that succeeded), `told` in UsbHost, Storage, Input and Touch (what a program has
heard), `lost` in Storage (messages), `arrived`, `past`, `sent` in SerialPort, `written` in Commands, `lastSaved` in Network,
`since`, `asked` in Watchdog, `strangers` in Display (an earlier program's `gpioset` is on the
line), `from` of a call and `settled`, `destroyed`, `threw` in Camera. Some mark what the code gets
wrong, so that a property can except that and nothing else: `unmounted` in Storage (drives whose folder
another program unmounted), `hurt` in Camera (the session broke, or was started across a SetResolution),
`dropped` in UsbAccess (list entries that another thread's push_back undid), `overtook` in UI (a trampoline had
its slot when another thread freed it), `unseen` in Input (buttons of a hat that were down before it was open),
`overtaken` in Input (the program moved the cursor while a change waited to be told), `cut` in Touch (a read ended in
a packet), `strays` in Widgets (blocks that nothing frees any more), `overdue` and `late` in Network
(carriers and routes that came when Enable had given them up).

## 3. Runs

States are distinct states; times are for two workers.

| run | module | shows | states |
|---|---|---|---|
| `pins` | MCPeripheralPins | UART5 and CAN2 on the same pins, one pin whose clock is off, two controllers: reservations, registers and entries agree in every interleaving, and implement PinOwnership | 113 k, 10 s |
| `gpio` | MCGpio | callbacks are never deaf, changes are read, the destructor returns | 732 k, 140 s |
| `gpio_timeout` | MCGpio | a finding | |
| `epm` | MCEpm815 | two threads on shared buses, each command failing or cut: nothing half initialized, nobody loses pins | 153 k, 5 s |
| `usb` | MCUsbHost | told + queued = connected at every moment; right in the end; nothing after Disable | 1.77 M, 95 s |
| `storage` | MCStorage | folders show their drives, no mount leaks, right in the end | 3.1 M, 150 s |
| `camera` | MCCamera | fresh pictures, no frame event after the destructor, streams that go on, calls that return | 17 k, 100 s |
| `camera_join` | MCCamera | a finding | |
| `devices` | MCDevices | what is told or read is what the device is at or sent; nothing after the end; what was taken is given back; whoever waits comes back | 192 k, 170 s |
| `touch` | Touch | a finding | |
| `ui_timer` | UI | a finding | |
| `resources` | MCResources | no memory used after it was freed, drivers loaded while used, PWM writes that fit, routes, names and settings as asked, one backlight process, a restart in time | 2.5 M, 120 s |

What the composed properties say of each component:

| property | parts |
|---|---|
| `devices`: OneDisplay | UI: LVGL is given one display at most, however threads race and fail |
| NoCallAfterClose | USB access, input, touch: no callback after a destructor came back, none after the one that says the device is gone; UI: no timer that was deleted before LVGL's trampoline had its slot |
| AllGivenBack | USB access: interfaces go back to their drivers, but for those whose list entry was lost; sound: the whole recording in the file, everything played once; tools: text complete, no process, no open pipe; serial: written once |
| ToldIsState | input: when all was read the state is the device's, what was told adds up to it and never repeats; touch: the slots are the fingers', and the last call to the program had the fingers that are down, where they are; serial: the bytes that came, in order, whatever mixture of calls reads them |
| EndsUpRight | USB access, input, touch: unplugging is told; UI: Stop ends Run, the point seen last is the finger's; sound: StopRecording returns; serial: calls with a time limit return; tools: Run returns, and sleeps on no tool that has ended |
| `resources`: MemoryIsOwned | widgets: each block hangs on one living object, no handle or callback uses freed memory; of a deleted object only the blocks stay that the code never frees (`Unfreed`) |
| DriverFollowsUse | initializers: loaded while a controller is counted, unloaded after the last, a link set up is up |
| WritesFit | PWM: no write of a duty time longer than the period, after any failures; a call without an exception leaves what the object says |
| NetworkAsAsked | ethernet carries what goes out when both are enabled, but for a radio's route that came late; a name is that of the interface Enable configured, or of one whose carrier came late; each section of the settings file is as the last save left it wherever a program ended, but after a save that could not be written |
| HeldAsAsked | display: one process of the program on the backlight, at the level asked for; watchdog: the enabled controller is the watched one, the restart comes in time |

### Bounds, and why they are enough

* `pins`: three pins, two peripherals that share two of them, one of which may be
  connected with two lists, two controllers. Overlap of lists, a failure in the
  middle of a list, and two controllers under one name need no more. The proofs
  cover all other values.
* `gpio`: two pins and two file numbers, so that a number is used again for
  another pin; `MaxId` two callbacks (one that stays while another goes);
  `MaxChanges` two edges, `MaxQueue` one (the kernel drops the oldest). One thread
  waits and closes in steps; all calls that are one step come from anybody, the
  watcher's callbacks included.
* `epm`: two I2C buses, a PWM pin, a UART with flow control and a CAN port on four
  pins, overlapping as on the board; two threads share one bus. The frequencies
  are one the bus has, one it reaches, one it does not. I2C6, UART4 and CAN1 do
  share PD0 and PD1 (`Epm815.cpp:59`, `:287`, `:361`). UART4 has no RTS and CTS on
  the board; it is given one pin for both here, shared with a PWM output, instead
  of another UART on pins of its own.
* `usb`: one path, plugged twice (`MaxPlugs`: the second finds what the first left),
  one function that a driver makes or loses (`MaxMakes`), two controllers, two calls of Enable
  (`MaxEnables`), one lost message (`MaxLost`). Paths do not meet in the code but
  in the queue, which holds events of several controllers here.
* `storage`: a USB disk, a card reader's and the SD slot's, three media with one
  that cannot be mounted, handles 1 and 2, one lost message (`MaxLost`). An earlier program left any
  mounts on `/media/usb0` and `/media/sd` (`LeftFolders`): of any disk, one that is there, gone, or has
  another card by now. No two of them share a disk or a folder, as the library
  never mounts so. Folders are unmounted by other programs at any time. The name of a disk is given again while a
  mount holds it only where the kernel does that: to the next card of a reader or of the slot (`KeepsName`).
* `camera`: two starts of the camera in the passing run (three for the finding)
  and three frames; a thread that calls everything, one that stops, and a handler
  that captures, stops and destroys. The camera breaks at any frame.
* `devices`, by component (with the states it has alone):
  * UI (16 k): two threads, one timer, a finger down and up (`MaxFeeds` 2). Both threads make and
    delete timers, also while the other pumps.
  * USB access (30 k): two interfaces with their drivers or another program, two threads of which one
    uses both and one the first (`Uses`), so that two push_backs meet for one interface and for two;
    transfers with and without a limit, two packets pending.
  * Input (94 k): batches of 3 events (`Batch`; the code's is 64) so that one is cut, two things
    the device does, one reading thread, a cursor in one dimension.
  * Touch (26 k): two points the library keeps and two fingers, three moves (four in `touch`), batches of 3:
    a packet is cut by the end of a batch.
  * Sound (5 k): frames of 2 bytes, buffers of 2 frames, WAVs that are empty, cut in a frame or
    whole; at most 3 frames are recorded, of which a WAV header can say 2 (`MaxData` 4).
  * Serial (12 k): symbols `r` and `n`, new line `r n`, so that a new line is cut by what came and a
    text looks like half of one; chunks of 2, three bytes in all, room for 2 in the driver.
  * Tools (8 k): two threads, pipes of 1 byte that fill, reads of 1, a tool that writes
    up to 2 bytes and one that writes none.
* `resources`, by component:
  * Widgets (340 k): three objects and three blocks, nine kinds: each shape of ownership in the code
    (a parent with a list, a composed widget, a grid's definitions, a chart's and a gauge's state,
    an image, a plain button). Three are a parent, a child and a sibling.
  * Drivers (4 k): two threads, two controllers, two modules, all three shapes.
  * PWM (5 k): frequencies 1, 2, 5 and 30 with 12 units a second: exact, rounded, and above the
    resolution; duty cycles in quarters.
  * Network (2.0 M): two ethernet interfaces, one a dongle, and one Wi-Fi; one change of a cable, a
    dongle or a setting (`MaxChanges`), one DHCP client each (`MaxClients`); a carrier comes and a client renews at any
    time. A program saves a section of either type (`NetworkSettings`) into a file that was whole or
    torn at the start, and its write is whole, cut or impossible.
  * Display (117 k): each panel and backlight of the settings, two process numbers, of which one may be an earlier
    program's.
  * Watchdog (190): three ticks a second, times of 1, 3, 4 and 6 s, a default of 5 s, two controllers.
    The proof covers all others.

Deadlock is checked in `pins` and `epm`. The other systems may stop: their
kernel's events are bounded and the threads sleep until the next one.

### Fairness, and why the code justifies it

* Watcher, worker, reader and recorder threads take their steps (`WF`): they are threads with no
  other condition than the guard of the step, and the scheduler runs them. So are a
  program's calls that have begun, and a tool that runs.
* A thread that waits for a mutex that is free again and again gets it (`SF` on
  `WaitEnd`, `DisableReturns`, Camera's `GoesOn` and worker steps; UI's `Pumped`, as the loop takes
  its turns between other threads' calls). C++ does not
  promise this of `std::mutex`; the kernel's futex does in practice, and without it no
  call of the library returns for sure.
* Times pass (`WF` on `TimePasses`, `Ages`, `SettlePasses`; a Capture's timeout is
  among its `GoesOn`; in Commands the clock always passes). A camera that is unplugged or stopped
  fails its worker's request for a frame; one that breaks while it is plugged need not. The keys of a USB device that is gone
  are released (`Input`'s `Unplug` once that has begun).
* A user's callback comes back: fairness on the watcher's or handler's step.
* No fairness for the environment: no edge, no plug, no byte, no lease and no message has to happen,
  and no thread has to make a call.

What the properties leave out, and why. Each exception is a state or a history variable, so that the
property says everything of all other states and behaviours.

* `EveryChangeRead` and `DisposeReturns` of `gpio` except the state in which the
  watcher blocks in `read` (the finding `gpio_timeout`); `EndsUpRight` of `usb` and of `storage`
  except behaviours with a lost message (the code does not resynchronize then);
  `InitializedKeepsPins` and `LinkRunsOnItsPins` speak of ports that one thread
  calls, as nothing protects two threads in one I2C bus or CAN port, and nothing
  promises to.
* `FolderIsTheDrives` speaks of drives that were not swapped before the watcher looked again, lets a folder
  be empty that another program unmounted (`unmounted`: the library gives it out again without a look), and lets
  one mount have another medium: that of an earlier program, of a card that was in the same reader or
  slot (`OfEarlierCard`). `Check` leaves such a mount when the card goes (`Storage.cpp:652`), and `Mount` takes it for the
  next card's, whose device has the same name (`:381`).
* `StreamingRuns` excepts a camera that broke (`Camera.cpp:346`: the worker ends, `events` stays set, and no call
  fails) and one that was started while SetResolution waited in Halt, which stops it when it comes back (`:541`).
* `DriversBack` excepts an interface whose entry in a list was lost (`dropped`): two transfers on two interfaces
  push_back at once, and the later one writes where the earlier one did (`UsbAccess.cpp:256`, `:258`). A race of threads on
  one interface has no exception. A push_back that brings the program down is not modelled.
* `NoDeletedFires` lets a trampoline go on that had its slot when another thread's TimerDelete came. `UI.h:147`
  promises more, that Delete is safe from any thread: the finding `ui_timer` is the run that says so.
* Input's `StateIsDevice` excepts the buttons of a hat that were down before the device was open
  (`unseen`: the constructor asks for keys and axes, not for these, `Input.cpp:427-499`), until they are released. Input's
  `ToldIsState` excepts a cursor that the program moved while
  a change waited to be told: the program overtook what it is then told.
* Touch's `StateIsDevice` and `ToldIsState` speak of screens that no finger was on when they were opened: slots are not
  read at the start. `ToldIsState` excepts what was cut by the end of a read (the finding `touch`), until the
  next call, and the place of a single touch that moved, which is not told (`Touch.cpp:255-258`).
* `NothingLeaks` excepts blocks that are known to stay (`strays`): an image's last descriptor, what a
  grid definition that ran out of memory left, and the records of subscriptions, which the code says it leaks
  (`UICApi.cpp:57-60`); and grids ruined that way. Both parts of `MemoryIsOwned` speak of
  behaviours up to the first call that uses or frees what is gone: a program that deletes
  C++ objects in the wrong order, or defines a ruined grid again (see below).
* `EthernetCarries` excepts a route that the radio's DHCP client put in after Enable had stopped waiting for it, with its
  lease or when it renewed one (`late`). `NameIsConfigured` also allows the name of an interface whose carrier came
  after Enable had waited its second for it (`overdue`). `SettingsWhole` says nothing of what a save that could not be
  written has taken away, until it is saved again. `BacklightAsAsked` excepts a line that an earlier program's `gpioset` has.
* In Commands, `AllGivenBack` says of a Run which has the tool's status that it has all the
  text, and nothing of the text of one that was killed. `RunReturns` excepts tools that closed
  their outputs and go on running.

Each property of a passing run has a mutant in PROJECT.json: a variant of the
code that TLC finds to violate it.

## 4. Proofs

TLAPS proves the following for every number of pins, peripherals, controllers, ports,
threads, places, disks and so on, under the modules' named assumptions: names that the code keeps apart
differ, lists have no pin twice and are not empty, sets that the code lists are finite, sizes, frequencies and
times are positive numbers. TLC evaluates each of them on a run. What a theorem assumes
beyond that stands before its PROVE, and is said here.

Every invariant of every passing run is proved (one of Camera's under a hypothesis), and so are the
action property `NoCallAfterDisable`, the part of `GoodPicture` that says that a picture is new, and the refinement of `PinOwnership`.

**`PeripheralPins_proofs`.** `IInv` (in PeripheralPins) is the inductive invariant:
types; each entry has a pin once and is empty unless connected (`EntriesOK`); the
call under way agrees with its entry and the registers it has set (`CallOK`); a
controller's job works on pins that are not among its lines (`JobsOK`); and the
four safety properties, which need each other: Release frees pins without asking
whose they are, so that a release frees only its caller's pins follows from
"what I account for is reserved for me" together with "nobody else accounts for it".
Each action preserves each conjunct; from it follow

* `TypeCorrect`, `ReservedUntilDisconnect`, `ControllersExclude`, `NothingLeaks`,
  `FunctionsStay`: the five invariants of the run `pins`;
* `Refinement`: `Spec => Abstract!Spec`, with the mapping `HolderOf` (a pin
  reserved as "GPIO" is the controller's that has it) and `FoundOf` (as saved by
  its owner; as it is before it is saved and after it is restored). Reserve maps
  to Take, each register to Configure, the restore of a register to a stutter or
  Configure, and Release to Give.

**`Gpio_proofs`.** `CallbacksAreHeard`. A callback is heard if the kernel reports its edges
and the watcher reads them, and the steps that could break this are of other calls: a ClosePin
that takes the line, an AddCallback or SetPinMode that opens it again under another
file, a snapshot that the watcher made before. `GpioInv` therefore says that open lines have files of
their own (`FilesOK`), that each callback's line is open with a watcher and the edges
it wants (`AskedFor`), and that a watcher which nobody has woken has every line with
edges in its snapshot and, in poll, in its set (`PolledOK`). Whoever changes the lines wakes the
watcher, which is why the last holds again. `GpioTypes` adds the queues (`QueueTypes`): that the watcher polls
and reads files of the kernel's only needs `FilesOK`, as a line that is closed has none.

**`Epm815_proofs`.** `ArgumentsOK` (a call that will write a frequency or a flag has
one) makes the types inductive, `TypeCorrect`. `SerialOK` says whose gate it is and
what the call inside has done to the pins but not yet to the map; with it
`FlowControlMatches` shows why Initialize may ignore Connect's result. `HalfOK` says
that a port connected without a success is in the hands of a call that made the
connection, which is what I2c's and Can's `made` flag is for; it survives any
interleaving of ungated calls, `NothingHalf`. `KeepOK` is about ports that one thread
uses: a call is inside a port of its thread's, a connected port has all its pins, and
a call that made the connection has promised nothing yet and has no link up. From it come
`InitializedKeeps` (the undo of a failed call never takes the pins of an earlier success)
and `LinkRunsOnPins`.

**`UsbHost_proofs`.** `NothingLost` (`EverythingTold`) is about a queue in which an event is right only together with
those behind it: a scan may queue that a function came and that it went before anybody hears either, a controller that enables late
gets a copy of the devices behind older events, and Disable takes its own events out. `HostInv` says of each
event that it says what is so now, or that one for every controller behind it corrects it (`QueueOK`); the same of
the event being delivered and the targets it has left (`CurrentOK`); that what no event is on its way about was told
right (`ToldOK`); and that a device has a handle that was given out once (`IdsOK`, `DueOK`). A step under the gate
is reduced to one statement, `Announces`: the new queue is the old one with events behind it that
say what is so now and cover every change. Add, Remove, Look and Scan each announce what they do, a scan of several devices by
composing its announcements. `TypeCorrect` and `QuietIsQuiet` (no call after Disable) are by-products: the delivery's
targets are enabled controllers or ones whose Disable waits for it (`QuietOK`).

**`Storage_proofs`.** `StorageInv` ties drives, folders and the kernel's mounts, for any number of mounts that earlier
programs left, of any disks and media. No two mounts
share a folder or a disk, so that an Umount by folder takes the right one (`MountsOK`); a drive that
has a folder shares it with no other drive and is mounted there unless another program unmounted it, with its medium unless the disk was
swapped since or the mount is an earlier card's (`FoldersOK`); what an
earlier program left mounted has the medium it was made with, unless its disk's name stays for the next card (`LeftOK`); before Start has
looked there are no drives and no mounts of this program's (`NotStarted`).
From it `FolderShowsDrive` and `NoMountForgotten`. `ToldOfEveryDrive` needs the queue (`QueuedOK`): of a handle's
events the last says whether a drive has it, and with none, what was told does.

**`Camera_proofs`.** A Halt lets go of the mutex while it joins, so that other calls run in its midst. `FrameFinishes` follows from `FrameInv`:
a worker that runs is the one that Halt will join, or a thread joins it now, or it is halting itself in its handler
(`Placed`), and after the destructor there is none (`AfterDestroy`). It assumes `HandlerTakesOrStops`: a handler that sets the resolution leaves its
own worker detached beside a new one (see Findings), and the property fails. `Streams` assumes nothing of the calls, which may meet in
any order, also those of `camera_join`. `StreamOK`: while nothing has spoilt the session it has its worker as long as the camera runs, whoever
stops the worker is still there to go on, and a camera that streams runs or somebody is about to run it. Only a camera that broke and one
that was started across a SetResolution's wait are spoilt (`hurt`), until the next start. `CameLater`, that a picture is newer than the call
that returns it, needs nothing either (`PictureIsNew`: a call that waits either has a picture in reach that came after it began, or the count of frames is
still below what it waits for, also after SetResolution set the count back). That its exposure has settled is false when two threads capture, or one sets
the resolution meanwhile (the hazards at `Camera.cpp:548` and `:587`), and is checked by the run only, whose program does neither.

**`Resources_proofs`**, first each component under its own specification, then the six together.

* *Widgets.* `MemoryOwned`. Every block is one object's, as user data, as background image or as a subscription's record (`OwnedOnce`), every
  block is somebody's or one of those that stay for good (`Found`), what hangs on an object is freed by its callbacks (`Objects`), and the objects are a tree (`Rooted`).
  A deletion takes the objects in the tree below one; that tree is stated as the least set
  that has, with an object, those in it, from which the two facts needed follow: the deleted set has each child of its members, and
  it has nothing that the remaining objects hang below.
* *Drivers.* `DriverIsThereWhileUsed`. A driver is shared, and the commands that load
  and unload it run between two sections of the gate. `DriversInv` ties the flag to the
  counts (`LoadedIsCounted`: loaded exactly while somebody is counted), to the kernel as long as no command failed
  (`NothingLeft`), and counts a thread before its commands are over (`BusyIsCounted`);
  links and bound devices have a part each (`LinkedOnceSetUp`, `BoundWhileUsed`).
* *Pwm.* `PwmWritesFit`. `Kept` is the strengthening: the kernel's duty
  time is at most the object's copy of the period, and that is at most the kernel's period, as an Apply that failed
  half way may leave a longer period and never a shorter one. The lemma `DutyWithinPeriod` bounds the rounded
  duty time, and each order of the two writes is taken on its side of the copy (`Ordered`).
* *Network.* `NetworkIsAsAsked`. Two threads, one for each type, work on interfaces that the other does not touch (`Apart`).
  A call that picks is at one of its candidates, and every earlier one had no carrier when its second was over: a carrier that
  it has now came late (`CallOf`). So the first candidate with a carrier that is not late is what Enable chooses, and what a look at the interfaces
  finds again, until a cable, a dongle or a setting changes (`FoundAgain`). A route has the metric of its type but in the
  moment in which Enable replaces the client's, or after the client put its own in late (`RouteOf`). That of any candidates there is a first one
  needs the numbers to be well-founded (`FirstIsOne`). The saver's content has the other type's section as the file
  has it, so that renaming it leaves that section as it was last saved; whatever else is renamed, cut or an earlier program's, is no finished
  save (`NetSettings`).
* *Display.* Of the program's own gpiosets only the newest has the line (`OnlyNewest`), as each is reaped before the next is
  started, and the newest has it at the level asked for (`NewestHolds`), unless an earlier program's holds it.
* *Watchdog.* What the chip has left
  and what has gone by since it was fed add up to the timeout it has (`CountsDown`), which is
  the time asked for in whole seconds, rounded up (`TimeIsAsked`, lemma `SecondsAreEnough`).
* `ResourcesTypes`, `NothingIsLost`, `NetworkIsAsAsked`, `HeldIsAsAsked`: the invariants of the run `resources` under
  the composition's `Spec`. They share no variable, so each invariant is kept by the other five's steps.

**`Devices_proofs`**, laid out the same way.

* *UI.* `UIOneDisplay`: whoever turned the flag to true is alone until there is a display (`StartsAlone`),
  in both ways to initialize and whichever fails. `UINoDeletedFires`, with timers made and deleted on any thread: LVGL's timers have
  their slots, a TimerDelete under way has the slot of a timer that LVGL has no more, and no two have the same (`FiresLive`), so that a
  trampoline without its slot was overtaken. That it can be is the finding `ui_timer`.
* *USB access.* While the device is open, an interface that had a driver and has none now is on both lists, or in the hands of a call
  that is about to put it there (`OnLists`, `Owed`), unless a push_back undid its entry; no call is inside once it closes (`CallsWhileOpen`).
  Another thread's push_back can undo only what came between its two steps, and that is `dropped`.
* *Input.* The types are the hard part, as a keyboard's, a mouse's and a joystick's queues have different events and what is told of each is different (`InputInv`);
  the end of the device is the last thing that is told (`InputEnding`).
* *Touch.* No more points are told than there are slots (`TouchInv`, lemma `FewPoints`), and nothing is told after the thread has ended.
* *Sound.* `AllThere` counts the data of a file: played, in a buffer, waiting for the card or still to be read,
  also when the reader cuts a frame; `Held` says who has the card and the file, `SaysWhatItHolds` what the header will be made to say.
* *SerialPort.* `InOrder`: what the program was given, what a ReadExisting has collected, what ReadLine kept and what the kernel has are, one
  behind the other, what came in. `WriteGoesOn`: what was sent and what is left to write are what was asked. Proved with no induction over the
  bytes, from the library's lemmas on concatenation.
* *Commands.* A pipe's write end is in nobody but its own tool and,
  until that is started, in Run (`PipesArePrivate`), however many tools are started beside it;
  else a tool's end would not end the other's reading: `ToolsEndIsSeen`. What was
  written is read or in the pipe (`AllIsRead`), and what is no longer read is empty and stays so (`DoneIsEmpty`).
* `DevicesTypes`, `DevicesOneDisplay`, `DevicesGiveBack`, `DevicesLastCall`: the
  invariants of the run `devices`. Of `ToldIsState` and `EndsUpRight`, `PortKeepsOrder` and `ToolsEndIsSeen` are the
  parts about a serial port and tools.

**Written for proof.** Where the provers cannot use a library operator (SelectSeq, FoldLeft, SetToSortSeq, FlattenSeq), or a recursion would have
been needed, the models state the result and not its computation: the order in which a map or a set of /sys is gone
through is some sequence that has each member once (in order of the ids where the map is sorted), an object's tree the least closed set, and a mouse's packet is
handled one button a step under the lock.

**Only model-checked.** All liveness (`EndsUpRight` of four runs, `EveryChangeRead`, `DisposeReturns`, `CallsReturn`), as neither fairness nor ENABLED is
in the provers' reach. `GoodPicture`'s exposure. Of `ToldIsState`: that Input's and Touch's state is the device's when all was read, that what was told adds up to it, and that no
call repeats what was known; these relate the state to the sum of whole queues, whose proof is by induction over data or needs the
sums as variables.

## 5. Findings

Each is a run whose single property states what a document or comment says, and
that TLC violates (PROJECT.json quotes the lines):

* `gpio_timeout`: a file number given again while Watch polled it makes Watch
  `read` a line without an event, with the gate held: a timed wait does not
  come back until an edge happens.
* `camera_join`: Run joins with the mutex held, and between Halt's release of
  the mutex and Run another thread may have started a new worker: deadlock.
* `touch`: a packet cut by the end of the 64 events that are read at once loses what its
  first part changed, and the last finger up is never told.
* `ui_timer`: TimerDelete on another thread than the loop's frees the slot that the trampoline has read and is about
  to call.

### Also seen while modelling

The models do what the code does here, and no property contradicts it.

**GPIO.** RemoveCallback may come back before a call of the removed callback begins, as Watch
calls copies (`Gpio.cpp:399`, `tests/gpio_test.py:93`). It throws after it has erased the
callback (`:332`). ClosePin leaves the pin's waiters waiting (`:185`). A callback that disposes
its controller makes the watcher join itself (`:400`).

**Buses and ports.** An I2c::Initialize that fails leaves a running bus at the speed it tried,
although the comment at `Epm815.cpp:116` says the bus stays as it was. PhysicalMemory::Modify's gate excludes
this process only, not the kernel's drivers (`PhysicalMemory.cpp:67`). Drivers: a thread stays counted when its wait for a
device times out; a second modprobe that fails leaves the first one's module; two CAN
Initialize at once both give commands to the link; a second Initialize changes a
used link's bitrate; the EPN128's I2c does not tell that SetFrequency failed.

**USB host and storage.** A device replugged before its messages were received gets two ids
(`UsbHost.h:46`). Nothing lists the devices again after a lost message (`UsbHost.cpp:402`). Enable
queues the devices that are there behind events that are queued already (`UsbHost.cpp:270`),
`UsbHost.h:56` says "first the ones already there". Check compares only presence, so a drive that replaced
another one keeps its handle and mount (`Storage.h:9`); an earlier program's mount that this one did not ask for
is not unmounted when its card goes (`Storage.cpp:652`), and Mount finds it by the device's name and gives it out for the next card in the
same reader or slot (`:381`). A folder that another program unmounted is given out as long as the drive stays (`:365`): what is
written there goes to the board's own disk.

**Camera.** Capture in the frame event's handler waits for a frame that only its own thread could take, until
its time is up (`Camera.cpp:366`). SetResolution in a handler leaves the old worker to end by itself beside
the new one, which the destructor does not wait for; a Capture during SetResolution
reports "unplugged"; a StartStreaming that throws leaves `events` set. A camera that breaks while it is plugged ends the worker
and leaves `events` set: it streams no more, and nobody is told (`:346`). A start or Capture while SetResolution waits in Halt of a
camera that did not stream starts a worker, and SetResolution then says that the camera stands still (`:541`). Two threads that capture may both get a
dark picture after an idle stop (`:587`).

**User interface.** An exception of ResolveFormat leaves LVGL marked initialized without a display
(`UI.cpp:133`). The custom Initialize replaces the flush callback even when it comes second, where `UI.h:67` says that second and
later calls are no-ops. A Stop before Run is lost. Widgets: a grid's definitions are freed before the new ones are
allocated (`UICApi.cpp:418`), so that one without memory goes on using them; half of a composed widget stays in the tree when its
making fails; an image's last descriptor is never freed; MessageBox::Hide, ListBox::Clear and a parent that is
destroyed first delete objects which a C++ object will delete again; a font may be freed
before the widgets that use it. The record and the handler of each subscription stay when their widget is destroyed: `UICApi.cpp:57-60` says so, while
`include/endpoint/detail/CApi.h:362` says that subscriptions live until then. `CApi.h:334` asks background threads to keep off LVGL, and two lines on
promises timers to any thread.

**USB access.** Two threads' first transfers race in Claim, and one gets "in use by another program"
(`UsbAccess.cpp:237`). On two interfaces their push_backs into the same vectors race: an entry may be lost, and with it the
interface's way back to its driver, or memory freed twice (`:256`, `:258`). Read restarts its whole timeout with each turn; a Printer.Write that
times out loses the count of what was written; a callback may come before the program has the handle; a poll that
fails ends Watch without telling.

**Input and touch.** A mouse's SIDE and BACK share a bit; SYN_DROPPED is ignored; a hat of buttons that is held when the joystick is
opened reads as at rest until it is let go (`Input.cpp:427-499`). Touch: destroyed in its own callback it joins
itself; a finger beyond the last slot overwrites the one before it; slots are not read at the start; moves of a single touch are not told and
its CurrentPoints stays 0.

**Sound and serial.** Record's size is cut to 32 bits; StopRecording at the same time as StartRecording
may leave a thread that nobody joins; `recording` stays true after the recorder fails. After a
hang-up `read` returns 0, so that Read returns 0 where `Ports.h:89` says TimeoutException,
ReadByte gives a 0 that never came, and ReadLine without a timeout spins. ReadExisting loses what was
kept when its second call throws; Read after Close still gives it; a write's timeout restarts with each wait.

**PWM.** A constructor that throws in Apply leaves the channel exported; two objects on one channel each trust
their own copy of the period; a frequency above 2 GHz makes the period 0.

**Network and displays.** Ethernet may lose to Wi-Fi when the radio's lease comes after Enable's 10 seconds, or when its client renews it: `udhcpc` puts in
a route of metric 0 (`Network.cpp:284` says ethernet always carries, `:177` that the client stays). A carrier that comes after Enable's second for
it (`:535`; the comment at `:151` says 1 to 3 s) makes GetInterfaceName answer another interface than Enable configured, where the comment at `:415`
says that they must agree. Disable takes down only the named interface; a second Enable
starts a second `udhcpc`; `wpa_supplicant` is never stopped; two programs that save at once share one temporary
file. What is written to it is not checked: a save on a full disk is renamed over the good file (`NetworkCApi.cpp:54`), and one whose temporary
file cannot be opened renames what an earlier program left there. Display: a second Enable opens a stream that is
open, which fails it for good, and Flush then writes nothing; a program that ends between fork and
the pid file leaves a `gpioset` that nobody names, and an earlier program's may still start, against the
comment at `Display.cpp:91`; a pid may have gone to another process.

**Commands and watchdog.** Run waits without a deadline for a tool that closed its outputs, or when poll
failed. A watchdog's Enable that throws at SETTIMEOUT leaves it enabled (`System.cpp:69`).

**.NET digital signals** (read, not modelled). All controllers get every completion and none compares its pin
(`DigitalSignalController.cs:217`); Generate overwrites the caller's array (`:411`).

## 6. What is not modelled

Of the parts that are modelled only partly:

* EPM815: the check that a device file is the right peripheral and the loading of spidev, which run before anything changes.
* Storage: several controllers that come and go, which is the code of the USB watcher again;
  Flush and GetDriveInfo; how a file system is recognized (a medium is readable or not) and in which partition: a
  medium's device has the name of its disk, so that cards of different layouts, which Mount tells apart, are not.
* Camera: a handler that sets the resolution is in no passing run, and in no proof but `TypeCorrect`, `Streams` and `CameLater`.
* UI: LVGL's own lists, which have no lock, and what a program brought down by them, or by two push_backs, does.
* Widgets: fonts, which the program loads and frees itself.
* Sound: MP3 decoding (data), volumes and mute switches (a call of ALSA each).
* Touch: CurrentPoints, which gives no place of a single touch (see Findings).
* Serial and CAN: how a line is set up; the CAN socket, whose every call is one system call.
* Displays: Flush, which converts and writes pixels; the Nuvoton panel, set up by register writes.
* The clock: a read and a write of the kernel's.

And not at all:

* **ADC and DAC, transfers of I2C and SPI**: one ioctl or read on a file of the kernel, which no other
  thread's step can meet half done.
* **Graphics, JPEG and WAV formats, fonts, what LVGL draws**: conversions of data, which tests serve better.
* **The C interface, errors and the C++ headers**: each forwards a call and turns exceptions into codes. Where a
  wrapper owns something (the widgets' objects), `Widgets` has it.
* **.NET's pins, ports and GPIO driver**: the algorithms of `PeripheralPins`, `Epm815` and `Gpio` again in C#, with the same
  gates; the modules are translated from the C++ only, and say nothing of the copy.
* **.NET digital signals**: the other half, the timing helper on the second core, is not in this repository,
  and what it answers, in which order, decides everything.
* **.NET's camera interface (DCMI)**: its driver is the kernel's; its C# is a count of objects
  and a stream thread.
* **.NET and Python for EPN128, EPN256 and EPDomino24, other wrappers**: tables of another chip, and objects over the C
  interface.
* **`src/native/third-party`** and other vendored code: LVGL, libusb, hidapi, minimp3, stb, a JSON parser. LVGL is in the models as far as
  the library relies on it.

The kernel, ALSA, usbfs, evdev and LVGL are external: the definitions of theirs come from how the library uses them.

------------------------------ MODULE Storage ------------------------------
(***************************************************************************)
(* Storage.cpp: the drives that the Watcher knows, their handles, and the  *)
(* folders that they are mounted on.                                       *)
(*                                                                         *)
(* The gate is held for the whole of Mount, Unmount, Check and Start, so   *)
(* each is one step (Start two: the kernel goes on between its socket and  *)
(* its list).  The watcher's thread calls the callbacks, for as long as    *)
(* they take, between two looks at the kernel's messages.  How controllers *)
(* are enabled, disabled and called is the same code as UsbHost's: here    *)
(* one controller is enabled from Start on.                                *)
(***************************************************************************)
EXTENDS Integers, FiniteSets, Sequences, SequencesExt

CONSTANTS
  UsbDisks,   \* block devices of USB drives
  SdDisks,    \* of the SD card slot
  Readers,    \* USB ones of a card reader: the disk stays when its card goes
  LeftFolders,\* the N of /media/usbN that an earlier program may have used
  MaxMedia,   \* bound: drives and cards ever inserted (numbered from 1)
  MaxLost,    \* bound: messages lost because the socket's buffer is full
  Unreadable, \* those with no file system that the board can mount
  MaxHdc      \* the handles that are asked for

Disks == UsbDisks \cup SdDisks

\* The board has one SD card slot (Storage.cpp:42)
ASSUME DisksAssumption ==
  /\ UsbDisks \cap SdDisks = {} /\ Readers \subseteq UsbDisks
  /\ IsFiniteSet(Disks) /\ \A d, e \in SdDisks : d = e
ASSUME BoundsAssumption ==
  MaxMedia \in Nat \ {0} /\ MaxHdc \in Nat /\ MaxLost \in Nat /\ LeftFolders \subseteq Nat

VARIABLES
  disk,      \* what the kernel has: disk -> its medium, 0 for none
  media,     \* how many media there were
  mounts,    \* the kernel's table of mounts on our folders, oldest first
  messages,  \* the kernel's, on their way
  drives,    \* disk -> its drive (what the gate guards, with due, events, nextHdc)
  due,
  events,
  nextHdc,
  pc,        \* the watcher's thread
  told,      \* the handles the controller was told are connected (history)
  lost,      \* messages lost (history)
  unmounted  \* disks whose drive lost its folder to another program (history)

kernel == <<disk, media, messages, lost>>
vars == <<kernel, mounts, drives, due, events, nextHdc, pc, told, unmounted>>

-----------------------------------------------------------------------------
\* /media/usbN is N
SdFolder == -1
NoFolder == -2

Present(d) == disk[d] # 0
NoDrive == [hdc |-> 0, folder |-> NoFolder, medium |-> 0]

\* Its name is its host's or its reader's, the same for every card.  The name of
\* another disk is not given again while a mount holds it.
KeepsName(d) == d \in Readers \cup SdDisks

\* Mounts that an earlier program left on our folders, oldest first: of disks
\* that are still there, with the same medium or another one, or of gone ones
LeftMount(n) == [folder : LeftFolders \cup {SdFolder}, disk : Disks, medium : 1..n, ours : {FALSE}]

Init ==
  /\ media \in 0..MaxMedia
  /\ mounts \in [1..media -> LeftMount(media)]
  /\ \A i \in 1..media :
       /\ mounts[i].medium = i
       /\ mounts[i].folder = SdFolder <=> mounts[i].disk \in SdDisks
       /\ \A j \in 1..(i - 1) :
            mounts[j].folder # mounts[i].folder /\ mounts[j].disk # mounts[i].disk
  /\ disk \in [Disks -> 0..media]
  /\ \A d \in Disks : disk[d] # 0 => mounts[disk[d]].disk = d
  /\ messages = <<>>
  /\ drives = [d \in Disks |-> NoDrive]
  /\ due = [d \in Disks |-> "no"]
  /\ events = <<>>
  /\ nextHdc = 1
  /\ pc = "none"
  /\ told = {}
  /\ lost = 0
  /\ unmounted = {}

GateFree == pc # "start"

\* umount2 takes the newest mount on the folder
Umount(table, folder) ==
  LET on == {i \in 1..Len(table) : table[i].folder = folder}
  IN  IF on = {} THEN table
      ELSE RemoveAt(table, CHOOSE i \in on : \A j \in on : j <= i)

-----------------------------------------------------------------------------
\* Mutant: the handle is not used up.
NewDriveSameHandle(d, announce) ==
  /\ drives' = [drives EXCEPT ![d] = [hdc |-> nextHdc, folder |-> NoFolder, medium |-> disk[d]]]
  /\ events' = IF announce THEN Append(events, [hdc |-> nextHdc, on |-> TRUE]) ELSE events
  /\ UNCHANGED <<mounts, nextHdc, unmounted>>

\* Check(disk): a new one gets a handle, a gone one is unmounted
NewDrive(d, announce) ==
  /\ drives' = [drives EXCEPT ![d] = [hdc |-> nextHdc, folder |-> NoFolder, medium |-> disk[d]]]
  /\ nextHdc' = nextHdc + 1
  /\ events' = IF announce THEN Append(events, [hdc |-> nextHdc, on |-> TRUE]) ELSE events
  /\ UNCHANGED <<mounts, unmounted>>

\* Mutant: the folder of a drive that is gone stays mounted.
GoneDriveLeft(d) ==
  /\ events' = Append(events, [hdc |-> drives[d].hdc, on |-> FALSE])
  /\ drives' = [drives EXCEPT ![d] = NoDrive]
  /\ unmounted' = unmounted \ {d}
  /\ UNCHANGED <<mounts, nextHdc>>

GoneDrive(d) ==
  /\ mounts' = IF drives[d].folder # NoFolder THEN Umount(mounts, drives[d].folder) ELSE mounts
  /\ events' = Append(events, [hdc |-> drives[d].hdc, on |-> FALSE])
  /\ drives' = [drives EXCEPT ![d] = NoDrive]
  /\ unmounted' = unmounted \ {d}
  /\ UNCHANGED nextHdc

Check(d) ==
  IF Present(d) /\ drives[d] = NoDrive THEN NewDrive(d, TRUE)
  ELSE IF ~Present(d) /\ drives[d] # NoDrive THEN GoneDrive(d)
  ELSE UNCHANGED <<mounts, drives, events, nextHdc, unmounted>>

-----------------------------------------------------------------------------
\* Enable, the first time: Start binds its socket...
StartBinds ==
  /\ pc = "none"
  /\ pc' = "start"
  /\ UNCHANGED <<kernel, mounts, drives, due, events, nextHdc, told, unmounted>>

\* What an earlier program left of drives that are gone is unmounted.  A card
\* without partitions is mounted from its reader's disk, which is still there.
UnmountGone ==
  \E there \in SUBSET Readers : \E n \in 0..Len(mounts) : \E order \in [1..n -> 1..Len(mounts)] :
    /\ \A i, j \in 1..n : i < j => order[i] < order[j]
    /\ {order[i] : i \in 1..n} =
         {i \in 1..Len(mounts) : Present(mounts[i].disk) \/ mounts[i].disk \in there}
    /\ mounts' = [i \in 1..n |-> mounts[order[i]]]

\* ... removes the mounts of drives that are gone, and lists the disks; Enable
\* then tells its controller of them.
StartLists ==
  LET here == SetToSeq({d \in Disks : Present(d)})
      hdcs == [d \in Disks |-> CHOOSE n \in 0..Len(here) :
                 (n = 0 /\ ~Present(d)) \/ (n # 0 /\ Present(d) /\ here[n] = d)]
  IN  /\ pc = "start"
      /\ UnmountGone
      /\ drives' = [d \in Disks |-> IF Present(d)
                      THEN [hdc |-> hdcs[d], folder |-> NoFolder, medium |-> disk[d]] ELSE NoDrive]
      /\ nextHdc' = 1 + Len(here)
      /\ events' = [n \in 1..Len(here) |-> [hdc |-> n, on |-> TRUE]]
      /\ pc' = "check"
      /\ UNCHANGED <<kernel, due, told, unmounted>>

-----------------------------------------------------------------------------
\* Mutant: every USB drive is mounted on /media/usb0.
FolderAlwaysFirst(d) == IF d \in SdDisks THEN SdFolder ELSE 0

\* The SD card's folder, or the first /media/usbN that no mount and no drive has
FolderFor(d) ==
  LET used == {mounts[i].folder : i \in 1..Len(mounts)} \cup {drives[e].folder : e \in Disks}
  IN  IF d \in SdDisks THEN SdFolder
      ELSE CHOOSE n \in 0..(Len(mounts) + Cardinality(Disks)) :
             n \notin used /\ \A k \in 0..(n - 1) : k \in used

\* Mount of a drive that has no folder yet.  One that an earlier program
\* mounted keeps its folder.
Mount(h) ==
  \E d \in Disks :
    LET left == {i \in 1..Len(mounts) : mounts[i].disk = d}
        folder == IF left # {} THEN mounts[CHOOSE i \in left : \A j \in left : i <= j].folder
                  ELSE FolderFor(d)
    IN  /\ GateFree
        /\ drives[d].hdc = h /\ drives[d].folder = NoFolder
        /\ Present(d) /\ disk[d] \notin Unreadable
        /\ mounts' = IF left # {} THEN mounts
                     ELSE Append(mounts, [folder |-> folder, disk |-> d,
                                    medium |-> disk[d], ours |-> TRUE])
        /\ drives' = [drives EXCEPT ![d].folder = folder]
        /\ UNCHANGED <<kernel, due, events, nextHdc, pc, told, unmounted>>

Unmount(h) ==
  \E d \in Disks :
    /\ GateFree
    /\ drives[d].hdc = h /\ drives[d].folder # NoFolder
    /\ mounts' = Umount(mounts, drives[d].folder)
    /\ drives' = [drives EXCEPT ![d].folder = NoFolder]
    /\ unmounted' = unmounted \ {d}
    /\ UNCHANGED <<kernel, due, events, nextHdc, pc, told>>

\* Another program unmounts one of our folders
OthersUnmount(i) ==
  /\ mounts' = RemoveAt(mounts, i)
  /\ unmounted' = unmounted \cup {d \in Disks : drives[d].folder = mounts[i].folder}
  /\ UNCHANGED <<kernel, drives, due, events, nextHdc, pc, told>>

-----------------------------------------------------------------------------
\* Run: the disks that are due, with the gate held
CheckDue(d) ==
  /\ pc = "check"
  /\ due[d] = "now"
  /\ due' = [due EXCEPT ![d] = "no"]
  /\ Check(d)
  /\ UNCHANGED <<kernel, pc, told>>

CheckEnds ==
  /\ pc = "check"
  /\ \A d \in Disks : due[d] # "now"
  /\ pc' = "deliver"
  /\ UNCHANGED <<kernel, mounts, drives, due, events, nextHdc, told, unmounted>>

\* Deliver: the callback is called, and takes its time
Delivers ==
  /\ pc = "deliver"
  /\ events # <<>>
  /\ told' = IF Head(events).on THEN told \cup {Head(events).hdc} ELSE told \ {Head(events).hdc}
  /\ events' = Tail(events)
  /\ UNCHANGED <<kernel, mounts, drives, due, nextHdc, pc, unmounted>>

Polls ==
  /\ pc = "deliver"
  /\ events = <<>>
  /\ messages # <<>> \/ \E d \in Disks : due[d] = "now"
  /\ pc' = IF messages # <<>> THEN "receive" ELSE "check"
  /\ UNCHANGED <<kernel, mounts, drives, due, events, nextHdc, told, unmounted>>

\* Mutant: only new disks are looked at.
ReceivesNoChange ==
  LET m == Head(messages)
  IN  /\ pc = "receive" /\ messages # <<>>
      /\ messages' = Tail(messages)
      /\ due' = IF m.action = "add" THEN [due EXCEPT ![m.disk] = "soon"]
                ELSE IF m.action = "remove" THEN [due EXCEPT ![m.disk] = "no"] ELSE due
      /\ IF m.action = "remove" THEN Check(m.disk)
         ELSE UNCHANGED <<mounts, drives, events, nextHdc, unmounted>>
      /\ UNCHANGED <<disk, media, lost, pc, told>>

Receives ==
  LET m == Head(messages)
  IN  /\ pc = "receive" /\ messages # <<>>
      /\ messages' = Tail(messages)
      /\ IF m.action = "remove"
         THEN due' = [due EXCEPT ![m.disk] = "no"] /\ Check(m.disk)
         ELSE /\ due' = [due EXCEPT ![m.disk] = "soon"]
              /\ UNCHANGED <<mounts, drives, events, nextHdc, unmounted>>
      /\ UNCHANGED <<disk, media, lost, pc, told>>

ReceiveEnds ==
  /\ pc = "receive" /\ messages = <<>>
  /\ pc' = "check"
  /\ UNCHANGED <<kernel, mounts, drives, due, events, nextHdc, told, unmounted>>

SettlePasses(d) ==
  /\ due[d] = "soon" /\ pc # "check"
  /\ due' = [due EXCEPT ![d] = "now"]
  /\ UNCHANGED <<kernel, mounts, drives, events, nextHdc, pc, told, unmounted>>

-----------------------------------------------------------------------------
\* The kernel.  A reader's disk reports "change"; another disk comes and goes.
\* A message that finds the socket's buffer full is lost.
Sends(action, d) ==
  \/ /\ messages' = IF pc = "none" THEN messages
                    ELSE Append(messages, [action |-> IF d \in Readers THEN "change" ELSE action, disk |-> d])
     /\ UNCHANGED lost
  \/ pc # "none" /\ lost < MaxLost /\ lost' = lost + 1 /\ UNCHANGED messages

Insert(d) ==
  /\ ~Present(d) /\ media < MaxMedia
  /\ KeepsName(d) \/ \A i \in 1..Len(mounts) : mounts[i].disk # d
  /\ media' = media + 1
  /\ disk' = [disk EXCEPT ![d] = media + 1]
  /\ Sends("add", d)
  /\ UNCHANGED <<mounts, drives, due, events, nextHdc, pc, told, unmounted>>

PullOut(d) ==
  /\ Present(d)
  /\ disk' = [disk EXCEPT ![d] = 0]
  /\ Sends("remove", d)
  /\ UNCHANGED <<media, mounts, drives, due, events, nextHdc, pc, told, unmounted>>

-----------------------------------------------------------------------------
WatcherNext ==
  \/ \E d \in Disks : CheckDue(d)
  \/ CheckEnds \/ Delivers \/ Polls \/ Receives \/ ReceiveEnds

Next ==
  \/ StartBinds \/ StartLists
  \/ \E h \in 1..MaxHdc : Mount(h) \/ Unmount(h)
  \/ WatcherNext
  \/ \E d \in Disks : SettlePasses(d) \/ Insert(d) \/ PullOut(d)
  \/ \E i \in 1..Len(mounts) : OthersUnmount(i)

\* The watcher's thread runs, a callback comes back, Start goes on, time passes
Fairness ==
  /\ WF_vars(WatcherNext) /\ WF_vars(StartLists)
  /\ \A d \in Disks : WF_vars(SettlePasses(d))

Spec == Init /\ [][Next]_vars /\ Fairness

-----------------------------------------------------------------------------
Folders == Nat \cup {SdFolder}

TypeOK ==
  /\ disk \in [Disks -> 0..media]
  /\ media \in 0..MaxMedia
  /\ \A i \in 1..Len(mounts) :
       mounts[i] \in [folder : Folders, disk : Disks, medium : 1..media, ours : BOOLEAN]
  /\ drives \in [Disks -> [hdc : 0..(nextHdc - 1), folder : Folders \cup {NoFolder}, medium : 0..media]]
  /\ due \in [Disks -> {"no", "soon", "now"}]
  /\ events \in Seq([hdc : 1..(nextHdc - 1), on : BOOLEAN])
  /\ told \subseteq 1..(nextHdc - 1)
  /\ pc \in {"none", "start", "check", "deliver", "receive"}
  /\ lost \in 0..MaxLost /\ unmounted \subseteq Disks

\* The drive in front of the slot is still the one that has the handle
SameDrive(d) == drives[d] # NoDrive /\ drives[d].medium = disk[d]

\* An earlier program's mount of a card that is gone, on a disk that has its
\* name still (652: Check leaves it; 381 to 385: Mount takes it for the new card's)
OfEarlierCard(mount) == ~mount.ours /\ KeepsName(mount.disk)

\* Whoever opens a drive's folder gets that drive (Storage.cpp:380 to 404, 473):
\* it is mounted there unless another program unmounted it, and nothing else is,
\* whatever earlier programs left, other drives took and others unmounted.  Of
\* the medium only a mount OfEarlierCard may be wrong.
FolderIsTheDrives ==
  \A d \in Disks : SameDrive(d) /\ drives[d].folder # NoFolder =>
    LET on == {i \in 1..Len(mounts) : mounts[i].folder = drives[d].folder}
    IN  /\ on # {} \/ d \in unmounted
        /\ \A i \in on : /\ mounts[i].disk = d
                         /\ mounts[i].medium = disk[d] \/ OfEarlierCard(mounts[i])

\* "A drive that is pulled out is unmounted by the library" (Storage.h:11): what
\* the program has mounted is a drive's, which Check or Unmount will unmount.
NoMountLeaks ==
  \A i \in 1..Len(mounts) :
    mounts[i].ours => drives[mounts[i].disk].folder = mounts[i].folder

\* In the end the drives are the disks that are there, and the controller was
\* told of each of them and of no other, if the kernel lost no message.
EndsUpRight ==
  <>[](pc # "none" /\ lost = 0 =>
         /\ \A d \in Disks : Present(d) <=> drives[d] # NoDrive
         /\ told = {drives[d].hdc : d \in Disks} \ {0})

=============================================================================

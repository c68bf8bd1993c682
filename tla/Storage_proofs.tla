---------------------------- MODULE Storage_proofs ----------------------------
(***************************************************************************)
(* Proofs about Storage for any disks, media and handles: its types, that  *)
(* a drive's folder shows that drive, that no mount of the library's is    *)
(* forgotten, and that what the controller was told is what is there.      *)
(***************************************************************************)
EXTENDS Storage, FiniteSetTheorems, WellFoundedInduction, SequenceTheorems, TLAPS

-----------------------------------------------------------------------------
\* A finite set leaves free one of as many numbers as it has members and one
\* more, and so a least one.
LEMMA LeastFree ==
  ASSUME NEW U, IsFiniteSet(U), NEW m \in Nat, Cardinality(U) <= m
  PROVE  \E n \in 0..m : n \notin U /\ \A k \in 0..(n - 1) : k \in U
<1> DEFINE T == (0..m) \ U
<1>1. T # {}
  <2>1. SUFFICES ASSUME 0..m \subseteq U PROVE FALSE
    OBVIOUS
  <2>2. Cardinality(0..m) <= Cardinality(U)
    BY <2>1, FS_Subset
  <2>3. Cardinality(0..m) = m + 1
    BY FS_Interval
  <2>4. Cardinality(U) \in Nat
    BY FS_CardinalityType
  <2> QED
    BY <2>2, <2>3, <2>4
<1>2. PICK n \in T : \A k \in T : <<k, n>> \notin OpToRel(<, Nat)
  <2> HIDE DEF T
  <2>1. T \subseteq Nat
    BY DEF T
  <2> QED
    BY <2>1, <1>1, WFMin, NatLessThanWellFounded
<1>3. ASSUME NEW k \in 0..(n - 1) PROVE k \in U
  <2>1. k \in Nat /\ n \in Nat /\ k < n /\ k \in 0..m
    OBVIOUS
  <2>2. <<k, n>> \in OpToRel(<, Nat)
    BY <2>1 DEF OpToRel
  <2> QED
    BY <1>2, <2>1, <2>2
<1> QED
  BY <1>3

-----------------------------------------------------------------------------
Mounted == [folder : Folders, disk : Disks, medium : 1..media, ours : BOOLEAN]
Messages == [action : {"add", "remove", "change"}, disk : Disks]
Handles == 1..(nextHdc - 1)
DriveRecord ==
  [hdc : 0..(nextHdc - 1), folder : Folders \cup {NoFolder}, medium : 0..media]

\* TypeOK, with the messages' and the sequences' types.
Types ==
  /\ media \in 0..MaxMedia /\ nextHdc \in Nat \ {0}
  /\ disk \in [Disks -> 0..media]
  /\ mounts \in Seq(Mounted)
  /\ messages \in Seq(Messages)
  /\ drives \in [Disks -> DriveRecord]
  /\ due \in [Disks -> {"no", "soon", "now"}]
  /\ events \in Seq([hdc : Handles, on : BOOLEAN])
  /\ told \subseteq Handles
  /\ pc \in {"none", "start", "check", "deliver", "receive"}
  /\ lost \in 0..MaxLost /\ unmounted \subseteq Disks

\* Before Start has listed the disks there are no drives, and only mounts that
\* an earlier program left.
NotStarted ==
  pc \in {"none", "start"} =>
    /\ drives = [d \in Disks |-> NoDrive]
    /\ events = <<>> /\ told = {} /\ nextHdc = 1
    /\ \A i \in 1..Len(mounts) : ~mounts[i].ours

\* A drive has a handle of its own and a medium.
DrivesOK ==
  /\ \A d \in Disks : drives[d] = NoDrive \/ (drives[d].hdc # 0 /\ drives[d].medium # 0)
  /\ \A d, e \in Disks : d # e /\ drives[d].hdc = drives[e].hdc => drives[d].hdc = 0

\* No two mounts share a folder or a disk, so that an Umount takes the one that
\* is meant; /media/sd is the slot's.
MountsOK ==
  /\ \A i, j \in 1..Len(mounts) :
       i # j => mounts[i].folder # mounts[j].folder /\ mounts[i].disk # mounts[j].disk
  /\ \A i \in 1..Len(mounts) : mounts[i].folder = SdFolder <=> mounts[i].disk \in SdDisks

\* A drive that has a folder shares it with no other drive, and is mounted on it
\* unless another program unmounted it, with its own medium unless the disk was
\* swapped since or the mount is an earlier card's.
FolderOK(d) ==
  /\ drives[d].folder = SdFolder <=> d \in SdDisks
  /\ \A e \in Disks \ {d} : drives[e].folder # drives[d].folder
  /\ d \in unmounted \/ \E i \in 1..Len(mounts) : mounts[i].folder = drives[d].folder
  /\ \A i \in 1..Len(mounts) : mounts[i].folder = drives[d].folder =>
       /\ mounts[i].disk = d
       /\ SameDrive(d) => mounts[i].medium = disk[d] \/ OfEarlierCard(mounts[i])
FoldersOK == \A d \in Disks : drives[d].folder # NoFolder => FolderOK(d)

\* What an earlier program left is of a disk whose name is not given again,
\* unless it is the disk's for every card.
LeftOK ==
  \A i \in 1..Len(mounts) : ~mounts[i].ours =>
    KeepsName(mounts[i].disk) \/ disk[mounts[i].disk] \in {0, mounts[i].medium}

StorageInv ==
  /\ Types /\ NotStarted /\ DrivesOK /\ MountsOK /\ FoldersOK /\ LeftOK /\ NoMountLeaks

\* Of a handle's events in the queue the last says whether a drive has it; with
\* none in the queue, what was told does.
Given(h) == \E d \in Disks : drives[d].hdc = h
QueuedOK ==
  /\ \A i \in 1..Len(events) :
       (\A j \in (i + 1)..Len(events) : events[j].hdc # events[i].hdc)
         => (events[i].on <=> Given(events[i].hdc))
  /\ \A h \in Handles :
       (\A i \in 1..Len(events) : events[i].hdc # h) => (h \in told <=> Given(h))

-----------------------------------------------------------------------------
\* What RemoveAt leaves: all but one, in their order.
LEMMA RemoveAtProperties ==
  ASSUME NEW S, NEW s \in Seq(S), NEW k \in 1..Len(s)
  PROVE  /\ RemoveAt(s, k) \in Seq(S)
         /\ Len(RemoveAt(s, k)) = Len(s) - 1
         /\ \A i \in 1..(Len(s) - 1) : RemoveAt(s, k)[i] = IF i < k THEN s[i] ELSE s[i + 1]
<1> DEFINE a == SubSeq(s, 1, k - 1)
           b == SubSeq(s, k + 1, Len(s))
<1>0. Len(s) \in Nat /\ \A i \in 1..Len(s) : s[i] \in S
  BY LenProperties, ElementOfSeq
<1>1. /\ a \in Seq(S) /\ Len(a) = k - 1
      /\ \A i \in 1..(k - 1) : a[i] = s[i]
  <2>1. /\ SubSeq(s, 1, k - 1) \in Seq(S)
        /\ Len(SubSeq(s, 1, k - 1)) = IF 1 <= k - 1 THEN k - 1 - 1 + 1 ELSE 0
        /\ \A i \in 1..(k - 1 - 1 + 1) : SubSeq(s, 1, k - 1)[i] = s[1 + i - 1]
    BY <1>0, SubSeqProperties
  <2> QED BY <2>1, <1>0
<1>2. /\ b \in Seq(S) /\ Len(b) = Len(s) - k
      /\ \A i \in 1..(Len(s) - k) : b[i] = s[k + i]
  <2>1. /\ SubSeq(s, k + 1, Len(s)) \in Seq(S)
        /\ Len(SubSeq(s, k + 1, Len(s))) =
             IF k + 1 <= Len(s) THEN Len(s) - (k + 1) + 1 ELSE 0
        /\ \A i \in 1..(Len(s) - (k + 1) + 1) :
             SubSeq(s, k + 1, Len(s))[i] = s[(k + 1) + i - 1]
    BY <1>0, SubSeqProperties
  <2> QED BY <2>1, <1>0
<1> HIDE DEF a, b
<1>3. /\ a \o b \in Seq(S) /\ Len(a \o b) = Len(a) + Len(b)
      /\ \A i \in 1..(Len(a) + Len(b)) :
           (a \o b)[i] = IF i <= Len(a) THEN a[i] ELSE b[i - Len(a)]
  BY <1>1, <1>2, ConcatProperties
<1>4. RemoveAt(s, k) = a \o b
  BY DEF RemoveAt, a, b
<1>5. Len(a \o b) = Len(s) - 1
  BY <1>0, <1>1, <1>2, <1>3
<1>6. ASSUME NEW i \in 1..(Len(s) - 1)
      PROVE  (a \o b)[i] = IF i < k THEN s[i] ELSE s[i + 1]
  <2>1. i \in 1..(Len(a) + Len(b))
    BY <1>0, <1>1, <1>2
  <2>2. CASE i < k
    <3>1. i <= Len(a) /\ i \in 1..(k - 1)
      BY <1>1, <2>2
    <3> QED BY <3>1, <2>1, <2>2, <1>1, <1>3
  <2>3. CASE ~(i < k)
    <3>1. ~(i <= Len(a)) /\ i - Len(a) \in 1..(Len(s) - k) /\ k + (i - Len(a)) = i + 1
      BY <1>0, <1>1, <2>3
    <3>2. (a \o b)[i] = b[i - Len(a)]
      BY <3>1, <2>1, <1>3
    <3>3. b[i - Len(a)] = s[k + (i - Len(a))]
      BY <3>1, <1>2
    <3> QED BY <3>1, <3>2, <3>3, <2>3
  <2> QED BY <2>2, <2>3
<1> QED BY <1>3, <1>4, <1>5, <1>6

\* Each of the mounts is one.
LEMMA MountTypes ==
  ASSUME Types
  PROVE  Len(mounts) \in Nat /\ \A i \in 1..Len(mounts) : mounts[i] \in Mounted
BY LenProperties, ElementOfSeq DEF Types

\* Umount takes the one mount on its folder.
LEMMA UmountsOne ==
  ASSUME Types, MountsOK, NEW k \in 1..Len(mounts)
  PROVE  Umount(mounts, mounts[k].folder) = RemoveAt(mounts, k)
<1> DEFINE on == {i \in 1..Len(mounts) : mounts[i].folder = mounts[k].folder}
<1>1. on = {k}
  BY DEF MountsOK
<1>2. Len(mounts) \in Nat
  BY LenProperties DEF Types
<1>3. k = CHOOSE i \in on : \A j \in on : j <= i
  BY <1>1, <1>2
<1> QED BY <1>1, <1>3 DEF Umount

\* One mount goes, the others stay in their order.
LEMMA OneLess ==
  ASSUME Types, MountsOK, NEW k \in 1..Len(mounts), mounts' = RemoveAt(mounts, k), media' = media
  PROVE  /\ mounts' \in Seq(Mounted) /\ MountsOK'
         /\ \A i \in 1..Len(mounts') : \E j \in 1..Len(mounts) : j # k /\ mounts'[i] = mounts[j]
         /\ \A j \in 1..Len(mounts) : j # k => \E i \in 1..Len(mounts') : mounts'[i] = mounts[j]
<1>3. /\ mounts' \in Seq(Mounted)
      /\ Len(mounts') = Len(mounts) - 1
      /\ \A i \in 1..(Len(mounts) - 1) : mounts'[i] = IF i < k THEN mounts[i] ELSE mounts[i + 1]
  <2>1. mounts \in Seq(Mounted)
    BY DEF Types
  <2> QED BY <2>1, RemoveAtProperties
<1>4. Len(mounts) \in Nat
  BY MountTypes
<1>6. \A i \in 1..Len(mounts') : \E j \in 1..Len(mounts) :
        j # k /\ mounts'[i] = mounts[j] /\ j = IF i < k THEN i ELSE i + 1
  BY <1>3, <1>4
<1>7. \A j \in 1..Len(mounts) : j # k => \E i \in 1..Len(mounts') : mounts'[i] = mounts[j]
  <2> SUFFICES ASSUME NEW j \in 1..Len(mounts), j # k
               PROVE  \E i \in 1..Len(mounts') : mounts'[i] = mounts[j]
    OBVIOUS
  <2>1. CASE j < k
    BY <2>1, <1>3, <1>4
  <2>2. CASE j > k
    <3>1. j - 1 \in 1..Len(mounts') /\ mounts'[j - 1] = mounts[j]
      BY <2>2, <1>3, <1>4
    <3> QED BY <3>1
  <2> QED BY <2>1, <2>2, <1>4
<1>8. MountsOK'
  <2>1. ASSUME NEW i \in 1..Len(mounts'), NEW j \in 1..Len(mounts'), i # j
        PROVE  mounts'[i].folder # mounts'[j].folder /\ mounts'[i].disk # mounts'[j].disk
    <3>1. PICK a \in 1..Len(mounts) : mounts'[i] = mounts[a] /\ a = IF i < k THEN i ELSE i + 1
      BY <1>6
    <3>2. PICK b \in 1..Len(mounts) : mounts'[j] = mounts[b] /\ b = IF j < k THEN j ELSE j + 1
      BY <1>6
    <3>3. a # b
      BY <3>1, <3>2, <2>1, <1>3, <1>4
    <3> QED BY <3>1, <3>2, <3>3 DEF MountsOK
  <2>2. ASSUME NEW i \in 1..Len(mounts')
        PROVE  mounts'[i].folder = SdFolder <=> mounts'[i].disk \in SdDisks
    BY <1>6 DEF MountsOK
  <2> QED BY <2>1, <2>2 DEF MountsOK
<1> QED BY <1>3, <1>6, <1>7, <1>8

\* A drive loses its folder: its mount goes, if another program left it, and the
\* others stay right.
LEMMA WithoutOne ==
  ASSUME StorageInv, NEW d \in Disks, drives[d].folder # NoFolder,
         mounts' = Umount(mounts, drives[d].folder),
         NEW r, r.folder = NoFolder, drives' = [drives EXCEPT ![d] = r],
         unmounted' = unmounted \ {d}, UNCHANGED <<disk, media>>
  PROVE  mounts' \in Seq(Mounted) /\ MountsOK' /\ FoldersOK' /\ LeftOK' /\ NoMountLeaks'
<1>1. /\ FolderOK(d) /\ drives'[d] = r
      /\ \A e \in Disks : e # d => drives'[e] = drives[e] /\ (e \in unmounted' <=> e \in unmounted)
  BY DEF StorageInv, Types, FoldersOK
<1>2. Len(mounts) \in Nat /\ \A i \in 1..Len(mounts) : mounts[i] \in Mounted
  BY MountTypes DEF StorageInv
<1>3. /\ mounts' \in Seq(Mounted) /\ MountsOK'
      /\ \A i \in 1..Len(mounts') : mounts'[i].folder # drives[d].folder
      /\ \A i \in 1..Len(mounts') : \E j \in 1..Len(mounts) : mounts'[i] = mounts[j]
      /\ \A j \in 1..Len(mounts) : mounts[j].folder # drives[d].folder =>
           \E i \in 1..Len(mounts') : mounts'[i] = mounts[j]
  <2>1. CASE \E k \in 1..Len(mounts) : mounts[k].folder = drives[d].folder
    <3>1. PICK k \in 1..Len(mounts) : mounts[k].folder = drives[d].folder
      BY <2>1
    <3>2. mounts' = RemoveAt(mounts, k)
      BY <3>1, UmountsOne DEF StorageInv
    <3>3. /\ mounts' \in Seq(Mounted) /\ MountsOK'
          /\ \A i \in 1..Len(mounts') : \E j \in 1..Len(mounts) : j # k /\ mounts'[i] = mounts[j]
          /\ \A j \in 1..Len(mounts) : j # k => \E i \in 1..Len(mounts') : mounts'[i] = mounts[j]
      BY <3>2, OneLess DEF StorageInv
    <3>4. \A j \in 1..Len(mounts) : j # k => mounts[j].folder # drives[d].folder
      BY <3>1 DEF StorageInv, MountsOK
    <3>5. \A i \in 1..Len(mounts') : mounts'[i].folder # drives[d].folder
      <4> SUFFICES ASSUME NEW i \in 1..Len(mounts') PROVE mounts'[i].folder # drives[d].folder
        OBVIOUS
      <4>1. PICK j \in 1..Len(mounts) : j # k /\ mounts'[i] = mounts[j]
        BY <3>3
      <4> QED BY <4>1, <3>4
    <3>6. \A j \in 1..Len(mounts) : mounts[j].folder # drives[d].folder => j # k
      BY <3>1
    <3>7. \A i \in 1..Len(mounts') : \E j \in 1..Len(mounts) : mounts'[i] = mounts[j]
      BY <3>3
    <3> QED BY <3>3, <3>5, <3>6, <3>7
  <2>2. CASE ~\E k \in 1..Len(mounts) : mounts[k].folder = drives[d].folder
    <3>1. mounts' = mounts
      BY <2>2 DEF Umount
    <3> QED BY <2>2, <3>1 DEF StorageInv, Types, MountsOK
  <2> QED BY <2>1, <2>2
<1>9. FoldersOK'
  <2> SUFFICES ASSUME NEW e \in Disks, drives'[e].folder # NoFolder PROVE FolderOK(e)'
    BY DEF FoldersOK
  <2>1. e # d /\ drives'[e] = drives[e] /\ (e \in unmounted' <=> e \in unmounted)
    BY <1>1
  <2>2. FolderOK(e) /\ drives[e].folder # drives[d].folder
    BY <1>1, <2>1 DEF StorageInv, FoldersOK, FolderOK
  <2>3. \A c \in Disks \ {e} : drives'[c].folder # drives'[e].folder
    BY <1>1, <2>1, <2>2 DEF FolderOK
  <2>4. e \in unmounted' \/ \E i \in 1..Len(mounts') : mounts'[i].folder = drives'[e].folder
    BY <1>3, <2>1, <2>2 DEF FolderOK
  <2>5. SameDrive(e)' <=> SameDrive(e)
    BY <2>1 DEF SameDrive
  <2>6. ASSUME NEW i \in 1..Len(mounts'), mounts'[i].folder = drives'[e].folder
        PROVE  /\ mounts'[i].disk = e
               /\ SameDrive(e)' => mounts'[i].medium = disk'[e] \/ OfEarlierCard(mounts'[i])
    BY <1>3, <2>1, <2>2, <2>5, <2>6 DEF FolderOK
  <2> QED BY <2>1, <2>2, <2>3, <2>4, <2>6 DEF FolderOK, OfEarlierCard, KeepsName
<1>10. LeftOK'
  BY <1>3 DEF StorageInv, LeftOK, KeepsName
<1>11. NoMountLeaks'
  <2> SUFFICES ASSUME NEW i \in 1..Len(mounts'), mounts'[i].ours
               PROVE  drives'[mounts'[i].disk].folder = mounts'[i].folder
    BY DEF NoMountLeaks
  <2>1. PICK j \in 1..Len(mounts) : mounts'[i] = mounts[j]
    BY <1>3
  <2>2. drives[mounts[j].disk].folder = mounts[j].folder /\ mounts[j].disk \in Disks
    BY <2>1, <1>2 DEF StorageInv, NoMountLeaks, Mounted
  <2>3. mounts[j].disk # d
    BY <2>1, <2>2, <1>3
  <2> QED BY <2>1, <2>2, <2>3, <1>1
<1> QED BY <1>3, <1>9, <1>10, <1>11

\* Another program unmounts one: its drive's folder shows nothing any more.
LEMMA OthersUnmountKeeps ==
  ASSUME StorageInv, NEW k \in 1..Len(mounts), OthersUnmount(k) PROVE StorageInv'
<1>1. /\ mounts' = RemoveAt(mounts, k)
      /\ unmounted' = unmounted \cup {d \in Disks : drives[d].folder = mounts[k].folder}
      /\ UNCHANGED <<disk, media, messages, lost, drives, due, events, nextHdc, pc, told>>
  BY DEF OthersUnmount, kernel
<1>2. /\ mounts' \in Seq(Mounted) /\ MountsOK'
      /\ \A i \in 1..Len(mounts') : \E j \in 1..Len(mounts) : j # k /\ mounts'[i] = mounts[j]
      /\ \A j \in 1..Len(mounts) : j # k => \E i \in 1..Len(mounts') : mounts'[i] = mounts[j]
  BY <1>1, OneLess DEF StorageInv
<1>3. Types'
  BY <1>1, <1>2 DEF StorageInv, Types, Mounted, DriveRecord, Handles, Messages
<1>4. NotStarted' /\ DrivesOK' /\ LeftOK' /\ NoMountLeaks'
  <2>1. NotStarted'
    BY <1>1, <1>2 DEF StorageInv, NotStarted
  <2>2. DrivesOK'
    BY <1>1 DEF StorageInv, DrivesOK
  <2>3. LeftOK'
    BY <1>1, <1>2 DEF StorageInv, LeftOK, KeepsName
  <2>4. NoMountLeaks'
    BY <1>1, <1>2 DEF StorageInv, NoMountLeaks
  <2> QED BY <2>1, <2>2, <2>3, <2>4
<1>5. FoldersOK'
  <2> SUFFICES ASSUME NEW e \in Disks, drives[e].folder # NoFolder PROVE FolderOK(e)'
    BY <1>1 DEF FoldersOK
  <2>1. FolderOK(e)
    BY DEF StorageInv, FoldersOK
  <2>2. e \in unmounted' \/ \E i \in 1..Len(mounts') : mounts'[i].folder = drives[e].folder
    BY <1>1, <1>2, <2>1 DEF FolderOK
  <2>3. ASSUME NEW i \in 1..Len(mounts'), mounts'[i].folder = drives[e].folder
        PROVE  /\ mounts'[i].disk = e
               /\ SameDrive(e) => mounts'[i].medium = disk[e] \/ OfEarlierCard(mounts'[i])
    BY <1>2, <2>1, <2>3 DEF FolderOK
  <2> QED BY <1>1, <2>1, <2>2, <2>3 DEF FolderOK, SameDrive, OfEarlierCard, KeepsName
<1> QED BY <1>2, <1>3, <1>4, <1>5 DEF StorageInv

-----------------------------------------------------------------------------
\* The image of a sequence's indices is finite, and no larger than they are.
LEMMA ImageOfIndices ==
  ASSUME NEW n \in Nat, NEW f, f = [i \in 1..n |-> f[i]]
  PROVE  /\ IsFiniteSet({f[i] : i \in 1..n})
         /\ Cardinality({f[i] : i \in 1..n}) <= n
<1>1. f \in Surjection(1..n, {f[i] : i \in 1..n})
  BY DEF Surjection
<1>2. IsFiniteSet(1..n) /\ Cardinality(1..n) = n
  BY FS_Interval
<1> QED BY <1>1, <1>2, FS_Surjection

\* A USB drive gets a number that no mount and no drive has.
LEMMA FolderIsFree ==
  ASSUME Types, NEW d \in Disks \ SdDisks
  PROVE  /\ FolderFor(d) \in Nat
         /\ \A i \in 1..Len(mounts) : mounts[i].folder # FolderFor(d)
         /\ \A e \in Disks : drives[e].folder # FolderFor(d)
<1> DEFINE f == [i \in 1..Len(mounts) |-> mounts[i].folder]
           g == [e \in Disks |-> drives[e].folder]
           F == {f[i] : i \in 1..Len(mounts)}
           G == {g[e] : e \in Disks}
           used == {mounts[i].folder : i \in 1..Len(mounts)} \cup {drives[e].folder : e \in Disks}
<1>1. Len(mounts) \in Nat
  BY LenProperties DEF Types
<1>2. IsFiniteSet(F) /\ Cardinality(F) <= Len(mounts)
  <2>1. f = [i \in 1..Len(mounts) |-> f[i]]
    OBVIOUS
  <2> HIDE DEF f
  <2> QED BY <1>1, <2>1, ImageOfIndices
<1>3. IsFiniteSet(G) /\ Cardinality(G) <= Cardinality(Disks)
  <2>1. g \in Surjection(Disks, G)
    BY DEF Surjection
  <2> HIDE DEF g, G
  <2> QED BY <2>1, DisksAssumption, FS_Surjection
<1>4. used = F \cup G
  OBVIOUS
<1>5. IsFiniteSet(used) /\ Cardinality(used) <= Len(mounts) + Cardinality(Disks)
  <2> HIDE DEF used, F, G
  <2>1. IsFiniteSet(F \cap G)
    BY <1>2, FS_Subset
  <2>2. /\ Cardinality(F) \in Nat /\ Cardinality(G) \in Nat /\ Cardinality(F \cap G) \in Nat
        /\ Cardinality(Disks) \in Nat
    BY <1>2, <1>3, <2>1, DisksAssumption, FS_CardinalityType
  <2>3. /\ IsFiniteSet(F \cup G)
        /\ Cardinality(F \cup G) = Cardinality(F) + Cardinality(G) - Cardinality(F \cap G)
    BY <1>2, <1>3, FS_Union
  <2> QED BY <1>1, <1>2, <1>3, <1>4, <2>2, <2>3
<1> HIDE DEF used
<1>6. Len(mounts) + Cardinality(Disks) \in Nat
  BY <1>1, DisksAssumption, FS_CardinalityType
<1>7. \E n \in 0..(Len(mounts) + Cardinality(Disks)) :
        n \notin used /\ \A k \in 0..(n - 1) : k \in used
  BY <1>5, <1>6, LeastFree
<1>8. FolderFor(d) = CHOOSE n \in 0..(Len(mounts) + Cardinality(Disks)) :
        n \notin used /\ \A k \in 0..(n - 1) : k \in used
  BY DEF FolderFor, used
<1>9. FolderFor(d) \in 0..(Len(mounts) + Cardinality(Disks)) /\ FolderFor(d) \notin used
  BY <1>7, <1>8
<1> QED BY <1>6, <1>9 DEF used

-----------------------------------------------------------------------------
\* Mount gives a drive the folder that an earlier program left, or mounts it on
\* one that nobody has.
LEMMA MountKeeps == ASSUME StorageInv, NEW h \in 1..MaxHdc, Mount(h) PROVE StorageInv'
<1> DEFINE Left(d) == {i \in 1..Len(mounts) : mounts[i].disk = d}
           Folder(d) == IF Left(d) # {}
                        THEN mounts[CHOOSE i \in Left(d) : \A j \in Left(d) : i <= j].folder
                        ELSE FolderFor(d)
           New(d) == [folder |-> Folder(d), disk |-> d, medium |-> disk[d], ours |-> TRUE]
<1>1. PICK d \in Disks :
        /\ GateFree
        /\ drives[d].hdc = h /\ drives[d].folder = NoFolder
        /\ Present(d) /\ disk[d] \notin Unreadable
        /\ mounts' = IF Left(d) # {} THEN mounts ELSE Append(mounts, New(d))
        /\ drives' = [drives EXCEPT ![d].folder = Folder(d)]
        /\ UNCHANGED <<disk, media, messages, lost, due, events, nextHdc, pc, told, unmounted>>
  BY DEF Mount, kernel
<1>2. Len(mounts) \in Nat /\ \A i \in 1..Len(mounts) : mounts[i] \in Mounted
  BY MountTypes DEF StorageInv
<1>3. drives[d] # NoDrive /\ disk[d] # 0 /\ drives[d] \in DriveRecord /\ disk[d] \in 1..media
  BY <1>1 DEF StorageInv, Types, NoDrive, Present
<1>4. /\ drives'[d] = [drives[d] EXCEPT !.folder = Folder(d)]
      /\ \A e \in Disks : e # d => drives'[e] = drives[e]
  BY <1>1 DEF StorageInv, Types
<1>5. pc \notin {"none", "start"}
  BY <1>3 DEF StorageInv, NotStarted
<1>6. CASE Left(d) # {}
  <2>1. PICK k \in 1..Len(mounts) : mounts[k].disk = d
    BY <1>6
  <2>2. Left(d) = {k}
    BY <2>1 DEF StorageInv, MountsOK
  <2>3. Folder(d) = mounts[k].folder
    <3>1. k = CHOOSE i \in Left(d) : \A j \in Left(d) : i <= j
      BY <2>2, <1>2
    <3> QED BY <3>1, <2>2
  <2>4. ~mounts[k].ours
    <3>1. mounts[k].ours => drives[d].folder = mounts[k].folder
      BY <2>1 DEF StorageInv, NoMountLeaks
    <3>2. mounts[k].folder \in Folders /\ NoFolder \notin Folders
      BY <1>2 DEF Mounted, Folders, NoFolder, SdFolder
    <3> QED BY <1>1, <3>1, <3>2
  <2>5. mounts[k].medium = disk[d] \/ OfEarlierCard(mounts[k])
    BY <2>1, <2>4, <1>3 DEF StorageInv, LeftOK, OfEarlierCard
  <2> HIDE DEF Left, Folder, New
  <2>6. mounts' = mounts
    BY <1>1, <1>6
  <2>7. Folder(d) \in Folders
    BY <2>3, <1>2 DEF Mounted
  <2>8. Types'
    <3>1. drives' \in [Disks -> DriveRecord]
      BY <2>7, <1>1, <1>3 DEF StorageInv, Types, DriveRecord
    <3> QED BY <3>1, <2>6, <1>1 DEF StorageInv, Types, Mounted, DriveRecord, Handles
  <2>9. NotStarted' /\ MountsOK' /\ LeftOK'
    BY <2>6, <1>1, <1>5 DEF StorageInv, NotStarted, MountsOK, LeftOK, KeepsName
  <2>10. DrivesOK'
    BY <1>1, <1>3, <1>4 DEF StorageInv, DrivesOK, NoDrive, DriveRecord
  <2>11. FoldersOK'
    <3>0. drives'[d].folder = Folder(d) /\ Folder(d) \in Folders /\ NoFolder \notin Folders
      BY <2>7, <1>3, <1>4 DEF DriveRecord, Folders, NoFolder, SdFolder
    <3>1. \A e \in Disks \ {d} : drives[e].folder # Folder(d)
      <4> SUFFICES ASSUME NEW e \in Disks \ {d}, drives[e].folder = Folder(d) PROVE FALSE
        OBVIOUS
      <4>1. FolderOK(e)
        BY <3>0 DEF StorageInv, FoldersOK
      <4> QED BY <4>1, <2>1, <2>3 DEF FolderOK
    <3>2. FolderOK(d)'
      <4>1. \A i \in 1..Len(mounts) : mounts[i].folder = Folder(d) => i = k
        BY <2>3 DEF StorageInv, MountsOK
      <4>2. Folder(d) = SdFolder <=> d \in SdDisks
        BY <2>1, <2>3 DEF StorageInv, MountsOK
      <4> QED BY <4>1, <4>2, <3>0, <3>1, <2>1, <2>3, <2>5, <2>6, <1>1, <1>4
              DEF FolderOK, OfEarlierCard, KeepsName
    <3>3. ASSUME NEW e \in Disks \ {d}, drives'[e].folder # NoFolder PROVE FolderOK(e)'
      <4>1. FolderOK(e) /\ drives'[e] = drives[e]
        BY <3>3, <1>4 DEF StorageInv, FoldersOK
      <4>2. \A c \in Disks \ {e} : drives'[c].folder # drives'[e].folder
        BY <3>0, <3>1, <4>1, <1>4 DEF FolderOK
      <4> QED BY <4>1, <4>2, <2>6, <1>1 DEF FolderOK, SameDrive, OfEarlierCard, KeepsName
    <3> QED BY <3>2, <3>3 DEF FoldersOK
  <2>12. NoMountLeaks'
    <3> SUFFICES ASSUME NEW i \in 1..Len(mounts), mounts[i].ours
                 PROVE  drives'[mounts[i].disk].folder = mounts[i].folder
      BY <2>6 DEF NoMountLeaks
    <3>1. mounts[i].disk # d /\ mounts[i].disk \in Disks
      BY <2>1, <2>4, <1>2 DEF StorageInv, MountsOK, Mounted
    <3> QED BY <3>1, <1>4 DEF StorageInv, NoMountLeaks
  <2> QED BY <2>8, <2>9, <2>10, <2>11, <2>12 DEF StorageInv
<1>7. CASE Left(d) = {}
  <2>1. Folder(d) = FolderFor(d)
    BY <1>7
  <2>2. /\ Folder(d) \in Folders
        /\ Folder(d) = SdFolder <=> d \in SdDisks
        /\ \A i \in 1..Len(mounts) : mounts[i].folder # Folder(d)
    <3>1. CASE d \in SdDisks
      <4>1. Folder(d) = SdFolder
        BY <3>1, <2>1 DEF FolderFor
      <4>2. ASSUME NEW i \in 1..Len(mounts), mounts[i].folder = SdFolder PROVE FALSE
        <5>1. mounts[i].disk \in SdDisks
          BY <4>2 DEF StorageInv, MountsOK
        <5>2. mounts[i].disk = d
          BY <5>1, <3>1, DisksAssumption
        <5> QED BY <5>2, <1>7
      <4> HIDE DEF Folder, Left
      <4> QED BY <4>1, <4>2, <3>1 DEF Folders
    <3>2. CASE d \notin SdDisks
      <4> HIDE DEF Folder, Left
      <4>1. /\ FolderFor(d) \in Nat
            /\ \A i \in 1..Len(mounts) : mounts[i].folder # FolderFor(d)
        BY <3>2, FolderIsFree DEF StorageInv
      <4> QED BY <4>1, <3>2, <2>1 DEF Folders, SdFolder
    <3> QED BY <3>1, <3>2
  <2>3. \A i \in 1..Len(mounts) : mounts[i].disk # d
    BY <1>7
  <2> HIDE DEF Left, Folder
  <2>4. New(d) \in Mounted
    BY <2>2, <1>3 DEF Mounted
  <2>5. New(d).folder = Folder(d) /\ New(d).disk = d /\ New(d).medium = disk[d] /\ New(d).ours
    OBVIOUS
  <2> HIDE DEF New
  <2>6. mounts' = Append(mounts, New(d))
    BY <1>1, <1>7
  <2>7. /\ mounts' \in Seq(Mounted) /\ Len(mounts') = Len(mounts) + 1
        /\ \A i \in 1..Len(mounts) : mounts'[i] = mounts[i]
        /\ mounts'[Len(mounts) + 1] = New(d)
    BY <2>4, <2>6, AppendProperties DEF StorageInv, Types
  <2>8. Types'
    <3>1. drives' \in [Disks -> DriveRecord]
      BY <2>2, <1>1, <1>3 DEF StorageInv, Types, DriveRecord
    <3> QED BY <3>1, <2>7, <1>1 DEF StorageInv, Types, Mounted, DriveRecord, Handles
  <2>9. NotStarted'
    BY <1>1, <1>5 DEF NotStarted
  <2>10. DrivesOK'
    BY <1>1, <1>3, <1>4 DEF StorageInv, DrivesOK, NoDrive, DriveRecord
  <2>11. \A i \in 1..Len(mounts') : i \in 1..Len(mounts) \/ i = Len(mounts) + 1
    BY <2>7, <1>2
  <2>12. MountsOK'
    BY <2>2, <2>3, <2>5, <2>7, <2>11 DEF StorageInv, MountsOK
  <2>13. LeftOK'
    BY <2>5, <2>7, <2>11, <1>1 DEF StorageInv, LeftOK, KeepsName
  <2>14. drives'[d].folder = Folder(d)
    BY <1>3, <1>4 DEF DriveRecord
  <2>15. FoldersOK'
    <3>0. Folder(d) \in Folders /\ NoFolder \notin Folders /\ Len(mounts) + 1 \in 1..Len(mounts')
      BY <2>2, <2>7, <1>2 DEF Folders, NoFolder, SdFolder
    <3>1. \A e \in Disks \ {d} : drives[e].folder # Folder(d)
      <4>1. CASE d \in SdDisks
        <5> SUFFICES ASSUME NEW e \in Disks \ {d}, drives[e].folder = Folder(d) PROVE FALSE
          OBVIOUS
        <5>1. FolderOK(e) /\ Folder(d) = SdFolder
          BY <3>0, <4>1, <2>2 DEF StorageInv, FoldersOK
        <5>2. e \in SdDisks
          BY <5>1 DEF FolderOK
        <5> QED BY <5>2, <4>1, DisksAssumption
      <4>2. CASE d \notin SdDisks
        BY <4>2, <2>1, FolderIsFree DEF StorageInv
      <4> QED BY <4>1, <4>2
    <3>2. FolderOK(d)'
      <4>1. \A i \in 1..Len(mounts') : mounts'[i].folder = Folder(d) => i = Len(mounts) + 1
        BY <2>2, <2>7, <2>11
      <4>2. /\ \A e \in Disks \ {d} : drives'[e].folder # drives'[d].folder
            /\ drives'[d].folder = SdFolder <=> d \in SdDisks
        BY <3>1, <2>2, <2>14, <1>4
      <4>3. \E i \in 1..Len(mounts') : mounts'[i].folder = drives'[d].folder
        BY <3>0, <2>5, <2>7, <2>14
      <4>4. ASSUME NEW i \in 1..Len(mounts'), mounts'[i].folder = drives'[d].folder
            PROVE  mounts'[i].disk = d /\ mounts'[i].medium = disk'[d]
        BY <4>1, <4>4, <2>5, <2>7, <2>14, <1>1
      <4> QED BY <4>2, <4>3, <4>4 DEF FolderOK
    <3>3. ASSUME NEW e \in Disks \ {d}, drives'[e].folder # NoFolder PROVE FolderOK(e)'
      <4>1. FolderOK(e) /\ drives'[e] = drives[e]
        BY <3>3, <1>4 DEF StorageInv, FoldersOK
      <4>2. \A c \in Disks \ {e} : drives'[c].folder # drives'[e].folder
        BY <3>1, <4>1, <2>14, <1>4 DEF FolderOK
      <4>3. e \in unmounted' \/ \E i \in 1..Len(mounts') : mounts'[i].folder = drives'[e].folder
        <5>1. \A i \in 1..Len(mounts) : i \in 1..Len(mounts')
          BY <2>7, <1>2
        <5> QED BY <5>1, <4>1, <2>7, <1>1 DEF FolderOK
      <4>4. ASSUME NEW i \in 1..Len(mounts'), mounts'[i].folder = drives'[e].folder
            PROVE  i \in 1..Len(mounts) /\ mounts'[i] = mounts[i] /\ mounts[i].folder = drives[e].folder
        BY <3>1, <4>1, <4>4, <2>5, <2>7, <2>11
      <4>5. SameDrive(e)' <=> SameDrive(e)
        BY <4>1, <1>1 DEF SameDrive
      <4> QED BY <4>1, <4>2, <4>3, <4>4, <4>5, <1>1 DEF FolderOK, OfEarlierCard, KeepsName
    <3> QED BY <3>2, <3>3 DEF FoldersOK
  <2>16. NoMountLeaks'
    <3> SUFFICES ASSUME NEW i \in 1..Len(mounts'), mounts'[i].ours
                 PROVE  drives'[mounts'[i].disk].folder = mounts'[i].folder
      BY DEF NoMountLeaks
    <3>1. CASE i \in 1..Len(mounts)
      <4>1. mounts[i].disk # d /\ mounts[i].disk \in Disks
        BY <3>1, <2>3, <1>2 DEF Mounted
      <4> QED BY <4>1, <3>1, <2>7, <1>4 DEF StorageInv, NoMountLeaks
    <3>2. CASE i = Len(mounts) + 1
      BY <3>2, <2>5, <2>7, <2>14
    <3> QED BY <3>1, <3>2, <2>11
  <2> QED BY <2>8, <2>9, <2>10, <2>12, <2>13, <2>15, <2>16 DEF StorageInv
<1> QED BY <1>6, <1>7

\* A drive that loses its folder keeps its handle, or is gone.
LEMMA UnmountKeeps == ASSUME StorageInv, NEW h \in 1..MaxHdc, Unmount(h) PROVE StorageInv'
<1>1. PICK d \in Disks :
        /\ drives[d].folder # NoFolder
        /\ mounts' = Umount(mounts, drives[d].folder)
        /\ drives' = [drives EXCEPT ![d].folder = NoFolder]
        /\ unmounted' = unmounted \ {d}
        /\ UNCHANGED <<disk, media, messages, lost, due, events, nextHdc, pc, told>>
  BY DEF Unmount, kernel
<1> DEFINE r == [drives[d] EXCEPT !.folder = NoFolder]
<1>2. r.folder = NoFolder /\ r.hdc = drives[d].hdc /\ r.medium = drives[d].medium /\ r \in DriveRecord
  BY DEF StorageInv, Types, DriveRecord
<1>3. drives' = [drives EXCEPT ![d] = r]
  BY <1>1 DEF StorageInv, Types
<1>4. drives[d] # NoDrive
  BY <1>1 DEF NoDrive
<1> HIDE DEF r
<1>5. mounts' \in Seq(Mounted) /\ MountsOK' /\ FoldersOK' /\ LeftOK' /\ NoMountLeaks'
  BY <1>1, <1>2, <1>3, WithoutOne
<1>6. Types'
  <2>1. drives' \in [Disks -> DriveRecord]
    BY <1>2, <1>3 DEF StorageInv, Types
  <2> QED BY <2>1, <1>1, <1>5 DEF StorageInv, Types, Mounted, DriveRecord, Handles
<1>7. NotStarted'
  BY <1>1, <1>4 DEF StorageInv, NotStarted
<1>8. DrivesOK'
  BY <1>2, <1>3, <1>4 DEF StorageInv, Types, DrivesOK, NoDrive
<1> QED BY <1>5, <1>6, <1>7, <1>8 DEF StorageInv

LEMMA GoneDriveKeeps ==
  ASSUME StorageInv, NEW d \in Disks, GoneDrive(d), drives[d] # NoDrive,
         UNCHANGED <<disk, media, lost, told>>, messages' \in Seq(Messages),
         due' \in [Disks -> {"no", "soon", "now"}], pc' = pc
  PROVE  StorageInv'
<1>1. /\ drives[d].hdc # 0 /\ NoDrive.folder = NoFolder /\ NoDrive \in DriveRecord
      /\ NoDrive.hdc = 0 /\ NoDrive.medium = 0
  BY DEF StorageInv, Types, DrivesOK, NoDrive, DriveRecord
<1>2. /\ drives' = [drives EXCEPT ![d] = NoDrive] /\ nextHdc' = nextHdc
      /\ unmounted' = unmounted \ {d}
  BY DEF GoneDrive
<1>3. mounts' \in Seq(Mounted) /\ MountsOK' /\ FoldersOK' /\ LeftOK' /\ NoMountLeaks'
  <2>1. CASE drives[d].folder # NoFolder
    BY <2>1, <1>1, <1>2, WithoutOne DEF GoneDrive
  <2>2. CASE drives[d].folder = NoFolder
    <3>1. mounts' = mounts
      BY <2>2 DEF GoneDrive
    <3>2. \A e \in Disks : drives'[e].folder = drives[e].folder
      BY <1>1, <1>2, <2>2 DEF StorageInv, Types
    <3>3. \A e \in Disks : drives'[e].folder # NoFolder => drives'[e] = drives[e]
      BY <1>1, <1>2, <2>2 DEF StorageInv, Types
    <3>4. \A i \in 1..Len(mounts) : mounts[i].disk \in Disks
      BY MountTypes DEF StorageInv, Mounted
    <3>5. mounts' \in Seq(Mounted) /\ MountsOK' /\ LeftOK' /\ NoMountLeaks'
      BY <3>1, <3>2, <3>4 DEF StorageInv, Types, MountsOK, LeftOK, KeepsName, NoMountLeaks
    <3>6. FoldersOK'
      <4> SUFFICES ASSUME NEW e \in Disks, drives'[e].folder # NoFolder PROVE FolderOK(e)'
        BY DEF FoldersOK
      <4>1. FolderOK(e) /\ drives'[e] = drives[e] /\ e # d
        BY <3>2, <3>3, <2>2 DEF StorageInv, FoldersOK
      <4> QED BY <4>1, <3>1, <3>2, <1>2 DEF FolderOK, SameDrive, OfEarlierCard, KeepsName
    <3> QED BY <3>5, <3>6
  <2> QED BY <2>1, <2>2
<1>4. events' \in Seq([hdc : Handles, on : BOOLEAN])
  <2>1. [hdc |-> drives[d].hdc, on |-> FALSE] \in [hdc : Handles, on : BOOLEAN]
    BY <1>1 DEF StorageInv, Types, DriveRecord, Handles
  <2> QED BY <2>1, AppendProperties DEF GoneDrive, StorageInv, Types
<1>5. Types'
  <2>1. drives' \in [Disks -> DriveRecord]
    BY <1>1, <1>2 DEF StorageInv, Types
  <2>2. UNCHANGED <<Mounted, DriveRecord, Handles, Messages>>
    BY <1>2 DEF Mounted, DriveRecord, Handles, Messages
  <2> QED BY <2>1, <2>2, <1>2, <1>3, <1>4 DEF StorageInv, Types
<1>6. NotStarted'
  BY DEF StorageInv, NotStarted
<1>7. DrivesOK'
  BY <1>1, <1>2 DEF StorageInv, Types, DrivesOK
<1> QED BY <1>3, <1>5, <1>6, <1>7 DEF StorageInv

LEMMA NewDriveKeeps ==
  ASSUME StorageInv, NEW d \in Disks, NewDrive(d, TRUE), drives[d] = NoDrive, Present(d),
         UNCHANGED <<disk, media, lost, told>>, messages' \in Seq(Messages),
         due' \in [Disks -> {"no", "soon", "now"}], pc' = pc, pc \notin {"none", "start"}
  PROVE  StorageInv'
<1> DEFINE r == [hdc |-> nextHdc, folder |-> NoFolder, medium |-> disk[d]]
<1>1. /\ r.hdc = nextHdc /\ r.folder = NoFolder /\ r.medium = disk[d] /\ r.medium # 0
      /\ r \in DriveRecord'
  BY DEF StorageInv, Types, Present, NewDrive, DriveRecord
<1>2. /\ drives' = [drives EXCEPT ![d] = r] /\ nextHdc' = nextHdc + 1
      /\ UNCHANGED <<mounts, unmounted>>
  BY DEF NewDrive
<1> HIDE DEF r
<1>3. nextHdc \in Nat \ {0} /\ DriveRecord \subseteq DriveRecord' /\ Handles \subseteq Handles'
  BY <1>2 DEF StorageInv, Types, DriveRecord, Handles
<1>4. events' \in Seq([hdc : Handles', on : BOOLEAN])
  <2>1. [hdc |-> nextHdc, on |-> TRUE] \in [hdc : Handles', on : BOOLEAN]
    BY <1>2, <1>3 DEF Handles
  <2>2. events \in Seq([hdc : Handles', on : BOOLEAN])
    <3>1. [hdc : Handles, on : BOOLEAN] \subseteq [hdc : Handles', on : BOOLEAN]
      BY <1>3
    <3>2. events \in Seq([hdc : Handles, on : BOOLEAN])
      BY DEF StorageInv, Types
    <3> QED BY <3>1, <3>2, SeqMonotonic
  <2> QED BY <2>1, <2>2, AppendProperties DEF NewDrive
<1>5. Types'
  <2>1. drives' \in [Disks -> DriveRecord']
    BY <1>1, <1>2, <1>3 DEF StorageInv, Types
  <2>2. UNCHANGED <<Mounted, Messages>>
    BY DEF Mounted, Messages
  <2>3. nextHdc' \in Nat \ {0} /\ told' \subseteq Handles'
    BY <1>2, <1>3 DEF StorageInv, Types
  <2> QED BY <2>1, <2>2, <2>3, <1>2, <1>4 DEF StorageInv, Types
<1>6. NotStarted'
  BY DEF NotStarted
<1>7. DrivesOK'
  <2>1. \A e \in Disks : drives[e].hdc # nextHdc /\ drives[e].hdc \in Nat
    BY <1>3 DEF StorageInv, Types, DriveRecord
  <2> QED BY <2>1, <1>1, <1>2, <1>3 DEF StorageInv, Types, DrivesOK
<1>8. \A e \in Disks : drives'[e].folder # NoFolder => drives'[e] = drives[e]
  BY <1>1, <1>2 DEF StorageInv, Types
<1>9. \A e \in Disks : drives'[e].folder = drives[e].folder
  BY <1>1, <1>2 DEF StorageInv, Types, NoDrive
<1>10. \A i \in 1..Len(mounts) : mounts[i].disk \in Disks
  BY MountTypes DEF StorageInv, Mounted
<1>11. MountsOK' /\ FoldersOK' /\ LeftOK' /\ NoMountLeaks'
  <2>1. MountsOK' /\ LeftOK' /\ NoMountLeaks'
    BY <1>2, <1>9, <1>10 DEF StorageInv, MountsOK, LeftOK, KeepsName, NoMountLeaks
  <2>2. ASSUME NEW e \in Disks, drives'[e].folder # NoFolder PROVE FolderOK(e)'
    <3>1. FolderOK(e) /\ drives'[e] = drives[e]
      BY <2>2, <1>8, <1>9 DEF StorageInv, FoldersOK
    <3> QED BY <3>1, <1>2, <1>9 DEF FolderOK, SameDrive, OfEarlierCard, KeepsName
  <2> QED BY <2>1, <2>2 DEF FoldersOK
<1> QED BY <1>5, <1>6, <1>7, <1>11 DEF StorageInv

\* Check: a new drive, one that is gone, or nothing to do.
LEMMA CheckKeeps ==
  ASSUME StorageInv, NEW d \in Disks, Check(d), UNCHANGED <<disk, media, lost, told>>,
         messages' \in Seq(Messages), due' \in [Disks -> {"no", "soon", "now"}],
         pc' = pc, pc \notin {"none", "start"}
  PROVE  StorageInv'
<1>1. CASE Present(d) /\ drives[d] = NoDrive
  BY <1>1, NewDriveKeeps DEF Check
<1>2. CASE ~Present(d) /\ drives[d] # NoDrive
  BY <1>2, GoneDriveKeeps DEF Check
<1>3. CASE ~(Present(d) /\ drives[d] = NoDrive) /\ ~(~Present(d) /\ drives[d] # NoDrive)
  <2>1. UNCHANGED <<mounts, drives, events, nextHdc, unmounted>>
    BY <1>3 DEF Check
  <2>2. Types' /\ NotStarted'
    BY <2>1 DEF StorageInv, Types, Mounted, Messages, Handles, DriveRecord, NotStarted
  <2> QED BY <2>1, <2>2 DEF StorageInv, DrivesOK, MountsOK, FoldersOK, FolderOK, SameDrive,
            OfEarlierCard, KeepsName, LeftOK, NoMountLeaks
<1> QED BY <1>1, <1>2, <1>3

-----------------------------------------------------------------------------
\* The disks that are there are listed once each, and all of them.
LEMMA ListsAll ==
  ASSUME NEW H, H \subseteq Disks
  PROVE  /\ SetToSeq(H) \in Seq(H)
         /\ \A d \in H : \E n \in 1..Len(SetToSeq(H)) : SetToSeq(H)[n] = d
<1> DEFINE c == Cardinality(H)
           q == SetToSeq(H)
<1>1. IsFiniteSet(H)
  BY DisksAssumption, FS_Subset
<1>2. c \in Nat /\ ExistsBijection(1..c, H)
  BY <1>1, FS_CardinalityType
<1>3. \E f \in [1..c -> H] : IsInjective(f)
  BY <1>2 DEF ExistsBijection, Bijection, Injection
<1>4. q = CHOOSE f \in [1..c -> H] : IsInjective(f)
  BY DEF SetToSeq
<1>5. q \in [1..c -> H] /\ IsInjective(q)
  BY <1>3, <1>4
<1> HIDE DEF q
<1>6. q \in Seq(H) /\ Len(q) = c
  BY <1>2, <1>5
<1>7. IsFiniteSet(1..c) /\ Cardinality(1..c) = c
  BY <1>2, FS_Interval
<1>8. q \in Surjection(1..c, H)
  <2>1. q \in Injection(1..c, H)
    BY <1>5 DEF Injection
  <2> QED BY <2>1, <1>1, <1>7, FS_Injection
<1>9. \A d \in H : \E n \in 1..c : q[n] = d
  BY <1>8 DEF Surjection
<1> QED BY <1>6, <1>9 DEF q

\* Start finds mounts of no drive of this program, and lists the disks.
LEMMA StartListsKeeps == ASSUME StorageInv, StartLists PROVE StorageInv' /\ QueuedOK'
<1> DEFINE here == SetToSeq({d \in Disks : Present(d)})
           hdcs == [d \in Disks |-> CHOOSE n \in 0..Len(here) :
                      (n = 0 /\ ~Present(d)) \/ (n # 0 /\ Present(d) /\ here[n] = d)]
           r == [d \in Disks |-> [hdc |-> hdcs[d], folder |-> NoFolder, medium |-> disk[d]]]
<1>1. /\ pc = "start" /\ pc' = "check"
      /\ UnmountGone
      /\ drives' = [d \in Disks |-> IF Present(d) THEN r[d] ELSE NoDrive]
      /\ nextHdc' = 1 + Len(here)
      /\ events' = [n \in 1..Len(here) |-> [hdc |-> n, on |-> TRUE]]
      /\ UNCHANGED <<disk, media, messages, lost, due, told, unmounted>>
  BY DEF StartLists, kernel
<1>2. /\ drives = [d \in Disks |-> NoDrive] /\ told = {}
      /\ \A i \in 1..Len(mounts) : ~mounts[i].ours
  BY <1>1 DEF StorageInv, NotStarted
<1>3. \A i \in 1..Len(mounts) : mounts[i] \in Mounted /\ ~mounts[i].ours
  BY <1>2, MountTypes DEF StorageInv
<1>4. /\ here \in Seq({d \in Disks : Present(d)})
      /\ \A d \in Disks : Present(d) => \E n \in 1..Len(here) : here[n] = d
  BY ListsAll
<1>5. Len(here) \in Nat /\ \A n \in 1..Len(here) : here[n] \in {d \in Disks : Present(d)}
  BY <1>4, LenProperties, ElementOfSeq
<1> HIDE DEF here
<1>6. \A d \in Disks :
        /\ hdcs[d] \in 0..Len(here)
        /\ hdcs[d] = 0 => ~Present(d)
        /\ hdcs[d] # 0 => Present(d) /\ here[hdcs[d]] = d
  <2> SUFFICES ASSUME NEW d \in Disks
               PROVE  /\ hdcs[d] \in 0..Len(here)
                      /\ hdcs[d] = 0 => ~Present(d)
                      /\ hdcs[d] # 0 => Present(d) /\ here[hdcs[d]] = d
    OBVIOUS
  <2>1. \E n \in 0..Len(here) : (n = 0 /\ ~Present(d)) \/ (n # 0 /\ Present(d) /\ here[n] = d)
    BY <1>4, <1>5
  <2>2. hdcs[d] = CHOOSE n \in 0..Len(here) :
          (n = 0 /\ ~Present(d)) \/ (n # 0 /\ Present(d) /\ here[n] = d)
    OBVIOUS
  <2> HIDE DEF hdcs
  <2> QED BY <2>1, <2>2
<1>7. \A d \in Disks : r[d].hdc = hdcs[d] /\ r[d].folder = NoFolder /\ r[d].medium = disk[d]
  OBVIOUS
<1>8. \A d \in Disks : r[d] \in DriveRecord'
  <2> HIDE DEF hdcs
  <2> QED BY <1>1, <1>5, <1>6 DEF StorageInv, Types, DriveRecord
<1> HIDE DEF hdcs, r
<1>9. /\ drives' \in [Disks -> DriveRecord']
      /\ \A d \in Disks : drives'[d] = IF Present(d) THEN r[d] ELSE NoDrive
  <2>1. NoDrive \in DriveRecord'
    BY <1>1, <1>5 DEF NoDrive, DriveRecord, StorageInv, Types
  <2> QED BY <2>1, <1>1, <1>8
<1>10. /\ mounts' \in Seq(Mounted)
       /\ \E order \in [1..Len(mounts') -> 1..Len(mounts)] :
            /\ \A i, j \in 1..Len(mounts') : i < j => order[i] < order[j]
            /\ \A i \in 1..Len(mounts') : mounts'[i] = mounts[order[i]]
  <2>1. PICK n \in 0..Len(mounts) : \E order \in [1..n -> 1..Len(mounts)] :
          /\ \A i, j \in 1..n : i < j => order[i] < order[j]
          /\ mounts' = [i \in 1..n |-> mounts[order[i]]]
    BY <1>1 DEF UnmountGone
  <2>2. n \in Nat
    BY MountTypes DEF StorageInv
  <2>3. PICK order \in [1..n -> 1..Len(mounts)] :
          /\ \A i, j \in 1..n : i < j => order[i] < order[j]
          /\ mounts' = [i \in 1..n |-> mounts[order[i]]]
    BY <2>1
  <2>4. Len(mounts') = n /\ mounts' \in Seq(Mounted)
    BY <2>2, <2>3, <1>3
  <2> QED BY <2>3, <2>4
<1>11. events' \in Seq([hdc : Handles', on : BOOLEAN]) /\ Len(events') = Len(here)
  <2>1. \A n \in 1..Len(here) : [hdc |-> n, on |-> TRUE] \in [hdc : Handles', on : BOOLEAN]
    BY <1>1, <1>5 DEF Handles
  <2> QED BY <2>1, <1>1, <1>5
<1>12. Types'
  <2>1. Mounted' = Mounted /\ Messages' = Messages
    BY <1>1 DEF Mounted, Messages
  <2>2. mounts' \in Seq(Mounted)
    BY <1>10
  <2>3. nextHdc' \in Nat \ {0}
    BY <1>1, <1>5
  <2> QED BY <2>1, <2>2, <2>3, <1>1, <1>2, <1>9, <1>11 DEF StorageInv, Types
<1>13. NotStarted'
  BY <1>1 DEF NotStarted
<1>14. DrivesOK'
  <2>1. \A d \in Disks : Present(d) => r[d].hdc # 0 /\ r[d].medium # 0
    BY <1>6, <1>7 DEF Present
  <2>2. \A d, e \in Disks : d # e /\ Present(d) /\ Present(e) => r[d].hdc # r[e].hdc
    BY <1>6, <1>7
  <2>3. NoDrive.hdc = 0
    BY DEF NoDrive
  <2> QED BY <2>1, <2>2, <2>3, <1>9 DEF DrivesOK
<1>15. \A d \in Disks : drives'[d].folder = NoFolder
  BY <1>7, <1>9 DEF NoDrive
<1>16. PICK order \in [1..Len(mounts') -> 1..Len(mounts)] :
         /\ \A i, j \in 1..Len(mounts') : i < j => order[i] < order[j]
         /\ \A i \in 1..Len(mounts') : mounts'[i] = mounts[order[i]]
  BY <1>10
<1>17. MountsOK' /\ FoldersOK' /\ LeftOK' /\ NoMountLeaks'
  <2>0. Len(mounts) \in Nat /\ Len(mounts') \in Nat
    BY <1>10, MountTypes, LenProperties DEF StorageInv
  <2>1. MountsOK'
    <3>1. \A i, j \in 1..Len(mounts') : i # j => order[i] # order[j]
      BY <2>0, <1>16
    <3>2. \A i \in 1..Len(mounts') : order[i] \in 1..Len(mounts) /\ mounts'[i] = mounts[order[i]]
      BY <1>16
    <3> QED BY <3>1, <3>2 DEF StorageInv, MountsOK
  <2>2. FoldersOK'
    BY <1>15 DEF FoldersOK
  <2>3. LeftOK' /\ NoMountLeaks'
    BY <1>1, <1>3, <1>16 DEF StorageInv, LeftOK, KeepsName, NoMountLeaks
  <2> QED BY <2>1, <2>2, <2>3
<1>18. QueuedOK'
  <2>1. \A n \in 1..Len(here) : Given(n)'
    <3> SUFFICES ASSUME NEW n \in 1..Len(here)
                 PROVE  \E d \in Disks : drives'[d].hdc = n
      BY DEF Given
    <3>1. PICK d \in Disks : d = here[n] /\ Present(d)
      BY <1>5
    <3>2. hdcs[d] \in 1..Len(here) /\ here[hdcs[d]] = d
      BY <3>1, <1>5, <1>6
    <3>3. IsInjective(here)
      <4>1. IsFiniteSet({e \in Disks : Present(e)})
        BY DisksAssumption, FS_Subset
      <4>2. \E f \in [1..Cardinality({e \in Disks : Present(e)}) -> {e \in Disks : Present(e)}] :
              IsInjective(f)
        BY <4>1, FS_CardinalityType DEF ExistsBijection, Bijection, Injection
      <4> QED BY <4>2 DEF here, SetToSeq
    <3>4. hdcs[d] = n
      <4>1. DOMAIN here = 1..Len(here)
        BY <1>4, LenProperties
      <4> QED BY <4>1, <3>1, <3>2, <3>3 DEF IsInjective
    <3>5. drives'[d].hdc = hdcs[d]
      BY <3>1, <1>7, <1>9
    <3> QED BY <3>4, <3>5
  <2>2. \A n \in 1..Len(here) : events'[n].hdc = n /\ events'[n].on
    BY <1>1
  <2>3. Handles' = 1..Len(here)
    BY <1>1, <1>5 DEF Handles
  <2> QED BY <2>1, <2>2, <2>3, <1>11 DEF QueuedOK
<1> QED BY <1>12, <1>13, <1>14, <1>17, <1>18 DEF StorageInv

-----------------------------------------------------------------------------
LEMMA InitInv == Init => StorageInv /\ QueuedOK
<1> SUFFICES ASSUME Init PROVE StorageInv /\ QueuedOK
  OBVIOUS
<1>1. /\ media \in 0..MaxMedia /\ media \in Nat /\ mounts \in [1..media -> LeftMount(media)]
      /\ \A i \in 1..media :
           /\ mounts[i].medium = i
           /\ mounts[i].folder = SdFolder <=> mounts[i].disk \in SdDisks
           /\ \A j \in 1..(i - 1) :
                mounts[j].folder # mounts[i].folder /\ mounts[j].disk # mounts[i].disk
  BY BoundsAssumption DEF Init
<1>2. /\ Len(mounts) = media /\ mounts \in Seq(Mounted)
      /\ \A i \in 1..Len(mounts) : mounts[i] \in Mounted /\ ~mounts[i].ours
  <2>1. \A i \in 1..media : mounts[i] \in LeftMount(media)
    BY <1>1
  <2>2. LeftMount(media) \subseteq Mounted
    BY BoundsAssumption DEF LeftMount, Mounted, Folders
  <2>3. Len(mounts) = media /\ mounts \in Seq(Mounted)
    BY <1>1, <2>2
  <2>4. \A i \in 1..media : ~mounts[i].ours
    BY <2>1 DEF LeftMount
  <2> QED BY <2>1, <2>2, <2>3, <2>4
<1>3. disk \in [Disks -> 0..media] /\ \A d \in Disks : disk[d] # 0 => mounts[disk[d]].disk = d
  BY DEF Init
<1>4. /\ messages = <<>> /\ drives = [d \in Disks |-> NoDrive]
      /\ due = [d \in Disks |-> "no"] /\ events = <<>> /\ nextHdc = 1
      /\ pc = "none" /\ told = {} /\ lost = 0 /\ unmounted = {}
  BY DEF Init
<1>5. NoDrive \in DriveRecord /\ NoDrive.hdc = 0 /\ NoDrive.folder = NoFolder
  BY <1>2, <1>4 DEF NoDrive, DriveRecord
<1>6. Types
  <2>1. drives \in [Disks -> DriveRecord] /\ due \in [Disks -> {"no", "soon", "now"}]
    BY <1>4, <1>5
  <2>2. /\ messages \in Seq(Messages) /\ events \in Seq([hdc : Handles, on : BOOLEAN])
        /\ told \subseteq Handles /\ unmounted \subseteq Disks /\ lost \in 0..MaxLost
        /\ nextHdc \in Nat \ {0}
    BY <1>4, BoundsAssumption
  <2> QED BY <2>1, <2>2, <1>1, <1>2, <1>3, <1>4 DEF Types
<1>7. NotStarted /\ DrivesOK /\ FoldersOK
  BY <1>2, <1>4, <1>5 DEF NotStarted, DrivesOK, FoldersOK
<1>8. MountsOK /\ LeftOK /\ NoMountLeaks
  <2>1. MountsOK
    BY <1>1, <1>2 DEF MountsOK
  <2>2. ASSUME NEW i \in 1..Len(mounts) PROVE disk[mounts[i].disk] \in {0, mounts[i].medium}
    <3>1. mounts[i].disk \in Disks /\ i \in 1..media
      BY <1>2 DEF Mounted
    <3>2. CASE disk[mounts[i].disk] # 0
      <4>1. disk[mounts[i].disk] \in 1..media /\ mounts[disk[mounts[i].disk]].disk = mounts[i].disk
        BY <3>1, <3>2, <1>1, <1>3
      <4> QED BY <4>1, <3>1, <2>1, <1>1, <1>2 DEF MountsOK
    <3> QED BY <3>2
  <2> QED BY <2>1, <2>2, <1>2 DEF LeftOK, NoMountLeaks
<1>9. QueuedOK
  BY <1>4 DEF QueuedOK, Handles
<1> QED BY <1>6, <1>7, <1>8, <1>9 DEF StorageInv

\* The kernel's steps: a new medium has a number that no mount and no drive has.
LEMMA InsertKeeps == ASSUME StorageInv, NEW d \in Disks, Insert(d) PROVE StorageInv'
<1>1. /\ disk[d] = 0 /\ media' = media + 1 /\ media < MaxMedia
      /\ KeepsName(d) \/ \A i \in 1..Len(mounts) : mounts[i].disk # d
      /\ disk' = [disk EXCEPT ![d] = media + 1]
      /\ UNCHANGED <<mounts, drives, due, events, nextHdc, pc, told, unmounted>>
  BY DEF Insert, Present
<1>2. /\ media \in Nat /\ MaxMedia \in Nat
      /\ Mounted \subseteq Mounted' /\ DriveRecord \subseteq DriveRecord'
  BY <1>1, BoundsAssumption DEF StorageInv, Types, Mounted, DriveRecord
<1>3. messages' \in Seq(Messages) /\ lost' \in 0..MaxLost
  <2>1. [action |-> IF d \in Readers THEN "change" ELSE "add", disk |-> d] \in Messages
    BY DEF Messages
  <2>2. lost \in 0..MaxLost /\ MaxLost \in Nat /\ messages \in Seq(Messages)
    BY BoundsAssumption DEF StorageInv, Types
  <2> QED BY <2>1, <2>2, AppendProperties DEF Insert, Sends
<1>4. Types'
  <2>1. mounts' \in Seq(Mounted')
    BY <1>1, <1>2, SeqMonotonic DEF StorageInv, Types
  <2>2. media' \in 0..MaxMedia /\ disk' \in [Disks -> 0..media']
    BY <1>1, <1>2 DEF StorageInv, Types
  <2>3. drives' \in [Disks -> DriveRecord']
    BY <1>1, <1>2 DEF StorageInv, Types
  <2>4. Handles' = Handles /\ Messages' = Messages
    BY <1>1 DEF Handles, Messages
  <2> QED BY <2>1, <2>2, <2>3, <2>4, <1>1, <1>3 DEF StorageInv, Types
<1>5. NotStarted' /\ DrivesOK' /\ MountsOK' /\ NoMountLeaks'
  BY <1>1 DEF StorageInv, NotStarted, DrivesOK, MountsOK, NoMountLeaks
<1>6. FoldersOK'
  <2>1. \A e \in Disks : drives[e].medium \in 0..media
    BY DEF StorageInv, Types, DriveRecord
  <2>2. ~SameDrive(d)'
    BY <2>1, <1>1, <1>2 DEF SameDrive, StorageInv, Types
  <2>3. \A e \in Disks : e # d => disk'[e] = disk[e]
    BY <1>1 DEF StorageInv, Types
  <2>4. ASSUME NEW e \in Disks, drives[e].folder # NoFolder PROVE FolderOK(e)'
    <3>1. FolderOK(e)
      BY <2>4 DEF StorageInv, FoldersOK
    <3>2. CASE e = d
      BY <3>1, <3>2, <2>2, <1>1 DEF FolderOK
    <3>3. CASE e # d
      BY <3>1, <3>3, <2>3, <1>1 DEF FolderOK, SameDrive, OfEarlierCard, KeepsName
    <3> QED BY <3>2, <3>3
  <2> QED BY <2>4, <1>1 DEF FoldersOK
<1>7. LeftOK'
  <2> SUFFICES ASSUME NEW i \in 1..Len(mounts), ~mounts[i].ours, ~KeepsName(mounts[i].disk)
               PROVE  disk'[mounts[i].disk] \in {0, mounts[i].medium}
    BY <1>1 DEF LeftOK, KeepsName
  <2>1. mounts[i].disk # d /\ mounts[i].disk \in Disks
    BY <1>1, MountTypes DEF StorageInv, Mounted
  <2> QED BY <2>1, <1>1 DEF StorageInv, Types, LeftOK
<1> QED BY <1>4, <1>5, <1>6, <1>7 DEF StorageInv

LEMMA PullOutKeeps == ASSUME StorageInv, NEW d \in Disks, PullOut(d) PROVE StorageInv'
<1>1. /\ disk[d] # 0 /\ disk' = [disk EXCEPT ![d] = 0]
      /\ UNCHANGED <<media, mounts, drives, due, events, nextHdc, pc, told, unmounted>>
  BY DEF PullOut, Present
<1>2. messages' \in Seq(Messages) /\ lost' \in 0..MaxLost
  <2>1. [action |-> IF d \in Readers THEN "change" ELSE "remove", disk |-> d] \in Messages
    BY DEF Messages
  <2>2. lost \in 0..MaxLost /\ MaxLost \in Nat /\ messages \in Seq(Messages)
    BY BoundsAssumption DEF StorageInv, Types
  <2> QED BY <2>1, <2>2, AppendProperties DEF PullOut, Sends
<1>3. Types'
  <2>1. disk' \in [Disks -> 0..media]
    BY <1>1 DEF StorageInv, Types
  <2>2. UNCHANGED <<Mounted, DriveRecord, Handles, Messages>>
    BY <1>1 DEF Mounted, DriveRecord, Handles, Messages
  <2> QED BY <2>1, <2>2, <1>1, <1>2 DEF StorageInv, Types
<1>4. NotStarted' /\ DrivesOK' /\ MountsOK' /\ NoMountLeaks'
  BY <1>1 DEF StorageInv, NotStarted, DrivesOK, MountsOK, NoMountLeaks
<1>5. \A e \in Disks : SameDrive(e)' => SameDrive(e) /\ disk'[e] = disk[e]
  BY <1>1 DEF StorageInv, Types, DrivesOK, SameDrive
<1>6. FoldersOK'
  <2> SUFFICES ASSUME NEW e \in Disks, drives[e].folder # NoFolder PROVE FolderOK(e)'
    BY <1>1 DEF FoldersOK
  <2>1. FolderOK(e)
    BY DEF StorageInv, FoldersOK
  <2> QED BY <2>1, <1>1, <1>5 DEF FolderOK, OfEarlierCard, KeepsName
<1>7. LeftOK'
  <2>1. \A i \in 1..Len(mounts) : mounts[i].disk \in Disks
    BY MountTypes DEF StorageInv, Mounted
  <2>2. \A e \in Disks : disk'[e] \in {0, disk[e]}
    BY <1>1 DEF StorageInv, Types
  <2> QED BY <2>1, <2>2, <1>1 DEF StorageInv, LeftOK, KeepsName
<1> QED BY <1>3, <1>4, <1>6, <1>7 DEF StorageInv

\* A step of the watcher's that leaves drives and mounts alone.
LEMMA AsideKeeps ==
  ASSUME StorageInv, UNCHANGED <<disk, media, lost, mounts, drives, nextHdc, unmounted>>,
         messages' \in Seq(Messages), due' \in [Disks -> {"no", "soon", "now"}],
         events' \in Seq([hdc : Handles, on : BOOLEAN]), told' \subseteq Handles,
         pc' \in {"none", "start", "check", "deliver", "receive"},
         pc' \in {"none", "start"} => pc \in {"none", "start"} /\ UNCHANGED <<events, told>>
  PROVE  StorageInv'
<1>1. UNCHANGED <<Mounted, DriveRecord, Handles, Messages>>
  BY DEF Mounted, DriveRecord, Handles, Messages
<1>2. Types' /\ NotStarted'
  BY <1>1 DEF StorageInv, Types, NotStarted
<1> QED BY <1>2 DEF StorageInv, DrivesOK, MountsOK, FoldersOK, FolderOK, SameDrive, OfEarlierCard,
          KeepsName, LeftOK, NoMountLeaks

LEMMA NextInv == StorageInv /\ [Next]_vars => StorageInv'
<1> SUFFICES ASSUME StorageInv, [Next]_vars PROVE StorageInv'
  OBVIOUS
<1>0. /\ messages \in Seq(Messages) /\ due \in [Disks -> {"no", "soon", "now"}]
      /\ events \in Seq([hdc : Handles, on : BOOLEAN]) /\ told \subseteq Handles
      /\ pc \in {"none", "start", "check", "deliver", "receive"}
  BY DEF StorageInv, Types
<1>1. CASE StartBinds
  BY <1>0, <1>1, AsideKeeps DEF StartBinds, kernel
<1>2. CASE StartLists
  BY <1>2, StartListsKeeps
<1>3. ASSUME NEW h \in 1..MaxHdc, Mount(h) \/ Unmount(h) PROVE StorageInv'
  BY <1>3, MountKeeps, UnmountKeeps
<1>4. ASSUME NEW d \in Disks, CheckDue(d) PROVE StorageInv'
  BY <1>0, <1>4, CheckKeeps DEF CheckDue, kernel
<1>5. CASE CheckEnds
  BY <1>0, <1>5, AsideKeeps DEF CheckEnds, kernel
<1>6. CASE Delivers
  <2>1. Head(events) \in [hdc : Handles, on : BOOLEAN] /\ Tail(events) \in Seq([hdc : Handles, on : BOOLEAN])
    BY <1>0, <1>6, HeadTailProperties DEF Delivers
  <2> QED BY <2>1, <1>0, <1>6, AsideKeeps DEF Delivers, kernel
<1>7. CASE Polls
  BY <1>0, <1>7, AsideKeeps DEF Polls, kernel
<1>8. CASE Receives
  <2>0. messages # <<>> /\ messages' = Tail(messages)
    BY <1>8 DEF Receives
  <2>1. Head(messages) \in Messages /\ messages' \in Seq(Messages) /\ Head(messages).disk \in Disks
    <3>1. Head(messages) \in Messages /\ Tail(messages) \in Seq(Messages)
      BY <1>0, <2>0, HeadTailProperties
    <3> QED BY <2>0, <3>1 DEF Messages
  <2>2. due' \in [Disks -> {"no", "soon", "now"}]
    BY <2>1, <1>0, <1>8 DEF Receives
  <2>3. CASE Head(messages).action = "remove"
    BY <2>1, <2>2, <2>3, <1>8, CheckKeeps DEF Receives
  <2>4. CASE Head(messages).action # "remove"
    BY <2>1, <2>2, <2>4, <1>0, <1>8, AsideKeeps DEF Receives
  <2> QED BY <2>3, <2>4
<1>9. CASE ReceiveEnds
  BY <1>0, <1>9, AsideKeeps DEF ReceiveEnds, kernel
<1>10. ASSUME NEW d \in Disks, SettlePasses(d) PROVE StorageInv'
  BY <1>0, <1>10, AsideKeeps DEF SettlePasses, kernel
<1>11. ASSUME NEW d \in Disks, Insert(d) \/ PullOut(d) PROVE StorageInv'
  BY <1>11, InsertKeeps, PullOutKeeps
<1>13. ASSUME NEW i \in 1..Len(mounts), OthersUnmount(i) PROVE StorageInv'
  BY <1>13, OthersUnmountKeeps
<1>12. CASE UNCHANGED vars
  BY <1>0, <1>12, AsideKeeps DEF vars, kernel
<1> QED BY <1>1, <1>2, <1>3, <1>4, <1>5, <1>6, <1>7, <1>8, <1>9, <1>10, <1>11, <1>12, <1>13
        DEF Next, WatcherNext

-----------------------------------------------------------------------------
\* An event at the end of the queue says how its handle is now given; no other
\* handle is given or taken back.
LEMMA AppendQueued ==
  ASSUME QueuedOK, events \in Seq([hdc : Handles, on : BOOLEAN]), told' = told, Handles \subseteq Handles',
         NEW e \in [hdc : Handles', on : BOOLEAN], events' = Append(events, e),
         e.on <=> \E d \in Disks : drives'[d].hdc = e.hdc,
         \A h \in Handles' : h # e.hdc =>
           h \in Handles /\ ((\E d \in Disks : drives'[d].hdc = h) <=> Given(h))
  PROVE  QueuedOK'
<1> DEFINE GivenNow(h) == \E d \in Disks : drives'[d].hdc = h
<1>0. /\ e.on <=> GivenNow(e.hdc)
      /\ \A h \in Handles' : h # e.hdc => h \in Handles /\ (GivenNow(h) <=> Given(h))
  OBVIOUS
<1> HIDE DEF GivenNow
<1>1. /\ Len(events) \in Nat /\ Len(events') = Len(events) + 1
      /\ \A i \in 1..Len(events) : events'[i] = events[i] /\ events[i] \in [hdc : Handles, on : BOOLEAN]
      /\ events'[Len(events) + 1] = e
  <2> DEFINE S == [hdc : Handles, on : BOOLEAN]
             T == [hdc : Handles', on : BOOLEAN]
  <2>1. S \subseteq T /\ events \in Seq(S) /\ e \in T
    OBVIOUS
  <2> HIDE DEF S, T
  <2>2. Len(events) \in Nat /\ \A i \in 1..Len(events) : events[i] \in S
    BY <2>1, LenProperties, ElementOfSeq
  <2>3. events \in Seq(T)
    BY <2>1, SeqMonotonic
  <2>4. /\ Len(Append(events, e)) = Len(events) + 1
        /\ \A i \in 1..Len(events) : Append(events, e)[i] = events[i]
        /\ Append(events, e)[Len(events) + 1] = e
    BY <2>1, <2>3, AppendProperties
  <2> QED BY <2>2, <2>4 DEF S
<1>2. ASSUME NEW i \in 1..Len(events'), \A j \in (i + 1)..Len(events') : events'[j].hdc # events'[i].hdc
      PROVE  events'[i].on <=> GivenNow(events'[i].hdc)
  <2>1. CASE i = Len(events) + 1
    BY <2>1, <1>0, <1>1
  <2>2. CASE i # Len(events) + 1
    <3>1. i \in 1..Len(events) /\ events'[i] = events[i] /\ events[i].hdc # e.hdc /\ events[i].hdc \in Handles'
      BY <2>2, <1>1, <1>2
    <3>2. \A j \in (i + 1)..Len(events) : events[j].hdc # events[i].hdc
      BY <3>1, <1>1, <1>2
    <3>3. events[i].on <=> Given(events[i].hdc)
      BY <3>1, <3>2 DEF QueuedOK
    <3> QED BY <1>0, <3>1, <3>3
  <2> QED BY <2>1, <2>2
<1>3. ASSUME NEW h \in Handles', \A i \in 1..Len(events') : events'[i].hdc # h
      PROVE  h \in told' <=> GivenNow(h)
  <2>1. h # e.hdc /\ \A i \in 1..Len(events) : events[i].hdc # h
    BY <1>1, <1>3
  <2>2. h \in Handles /\ (h \in told <=> Given(h))
    BY <1>0, <2>1 DEF QueuedOK
  <2> QED BY <1>0, <2>1, <2>2
<1> QED BY <1>2, <1>3 DEF QueuedOK, Given, GivenNow

LEMMA NewDriveQueued ==
  ASSUME StorageInv, QueuedOK, NEW d \in Disks, NewDrive(d, TRUE), drives[d] = NoDrive, told' = told
  PROVE  QueuedOK'
<1> DEFINE e == [hdc |-> nextHdc, on |-> TRUE]
<1>1. /\ nextHdc \in Nat \ {0} /\ events \in Seq([hdc : Handles, on : BOOLEAN])
      /\ drives \in [Disks -> DriveRecord] /\ nextHdc' = nextHdc + 1
      /\ drives' = [drives EXCEPT ![d] = [hdc |-> nextHdc, folder |-> NoFolder, medium |-> disk[d]]]
      /\ events' = Append(events, e)
  BY DEF StorageInv, Types, NewDrive
<1>2. Handles' = Handles \cup {nextHdc} /\ nextHdc \notin Handles
  BY <1>1 DEF Handles
<1>3. drives[d].hdc = 0 /\ drives'[d].hdc = nextHdc /\ \A c \in Disks : c # d => drives'[c] = drives[c]
  BY <1>1 DEF NoDrive
<1>4. /\ \E c \in Disks : drives'[c].hdc = nextHdc
      /\ \A h \in Handles : (\E c \in Disks : drives'[c].hdc = h) <=> Given(h)
  <2>1. \A h \in Handles : h # 0 /\ h # nextHdc
    BY <1>1, <1>2 DEF Handles
  <2> QED BY <1>3, <2>1 DEF Given
<1>5. e \in [hdc : Handles', on : BOOLEAN] /\ e.hdc = nextHdc /\ e.on = TRUE
  BY <1>2
<1> HIDE DEF e
<1> QED BY <1>1, <1>2, <1>4, <1>5, AppendQueued

LEMMA GoneDriveQueued ==
  ASSUME StorageInv, QueuedOK, NEW d \in Disks, GoneDrive(d), drives[d] # NoDrive, told' = told
  PROVE  QueuedOK'
<1> DEFINE e == [hdc |-> drives[d].hdc, on |-> FALSE]
<1>1. /\ events \in Seq([hdc : Handles, on : BOOLEAN])
      /\ drives \in [Disks -> DriveRecord] /\ nextHdc' = nextHdc
      /\ drives' = [drives EXCEPT ![d] = NoDrive] /\ events' = Append(events, e)
  BY DEF StorageInv, Types, GoneDrive
<1>2. Handles' = Handles /\ \A h \in Handles : h # 0
  BY <1>1 DEF Handles
<1>3. /\ drives[d].hdc \in Handles /\ drives'[d].hdc = 0
      /\ \A c \in Disks : c # d => drives'[c] = drives[c] /\ drives[c].hdc # drives[d].hdc
  BY <1>1 DEF NoDrive, StorageInv, Types, DrivesOK, DriveRecord, Handles
<1>4. /\ ~\E c \in Disks : drives'[c].hdc = drives[d].hdc
      /\ \A h \in Handles : h # drives[d].hdc =>
           ((\E c \in Disks : drives'[c].hdc = h) <=> Given(h))
  BY <1>2, <1>3 DEF Given
<1>5. e \in [hdc : Handles', on : BOOLEAN] /\ e.hdc = drives[d].hdc /\ e.on = FALSE
  BY <1>2, <1>3
<1> HIDE DEF e
<1> QED BY <1>1, <1>2, <1>4, <1>5, AppendQueued

LEMMA CheckQueued ==
  ASSUME StorageInv, QueuedOK, NEW d \in Disks, Check(d), told' = told
  PROVE  QueuedOK'
<1>1. CASE Present(d) /\ drives[d] = NoDrive
  BY <1>1, NewDriveQueued DEF Check
<1>2. CASE ~Present(d) /\ drives[d] # NoDrive
  BY <1>2, GoneDriveQueued DEF Check
<1>3. CASE ~(Present(d) /\ drives[d] = NoDrive) /\ ~(~Present(d) /\ drives[d] # NoDrive)
  <2>1. UNCHANGED <<drives, events, nextHdc>>
    BY <1>3 DEF Check
  <2> QED BY <2>1 DEF QueuedOK, Handles, Given
<1> QED BY <1>1, <1>2, <1>3

\* The callback hears of the head; the others move up.
LEMMA DeliversQueued == ASSUME StorageInv, QueuedOK, Delivers PROVE QueuedOK'
<1>1. /\ events \in Seq([hdc : Handles, on : BOOLEAN]) /\ events # <<>>
      /\ told' = IF Head(events).on THEN told \cup {Head(events).hdc} ELSE told \ {Head(events).hdc}
      /\ events' = Tail(events) /\ UNCHANGED <<drives, nextHdc>> /\ told \subseteq Handles
  BY DEF StorageInv, Types, Delivers
<1>2. /\ Len(events) \in Nat /\ Len(events') = Len(events) - 1 /\ Len(events) > 0
      /\ Head(events) = events[1] /\ \A i \in 1..Len(events') : events'[i] = events[i + 1]
  BY <1>1, LenProperties, EmptySeq, HeadTailProperties
<1>3. Handles' = Handles /\ drives' = drives
  BY <1>1 DEF Handles
<1>4. ASSUME NEW i \in 1..Len(events'), \A j \in (i + 1)..Len(events') : events'[j].hdc # events'[i].hdc
      PROVE  events'[i].on <=> Given(events'[i].hdc)
  <2>1. i + 1 \in 1..Len(events) /\ events'[i] = events[i + 1]
    BY <1>2
  <2>2. ASSUME NEW j \in (i + 1 + 1)..Len(events) PROVE events[j].hdc # events[i + 1].hdc
    <3>1. j - 1 \in (i + 1)..Len(events') /\ (j - 1) + 1 = j
      BY <1>2, <2>2
    <3>2. events'[j - 1] = events[j]
      BY <1>2, <3>1
    <3> QED BY <1>4, <2>1, <3>1, <3>2
  <2> QED BY <2>1, <2>2 DEF QueuedOK
<1>5. ASSUME NEW h \in Handles, \A i \in 1..Len(events') : events'[i].hdc # h
      PROVE  h \in told' <=> Given(h)
  <2>1. ASSUME NEW j \in 2..Len(events) PROVE events[j].hdc # h
    <3>1. j - 1 \in 1..Len(events') /\ (j - 1) + 1 = j
      BY <1>2
    <3> QED BY <1>2, <1>5, <3>1
  <2>2. CASE events[1].hdc = h
    <3>1. events[1].on <=> Given(h)
      BY <1>2, <2>1, <2>2 DEF QueuedOK
    <3> QED BY <3>1, <2>2, <1>1, <1>2
  <2>3. CASE events[1].hdc # h
    <3>1. \A i \in 1..Len(events) : events[i].hdc # h
      BY <1>2, <2>1, <2>3
    <3>2. h \in told <=> Given(h)
      BY <3>1 DEF QueuedOK
    <3> QED BY <3>2, <2>3, <1>1, <1>2
  <2> QED BY <2>2, <2>3
<1> QED BY <1>3, <1>4, <1>5 DEF QueuedOK, Given

LEMMA NextQueued == StorageInv /\ QueuedOK /\ [Next]_vars => QueuedOK'
<1> SUFFICES ASSUME StorageInv, QueuedOK, [Next]_vars PROVE QueuedOK'
  OBVIOUS
<1>0. ASSUME UNCHANGED <<drives, events, nextHdc, told>> PROVE QueuedOK'
  BY <1>0 DEF QueuedOK, Handles, Given
<1>1. CASE StartLists
  BY <1>1, StartListsKeeps
<1>2. ASSUME NEW h \in 1..MaxHdc, Mount(h) \/ Unmount(h) PROVE QueuedOK'
  <2>1. UNCHANGED <<events, nextHdc, told>>
    BY <1>2 DEF Mount, Unmount
  <2>2. \A d \in Disks : drives'[d].hdc = drives[d].hdc
    <3>1. PICK e \in Disks : \E f : drives' = [drives EXCEPT ![e].folder = f]
      BY <1>2 DEF Mount, Unmount
    <3>2. drives \in [Disks -> DriveRecord]
      BY DEF StorageInv, Types
    <3> QED BY <3>1, <3>2 DEF DriveRecord
  <2> QED BY <2>1, <2>2 DEF QueuedOK, Handles, Given
<1>3. ASSUME NEW d \in Disks, CheckDue(d) PROVE QueuedOK'
  BY <1>3, CheckQueued DEF CheckDue
<1>4. CASE Delivers
  BY <1>4, DeliversQueued
<1>5. CASE Receives
  <2>0. messages # <<>> /\ messages \in Seq(Messages) /\ told' = told
    BY <1>5 DEF Receives, StorageInv, Types
  <2>1. Head(messages) \in Messages
    BY <2>0, HeadTailProperties
  <2>2. Head(messages).disk \in Disks
    BY <2>1 DEF Messages
  <2>3. CASE Head(messages).action = "remove"
    BY <1>5, <2>0, <2>2, <2>3, CheckQueued DEF Receives
  <2>4. CASE Head(messages).action # "remove"
    BY <1>5, <2>4, <1>0 DEF Receives
  <2> QED BY <2>3, <2>4
<1>6. CASE StartBinds \/ CheckEnds \/ Polls \/ ReceiveEnds
  BY <1>6, <1>0 DEF StartBinds, CheckEnds, Polls, ReceiveEnds
<1>7. ASSUME NEW d \in Disks, SettlePasses(d) \/ Insert(d) \/ PullOut(d) PROVE QueuedOK'
  BY <1>7, <1>0 DEF SettlePasses, Insert, PullOut
<1>9. ASSUME NEW i \in 1..Len(mounts), OthersUnmount(i) PROVE QueuedOK'
  BY <1>9, <1>0 DEF OthersUnmount
<1>8. CASE UNCHANGED vars
  BY <1>8, <1>0 DEF vars
<1> QED BY <1>1, <1>2, <1>3, <1>4, <1>5, <1>6, <1>7, <1>8, <1>9 DEF Next, WatcherNext

-----------------------------------------------------------------------------
LEMMA InvMeans ==
  StorageInv /\ QueuedOK =>
    /\ TypeOK /\ FolderIsTheDrives /\ NoMountLeaks
    /\ events = <<>> => told = {drives[d].hdc : d \in Disks} \ {0}
<1> SUFFICES ASSUME StorageInv, QueuedOK
             PROVE  /\ TypeOK /\ FolderIsTheDrives /\ NoMountLeaks
                    /\ events = <<>> => told = {drives[d].hdc : d \in Disks} \ {0}
  OBVIOUS
<1>1. TypeOK
  <2>1. \A i \in 1..Len(mounts) : mounts[i] \in Mounted
    BY MountTypes DEF StorageInv
  <2> QED BY <2>1 DEF StorageInv, Types, TypeOK, Mounted, DriveRecord, Handles
<1>2. FolderIsTheDrives
  BY DEF StorageInv, FoldersOK, FolderOK, FolderIsTheDrives
<1>3. ASSUME events = <<>> PROVE told = {drives[d].hdc : d \in Disks} \ {0}
  <2>1. Len(events) = 0
    BY <1>3
  <2>2. told \subseteq Handles /\ drives \in [Disks -> DriveRecord] /\ nextHdc \in Nat
    BY DEF StorageInv, Types
  <2>3. \A h \in Handles : h \in told <=> Given(h)
    BY <2>1 DEF QueuedOK
  <2>4. \A d \in Disks : drives[d].hdc \in Handles \cup {0}
    BY <2>2 DEF DriveRecord, Handles
  <2>5. 0 \notin Handles
    BY DEF Handles
  <2> QED BY <2>2, <2>3, <2>4, <2>5 DEF Given
<1> QED BY <1>1, <1>2, <1>3 DEF StorageInv

LEMMA Invariant == Spec => [](StorageInv /\ QueuedOK)
BY InitInv, NextInv, NextQueued, PTL DEF Spec

\* Storage.cpp's tables, its queue of events and the kernel's keep their types,
\* whichever disks come and go and whatever an earlier program left mounted.
THEOREM TypeCorrect == Spec => []TypeOK
BY Invariant, InvMeans, PTL

\* Whoever opens a drive's folder gets that drive or, if another program
\* unmounted it, nothing (Storage.cpp:380 to 404, 473), for any number of disks,
\* media and mounts that earlier programs left; an earlier card's mount on a disk
\* that keeps its name is the one that may show a medium that is gone.
THEOREM FolderShowsDrive == Spec => []FolderIsTheDrives
BY Invariant, InvMeans, PTL

\* What the library mounts is always a drive's to unmount (Storage.h:11), also
\* after the disk is gone, swapped or unmounted by the program.
THEOREM NoMountForgotten == Spec => []NoMountLeaks
BY Invariant, InvMeans, PTL

\* Once no event is waiting the controller was told of the drives that the
\* watcher knows and of no other: no add or remove is lost or out of order in
\* the queue (Storage.cpp:523, 549), however long the callbacks take.
ToldWhenQuiet == events = <<>> => told = {drives[d].hdc : d \in Disks} \ {0}

THEOREM ToldOfEveryDrive == Spec => []ToldWhenQuiet
BY Invariant, InvMeans, PTL DEF ToldWhenQuiet

=============================================================================

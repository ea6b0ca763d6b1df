-------------------------- MODULE DiskDriverProofs --------------------------
(***************************************************************************)
(* Proofs about DiskDriver, for any number of drives, disk images, sizes   *)
(* and requests.                                                           *)
(***************************************************************************)
EXTENDS DiskDriver, TLAPS

USE UnitsAssumption, SizeAssumption, BoundsAssumption, NoDiskAssumption DEF FN_MAX_DEV

\* A request carries what Request says, and a number of its own.
LEMMA RequestMade ==
  ASSUME NEW kind, NEW u, NEW s, NEW c, Interrupt(Request(kind, u, s, c))
  PROVE  /\ req' = [kind |-> kind, unit |-> u, start |-> s, count |-> c, n |-> req.n + 1]
         /\ pc = "idle" /\ req.n < MaxReqs /\ idx' = 0 /\ buf' = <<>>
  BY DEF Interrupt, Request

LEMMA RequestTyped ==
  ASSUME TypeOK, NEW kind \in Kinds, NEW u \in 0..FN_MAX_DEV, NEW s \in Nat,
         NEW c \in Nat, Interrupt(Request(kind, u, s, c))
  PROVE  req' \in Requests /\ idx' \in 0..req'.count /\ buf' \in Seq(Tag)
<1>1. req.n + 1 \in 0..MaxReqs
  BY RequestMade DEF TypeOK, Requests
<1>2. req' \in Requests /\ req'.count = c
  BY <1>1, RequestMade DEF Requests
<1>3. idx' \in 0..req'.count
  BY <1>2, RequestMade
<1>4. buf' \in Seq(Tag)
  <2>1. buf' = <<>>
    BY RequestMade
  <2>2. QED
    BY <2>1
<1>5. QED
  BY <1>2, <1>3, <1>4

LEMMA DoneTyped ==
  ASSUME NEW status \in Statuses, NEW info \in -1..1, NEW count \in Nat,
         Done(status, info, count)
  PROVE  pc' = "idle" /\ reply' \in Replies
  BY DEF Done, Replies

LEMMA StatusTyped ==
  ASSUME NEW code \in Codes
  PROVE  Fail(code) \in Statuses /\ OK \in Statuses
  BY DEF Fail, OK, Codes, Statuses

\* Start sectors are natural numbers.
LEMMA StartsTyped == Starts \subseteq Nat
  BY DEF Starts

\* How a transfer ends is a reply.
LEMMA EndTyped ==
  ASSUME TypeOK, EndTransfer
  PROVE  pc' = "idle" /\ reply' \in Replies
<1>1. req.count \in Nat /\ idx \in Nat
  BY DEF TypeOK, Requests
<1>2. Fail("GENERAL_FAIL") \in Statuses /\ OK \in Statuses
  BY StatusTyped DEF Codes
<1>3. CASE idx = 0
  BY <1>1, <1>2, <1>3, DoneTyped DEF EndTransfer
<1>4. CASE idx # 0
  BY <1>1, <1>2, <1>4, DoneTyped DEF EndTransfer
<1>5. QED
  BY <1>3, <1>4

\* The data a request carries are tagged with its number.
LEMMA DataTyped == ASSUME TypeOK PROVE Data(req.n, idx) \in Tag
  BY DEF TypeOK, Requests, Tag, Data

\* The start of a transfer and its length are numbers, so the sector it has come
\* to is one.
LEMMA SectorTyped == ASSUME TypeOK PROVE Sector \in Nat /\ idx \in Nat /\ req.count \in Nat
  BY DEF TypeOK, Requests, Sector

LEMMA InitTyped == Init => TypeOK
<1>1. SUFFICES ASSUME Init PROVE TypeOK
  OBVIOUS
<1>2. mounted \in [Units -> [disk : Disks \cup {"none"},
                             mode : {"none", "SLOT_READONLY", "SLOT_READWRITE"},
                             time : 0..MaxMounts]]
  BY <1>1 DEF Init, Empty
<1>3. DOMAIN store = Disks /\ \A d \in Disks : store[d] \in [0..Size[d] - 1 -> Tag]
  BY <1>1 DEF Init, Tag
<1>4. req \in Requests
  BY <1>1 DEF Init, NoReq, Requests, Kinds
<1>5. reply \in Replies
  BY <1>1, StatusTyped DEF Init, Replies, Codes
<1>6. buf \in Seq(Tag)
  BY <1>1 DEF Init
<1>7. QED
  BY <1>1, <1>2, <1>3, <1>4, <1>5, <1>6 DEF Init, TypeOK, NoReq

\* Every operation keeps the types.
LEMMA MountTyped ==
  ASSUME TypeOK, NEW u \in Units, NEW d \in Disks,
         NEW m \in {"SLOT_READONLY", "SLOT_READWRITE"}, Mount(u, d, m)
  PROVE  TypeOK'
<1>1. clock' \in 0..MaxMounts
  BY DEF Mount, TypeOK
<1>2. [disk |-> d, mode |-> m, time |-> clock']
        \in [disk : Disks \cup {"none"},
             mode : {"none", "SLOT_READONLY", "SLOT_READWRITE"}, time : 0..MaxMounts]
  BY <1>1
<1>3. mounted' \in [Units -> [disk : Disks \cup {"none"},
                              mode : {"none", "SLOT_READONLY", "SLOT_READWRITE"},
                              time : 0..MaxMounts]]
  BY <1>2 DEF Mount, TypeOK
<1>4. QED
  BY <1>1, <1>3 DEF Mount, TypeOK, tables

LEMMA EjectTyped == ASSUME TypeOK, NEW u \in Units, Eject(u) PROVE TypeOK'
<1>1. clock' \in 0..MaxMounts
  BY DEF Eject, TypeOK
<1>2. mounted' \in [Units -> [disk : Disks \cup {"none"},
                              mode : {"none", "SLOT_READONLY", "SLOT_READWRITE"},
                              time : 0..MaxMounts]]
  BY DEF Eject, TypeOK, Empty
<1>3. QED
  BY <1>1, <1>2 DEF Eject, TypeOK, tables

LEMMA BadUnitTyped ==
  ASSUME TypeOK, BadUnit(Request("media", FN_MAX_DEV, 0, 0)) PROVE TypeOK'
<1>1. "media" \in Kinds /\ 8 \in 0..FN_MAX_DEV
  BY DEF Kinds
<1>2. req' \in Requests /\ idx' \in 0..req'.count /\ buf' \in Seq(Tag)
  BY <1>1, RequestTyped DEF BadUnit
<1>3. pc' = "idle" /\ reply' \in Replies
  BY StatusTyped, DoneTyped DEF BadUnit, Codes
<1>4. QED
  BY <1>2, <1>3 DEF BadUnit, TypeOK, devVars, tables

LEMMA MediaTyped == ASSUME TypeOK, NEW u \in Units, Media_check_cmd(u) PROVE TypeOK'
<1>1. "media" \in Kinds /\ u \in 0..FN_MAX_DEV
  BY DEF Kinds
<1>2. req' \in Requests /\ idx' \in 0..req'.count /\ buf' \in Seq(Tag)
  BY <1>1, RequestTyped DEF Media_check_cmd
<1>3. QED
  BY <1>2 DEF Media_check_cmd, TypeOK, devVars, tables

LEMMA BpbTyped == ASSUME TypeOK, NEW u \in Units, Build_bpb_cmd(u) PROVE TypeOK'
<1>1. "bpb" \in Kinds /\ u \in 0..FN_MAX_DEV
  BY DEF Kinds
<1>2. req' \in Requests /\ idx' \in 0..req'.count /\ buf' \in Seq(Tag)
  BY <1>1, RequestTyped DEF Build_bpb_cmd
<1>3. pc' = "idle" /\ reply' \in Replies
  BY StatusTyped, DoneTyped DEF Build_bpb_cmd, Codes
<1>4. HasSector(u, 0) => Size[mounted[u].disk] \in Nat
  BY DEF HasSector, TypeOK
<1>5. bpb' \in [Units -> Nat]
  BY <1>4 DEF Build_bpb_cmd, TypeOK
<1>6. QED
  BY <1>2, <1>3, <1>5 DEF Build_bpb_cmd, TypeOK, devVars

LEMMA InputTyped ==
  ASSUME TypeOK, NEW u \in Units, NEW s \in Nat, NEW n \in Nat, Input_cmd(u, s, n)
  PROVE  TypeOK'
<1>1. "input" \in Kinds /\ u \in 0..FN_MAX_DEV
  BY DEF Kinds
<1>2. req' \in Requests /\ idx' \in 0..req'.count /\ buf' \in Seq(Tag)
  BY <1>1, RequestTyped DEF Input_cmd
<1>3. QED
  BY <1>2 DEF Input_cmd, TypeOK, devVars, tables

LEMMA OutputTyped ==
  ASSUME TypeOK, NEW u \in Units, NEW s \in Nat, NEW n \in Nat, Output_cmd(u, s, n)
  PROVE  TypeOK'
<1>1. "output" \in Kinds /\ u \in 0..FN_MAX_DEV
  BY DEF Kinds
<1>2. req' \in Requests /\ idx' \in 0..req'.count /\ buf' \in Seq(Tag)
  BY <1>1, RequestTyped DEF Output_cmd
<1>3. pc' \in {"idle", "output"} /\ reply' \in Replies
  BY StatusTyped, DoneTyped DEF Output_cmd, TypeOK, Codes
<1>4. QED
  BY <1>2, <1>3 DEF Output_cmd, TypeOK, devVars, tables

LEMMA UnsupportedTyped ==
  ASSUME TypeOK, NEW c \in BareCode \cup Refused \cup AboveMax, Unsupported_cmd(c)
  PROVE  TypeOK'
<1>1. c \in Kinds /\ 0 \in 0..FN_MAX_DEV
  BY DEF Kinds
<1>2. req' \in Requests /\ idx' \in 0..req'.count /\ buf' \in Seq(Tag)
  BY <1>1, RequestTyped DEF Unsupported_cmd
<1>3. Unsupported(c) \in Statuses
  BY StatusTyped DEF Unsupported, Codes, Statuses
<1>4. pc' = "idle" /\ reply' \in Replies
  BY <1>3, DoneTyped DEF Unsupported_cmd
<1>5. QED
  BY <1>2, <1>4 DEF Unsupported_cmd, TypeOK, devVars, tables

\* A request for a drive is running.
Running == pc # "idle" => req.unit \in Units

LEMMA CheckFailedTyped == ASSUME CheckFailed PROVE pc' = "idle" /\ reply' \in Replies
  BY StatusTyped, DoneTyped DEF CheckFailed, Codes

LEMMA MountStatusTyped == ASSUME TypeOK, Running, ReadMountStatus PROVE TypeOK'
<1> DEFINE times == [u \in Units |-> mounted[u].time]
<1>1. times \in [Units -> 0..MaxMounts]
  BY DEF TypeOK
<1>2. mount_status' \in [Units -> 0..MaxMounts]
  BY <1>1 DEF ReadMountStatus, Failed, TypeOK
<1>3. pc' \in {"idle", "disk_slots"} /\ reply' \in Replies
  BY CheckFailedTyped DEF ReadMountStatus, TypeOK
<1>4. QED
  BY <1>2, <1>3 DEF ReadMountStatus, TypeOK, devVars

LEMMA DiskSlotsTyped == ASSUME TypeOK, Running, ReadDiskSlots PROVE TypeOK'
<1> DEFINE modes == [u \in Units |-> mounted[u].mode]
<1>1. modes \in [Units -> {"none", "SLOT_READONLY", "SLOT_READWRITE"}]
  BY DEF TypeOK
<1>2. disk_slots' \in [Units -> {"none", "SLOT_READONLY", "SLOT_READWRITE"}]
  BY <1>1 DEF ReadDiskSlots, Failed, TypeOK
<1>3. mount_status[req.unit] \in 0..MaxMounts
  BY DEF ReadDiskSlots, Running, TypeOK
<1>4. ReturnInfo(mount_status[req.unit]) \in -1..1
  BY DEF ReturnInfo
<1>5. pc' = "idle" /\ reply' \in Replies
  BY <1>4, StatusTyped, DoneTyped, CheckFailedTyped DEF ReadDiskSlots, Codes
<1>6. told' \in [Units -> 0..MaxMounts]
  BY <1>3 DEF ReadDiskSlots, TypeOK
<1>7. QED
  BY <1>2, <1>5, <1>6 DEF ReadDiskSlots, TypeOK, devVars

\* A sector that is there is on an image the device holds.
LEMMA SectorThere ==
  ASSUME TypeOK, NEW u \in Units, NEW s \in Nat, HasSector(u, s)
  PROVE  mounted[u].disk \in Disks /\ s \in 0..Size[mounted[u].disk] - 1
  BY DEF HasSector, TypeOK

LEMMA ReadTyped == ASSUME TypeOK, Running, ReadSector PROVE TypeOK'
<1>1. Sector \in Nat /\ idx \in Nat /\ req.count \in Nat
  BY SectorTyped
<1>2. req.unit \in Units /\ idx < req.count
  BY DEF ReadSector, Running, Transfer
<1>3. CASE EndTransfer /\ UNCHANGED <<idx, buf>>
  BY <1>3, EndTyped DEF ReadSector, TypeOK, devVars, tables
<1>4. ASSUME HasSector(req.unit, Sector), UNCHANGED <<pc, reply>>,
             buf' = Append(buf, store[mounted[req.unit].disk][Sector]), idx' = idx + 1
      PROVE  TypeOK'
  <2>1. store[mounted[req.unit].disk][Sector] \in Tag
    BY <1>1, <1>2, <1>4, SectorThere DEF TypeOK
  <2>2. buf' \in Seq(Tag)
    BY <2>1, <1>4 DEF TypeOK
  <2>3. idx' \in 0..req.count
    BY <1>1, <1>2, <1>4
  <2>4. QED
    BY <1>4, <2>2, <2>3 DEF ReadSector, TypeOK, devVars, tables
<1>5. QED
  BY <1>3, <1>4 DEF ReadSector

\* A write keeps the images' shapes.
LEMMA StoredTyped ==
  ASSUME TypeOK, Running, pc # "idle", HasSector(req.unit, Sector), Stored
  PROVE  DOMAIN store' = Disks /\ \A d \in Disks : store'[d] \in [0..Size[d] - 1 -> Tag]
<1>1. mounted[req.unit].disk \in Disks
        /\ Sector \in 0..Size[mounted[req.unit].disk] - 1
  BY SectorTyped, SectorThere DEF Running
<1>2. Data(req.n, idx) \in Tag
  BY DataTyped
<1>3. QED
  BY <1>1, <1>2 DEF Stored, TypeOK

LEMMA WriteTyped == ASSUME TypeOK, Running, WriteSector PROVE TypeOK'
<1>1. idx \in Nat /\ req.count \in Nat /\ idx < req.count /\ pc = "output"
  BY SectorTyped DEF WriteSector, Transfer
<1>2. DOMAIN store' = Disks /\ \A d \in Disks : store'[d] \in [0..Size[d] - 1 -> Tag]
  BY <1>1, StoredTyped DEF WriteSector, TypeOK
<1>3. CASE EndTransfer /\ UNCHANGED idx
  BY <1>2, <1>3, EndTyped DEF WriteSector, TypeOK, tables
<1>4. CASE idx' = idx + 1 /\ UNCHANGED <<pc, reply>>
  <2>1. idx' \in 0..req.count
    BY <1>1, <1>4
  <2>2. QED
    BY <1>2, <1>4, <2>1 DEF WriteSector, TypeOK, tables
<1>5. QED
  BY <1>3, <1>4 DEF WriteSector

LEMMA EndOfLoopTyped == ASSUME TypeOK, OutOfRange \/ Complete PROVE TypeOK'
<1>1. CASE OutOfRange
  <2>1. Fail("NOT_FOUND") \in Statuses /\ req.count \in Nat
    BY StatusTyped, SectorTyped DEF Codes
  <2>2. pc' = "idle" /\ reply' \in Replies
    BY <1>1, <2>1, DoneTyped DEF OutOfRange
  <2>3. QED
    BY <1>1, <2>2 DEF OutOfRange, TypeOK, devVars, tables
<1>2. CASE Complete
  BY <1>2, EndTyped DEF Complete, TypeOK, devVars, tables
<1>3. QED
  BY <1>1, <1>2

-----------------------------------------------------------------------------
(* Which request runs. *)

\* A running request is for a drive the driver has, and pc goes with its kind.
RequestInv ==
  /\ Running
  /\ req.kind \in {"input", "output"} => req.unit \in Units
  /\ pc \in {"mount_status", "disk_slots"} => req.kind = "media"
  /\ pc \in {"input", "output"} => req.kind = pc

\* A request that ends at once asked for nothing to be transferred.
LEMMA RequestStep ==
  ASSUME TypeOK, RequestInv, [Next]_vars
  PROVE  TypeOK' /\ RequestInv'
<1>1. CASE \E u \in Units, d \in Disks, m \in {"SLOT_READONLY", "SLOT_READWRITE"} :
             Mount(u, d, m)
  BY <1>1, MountTyped DEF Mount, RequestInv, Running
<1>2. ASSUME NEW u \in Units, Eject(u) PROVE TypeOK' /\ RequestInv'
  BY <1>2, EjectTyped DEF Eject, RequestInv, Running
<1>3. ASSUME NEW u \in Units, Media_check_cmd(u) PROVE TypeOK' /\ RequestInv'
  BY <1>3, MediaTyped, RequestMade DEF Media_check_cmd, RequestInv, Running
<1>4. ASSUME NEW u \in Units, Build_bpb_cmd(u) PROVE TypeOK' /\ RequestInv'
  BY <1>4, BpbTyped, RequestMade DEF Build_bpb_cmd, RequestInv, Running, Done
<1>5. ASSUME NEW u \in Units, NEW s \in Starts, NEW n \in 0..MaxCount, Input_cmd(u, s, n)
      PROVE  TypeOK' /\ RequestInv'
  BY <1>5, StartsTyped, InputTyped, RequestMade DEF Input_cmd, RequestInv, Running
<1>6. ASSUME NEW u \in Units, NEW s \in Starts, NEW n \in 0..MaxCount, Output_cmd(u, s, n)
      PROVE  TypeOK' /\ RequestInv'
  BY <1>6, StartsTyped, OutputTyped, RequestMade DEF Output_cmd, RequestInv, Running, Done
<1>7. CASE BadUnit(Request("media", FN_MAX_DEV, 0, 0))
  BY <1>7, BadUnitTyped, RequestMade DEF BadUnit, RequestInv, Running, Done
<1>8. ASSUME NEW c \in BareCode \cup Refused \cup AboveMax, Unsupported_cmd(c)
      PROVE  TypeOK' /\ RequestInv'
  <2>1. c \notin {"input", "output"}
    BY DEF BareCode, Refused, AboveMax
  <2>2. QED
    BY <1>8, <2>1, UnsupportedTyped, RequestMade
    DEF Unsupported_cmd, RequestInv, Running, Done
<1>9. CASE ReadMountStatus
  BY <1>9, MountStatusTyped DEF ReadMountStatus, RequestInv, Running, CheckFailed, Done
<1>10. CASE ReadDiskSlots
  BY <1>10, DiskSlotsTyped DEF ReadDiskSlots, RequestInv, Running, CheckFailed, Done
<1>11. CASE ReadSector
  BY <1>11, ReadTyped, EndTyped DEF ReadSector, RequestInv, Running
<1>12. CASE WriteSector
  BY <1>12, WriteTyped, EndTyped DEF WriteSector, RequestInv, Running
<1>13. CASE EndInput \/ EndOutput
  BY <1>13, EndOfLoopTyped, EndTyped
  DEF EndInput, EndOutput, OutOfRange, Complete, Done, RequestInv, Running
<1>14. CASE UNCHANGED vars
  BY <1>14 DEF vars, TypeOK, RequestInv, Running
<1>15. QED
  BY <1>1, <1>2, <1>3, <1>4, <1>5, <1>6, <1>7, <1>8, <1>9, <1>10, <1>11, <1>12, <1>13,
     <1>14
  DEF Next, Finished

\* The driver's variables keep their types: the counts stay within the request, the
\* tables within the units, and an image keeps its size whatever is written.
THEOREM TypeCorrect == Spec => [](TypeOK /\ RequestInv)
<1>1. Init => TypeOK /\ RequestInv
  BY InitTyped DEF Init, RequestInv, Running, NoReq
<1>2. TypeOK /\ RequestInv /\ [Next]_vars => (TypeOK /\ RequestInv)'
  BY RequestStep
<1>3. QED
  BY <1>1, <1>2, PTL DEF Spec

-----------------------------------------------------------------------------
(* What is written, and where. *)

\* Only a write that reaches the device touches an image.
LEMMA StoreStep ==
  ASSUME [Next]_vars
  PROVE  \/ UNCHANGED store
         \/ /\ pc = "output" /\ Transfer /\ HasSector(req.unit, Sector)
            /\ mounted[req.unit].mode = "SLOT_READWRITE" /\ Stored
<1>1. CASE WriteSector
  BY <1>1 DEF WriteSector
<1>2. CASE EndInput \/ EndOutput \/ ReadSector \/ ReadMountStatus \/ ReadDiskSlots
  BY <1>2 DEF EndInput, EndOutput, OutOfRange, Complete, ReadSector, ReadMountStatus,
              ReadDiskSlots, devVars
<1>3. CASE UNCHANGED vars
  BY <1>3 DEF vars
<1>4. QED
  BY <1>1, <1>2, <1>3
  DEF Next, Finished, Mount, Eject, Media_check_cmd, Build_bpb_cmd, Input_cmd, Output_cmd,
      BadUnit, Unsupported_cmd, devVars

\* A step of the driver changes at most the sector a running Output_cmd
\* (commands.c) has come to, on the image in the drive it was asked for, inside the
\* range it was given, and only on a disk mounted for writing.
THEOREM OnlyAskedSectorsHolds == Spec => OnlyAskedSectors
<1>1. ASSUME TypeOK, RequestInv, [Next]_vars, NEW d \in Disks, NEW s \in DOMAIN store[d],
             store'[d][s] # store[d][s]
      PROVE  /\ pc = "output" /\ d = mounted[req.unit].disk
             /\ mounted[req.unit].mode = "SLOT_READWRITE"
             /\ s \in req.start..req.start + req.count - 1
             /\ store'[d][s] = Data(req.n, s - req.start)
  <2>1. /\ pc = "output" /\ Transfer /\ mounted[req.unit].mode = "SLOT_READWRITE"
        /\ HasSector(req.unit, Sector) /\ Stored
    BY <1>1, StoreStep
  <2>2. mounted[req.unit].disk \in Disks
          /\ Sector \in 0..Size[mounted[req.unit].disk] - 1
    BY <1>1, <2>1, SectorTyped, SectorThere DEF RequestInv, Running
  <2>3. d = mounted[req.unit].disk /\ s = Sector
    BY <1>1, <2>1, <2>2 DEF Stored, TypeOK
  <2>4. req.start \in Nat /\ idx \in Nat /\ req.count \in Nat /\ idx < req.count
    BY <1>1, <2>1 DEF TypeOK, Requests, Transfer
  <2>5. s - req.start = idx /\ s \in req.start..req.start + req.count - 1
    BY <2>3, <2>4 DEF Sector
  <2>6. store'[d][s] = Data(req.n, idx)
    BY <1>1, <2>1, <2>2, <2>3 DEF Stored, TypeOK
  <2>7. QED
    BY <2>1, <2>3, <2>5, <2>6
<1>2. TypeOK /\ RequestInv /\ [Next]_vars =>
        [\A d \in Disks : \A s \in DOMAIN store[d] : store'[d][s] # store[d][s] =>
           /\ pc = "output" /\ d = mounted[req.unit].disk
           /\ mounted[req.unit].mode = "SLOT_READWRITE"
           /\ s \in req.start..req.start + req.count - 1
           /\ store'[d][s] = Data(req.n, s - req.start)]_vars
  BY <1>1
<1>3. QED
  BY <1>2, TypeCorrect, PTL DEF Spec, OnlyAskedSectors

-----------------------------------------------------------------------------
(* Mount times: a mount gets a time nobody has seen. *)

TimesInv ==
  \A u \in Units : told[u] <= clock /\ mounted[u].time <= clock /\ mount_status[u] <= clock

LEMMA TimesStep ==
  ASSUME TypeOK, RequestInv, TimesInv, [Next]_vars
  PROVE  TimesInv'
<1>a. clock \in Nat /\ \A u \in Units : /\ told[u] \in Int /\ told[u] <= clock
                                      /\ mounted[u].time \in Nat /\ mounted[u].time <= clock
                                      /\ mount_status[u] \in Nat /\ mount_status[u] <= clock
  <2>1. clock \in Nat
    BY DEF TypeOK
  <2>2. ASSUME NEW u \in Units
        PROVE  told[u] \in Int /\ mounted[u].time \in Nat /\ mount_status[u] \in Nat
    <3>1. told[u] \in 0..MaxMounts
      BY DEF TypeOK
    <3>2. mount_status[u] \in 0..MaxMounts
      BY DEF TypeOK
    <3>3. mounted[u].time \in 0..MaxMounts
      BY DEF TypeOK
    <3>4. QED
      BY <3>1, <3>2, <3>3
  <2>3. QED
    BY <2>1, <2>2 DEF TimesInv
<1>1. ASSUME NEW u \in Units, NEW d \in Disks,
             NEW m \in {"SLOT_READONLY", "SLOT_READWRITE"}, Mount(u, d, m)
      PROVE  TimesInv'
  BY <1>1 DEF Mount, TimesInv, TypeOK, tables
<1>2. ASSUME NEW u \in Units, Eject(u) PROVE TimesInv'
  <2>1. clock' = clock + 1 /\ clock \in Nat
    BY <1>2 DEF Eject, TypeOK
  <2>2. \A v \in Units : mounted'[v].time = IF v = u THEN 0 ELSE mounted[v].time
    BY <1>2 DEF Eject, TypeOK, Empty
  <2>3. UNCHANGED <<told, mount_status>>
    BY <1>2 DEF Eject, tables
  <2>4. ASSUME NEW v \in Units
        PROVE  told'[v] <= clock' /\ mounted'[v].time <= clock' /\ mount_status'[v] <= clock'
    <3>1. told'[v] <= clock' /\ mount_status'[v] <= clock'
      BY <1>a, <2>1, <2>3
    <3>2. mounted'[v].time <= clock'
      BY <1>a, <2>1, <2>2
    <3>3. QED
      BY <3>1, <3>2
  <2>5. QED
    BY <2>4 DEF TimesInv
<1>3. CASE ReadMountStatus
  <2>1. clock \in Nat /\ UNCHANGED <<clock, mounted>>
    <3>1. UNCHANGED <<clock, mounted>>
      BY <1>3 DEF ReadMountStatus, devVars
    <3>2. QED
      BY <1>a, <3>1
  <2>2. \A u \in Units : mount_status'[u] \in {mounted[u].time, mount_status[u]}
    BY <1>3 DEF ReadMountStatus, Failed, TypeOK
  <2>3. UNCHANGED told
    BY <1>3 DEF ReadMountStatus
  <2>4. ASSUME NEW v \in Units
        PROVE  told'[v] <= clock' /\ mounted'[v].time <= clock' /\ mount_status'[v] <= clock'
    <3>1. /\ told[v] \in Int /\ told[v] <= clock /\ mounted[v].time <= clock
          /\ mount_status[v] <= clock
      BY <1>a
    <3>2. clock' = clock /\ mounted'[v].time = mounted[v].time
      BY <2>1
    <3>3. told'[v] <= clock
      BY <2>1, <2>3, <3>1
    <3>4. mount_status'[v] <= clock
      BY <2>2, <3>1
    <3>5. QED
      BY <3>1, <3>2, <3>3, <3>4
  <2>5. QED
    BY <2>4 DEF TimesInv
<1>4. CASE ReadDiskSlots
  <2>1. clock \in Nat /\ UNCHANGED <<clock, mounted, mount_status>>
    <3>1. UNCHANGED <<clock, mounted, mount_status>>
      BY <1>4 DEF ReadDiskSlots, devVars
    <3>2. QED
      BY <1>a, <3>1
  <2>2. \A u \in Units : told'[u] \in {told[u], mount_status[u]}
    BY <1>4 DEF ReadDiskSlots, TypeOK, RequestInv, Running
  <2>3. ASSUME NEW v \in Units
        PROVE  told'[v] <= clock' /\ mounted'[v].time <= clock' /\ mount_status'[v] <= clock'
    <3>1. /\ told[v] \in Int /\ told[v] <= clock /\ mounted[v].time <= clock
          /\ mount_status[v] <= clock
      BY <1>a
    <3>2. /\ clock' = clock /\ mounted'[v].time = mounted[v].time
          /\ mount_status'[v] = mount_status[v]
      BY <2>1
    <3>3. told'[v] <= clock
      BY <2>1, <2>2, <3>1
    <3>4. QED
      BY <3>1, <3>2, <3>3
  <2>4. QED
    BY <2>3 DEF TimesInv
<1>5. CASE UNCHANGED <<clock, mounted, mount_status, told>>
  BY <1>5 DEF TimesInv
<1>6. QED
  BY <1>1, <1>2, <1>3, <1>4, <1>5
  DEF Next, Finished, vars, Media_check_cmd, Build_bpb_cmd, Input_cmd, Output_cmd,
      BadUnit, Unsupported_cmd, ReadSector, WriteSector, EndInput, EndOutput, OutOfRange,
      Complete, devVars, tables

\* The image in a steady drive was there before any step but a media check.
LEMMA SteadyBack ==
  ASSUME TypeOK, TimesInv, NEW u \in Units, Steady(u)', UNCHANGED told,
         \/ UNCHANGED mounted
         \/ \E v \in Units : Eject(v)
         \/ \E v \in Units, d \in Disks, m \in {"SLOT_READONLY", "SLOT_READWRITE"} :
              Mount(v, d, m)
  PROVE  Steady(u) /\ mounted'[u].disk = mounted[u].disk
<1>1. CASE UNCHANGED mounted
  BY <1>1 DEF Steady
<1>2. ASSUME NEW v \in Units, NEW d \in Disks,
             NEW m \in {"SLOT_READONLY", "SLOT_READWRITE"}, Mount(v, d, m)
      PROVE  Steady(u) /\ mounted'[u].disk = mounted[u].disk
  <2>1. mounted'[v].time = clock + 1 /\ clock \in Nat /\ told[u] <= clock /\ told[u] \in Int
    BY <1>2 DEF Mount, TypeOK, TimesInv
  <2>2. u # v
    BY <2>1 DEF Steady
  <2>3. QED
    BY <1>2, <2>2 DEF Mount, Steady, TypeOK
<1>3. ASSUME NEW v \in Units, Eject(v)
      PROVE  Steady(u) /\ mounted'[u].disk = mounted[u].disk
  BY <1>3 DEF Eject, Steady, Empty, TypeOK
<1>4. QED
  BY <1>1, <1>2, <1>3

-----------------------------------------------------------------------------
(* What a transfer has done so far. *)

\* The first k sectors of the write are on the disk in the drive.
Landed(k) ==
  Steady(req.unit) =>
    \A i \in 0..k - 1 : store[mounted[req.unit].disk][req.start + i] = Data(req.n, i)

\* The first k sectors of the range are in DOS's buffer, and inside the BPB's range.
Fetched(k) ==
  /\ Len(buf) = k
  /\ k > 0 => req.start + k <= bpb[req.unit]
  /\ Steady(req.unit) =>
       \A i \in 1..k : buf[i] = store[mounted[req.unit].disk][req.start + i - 1]

\* The loops of Output_cmd and Input_cmd, and the replies they end with.
LoopInv ==
  /\ pc = "output" => Landed(idx)
  /\ pc = "input" => Fetched(idx)
  /\ CountedSectorsAreStored /\ CountedSectorsAreRead

\* What a transfer that ends reports is what it has done.
LEMMA Ended ==
  ASSUME TypeOK, EndTransfer, UNCHANGED <<req, idx>>,
         req.kind = "output" => Landed(idx)',
         req.kind = "input" => Fetched(idx)'
  PROVE  LoopInv'
<1>1. pc' = "idle" /\ (~reply'.status.error => reply'.count = idx /\ idx \in 1..req.count)
  BY SectorTyped DEF EndTransfer, Done, Fail, OK, TypeOK
<1>2. CountedSectorsAreStored'
  BY <1>1 DEF Landed, CountedSectorsAreStored
<1>3. CountedSectorsAreRead'
  BY <1>1 DEF Fetched, CountedSectorsAreRead, TypeOK, Requests
<1>4. QED
  BY <1>1, <1>2, <1>3 DEF LoopInv

\* A step that is no transfer's keeps what the last one has done.
LEMMA LoopKept ==
  ASSUME TypeOK, RequestInv, TimesInv, LoopInv,
         UNCHANGED <<req, pc, idx, buf, reply, store, bpb, told>>,
         \/ UNCHANGED mounted
         \/ \E v \in Units : Eject(v)
         \/ \E v \in Units, d \in Disks, m \in {"SLOT_READONLY", "SLOT_READWRITE"} :
              Mount(v, d, m)
  PROVE  LoopInv'
<1>1. ASSUME req.unit \in Units, Steady(req.unit)'
      PROVE  Steady(req.unit) /\ mounted'[req.unit].disk = mounted[req.unit].disk
  <2>1. Steady(req.unit)' <=> mounted'[req.unit].disk # "none"
                                /\ told'[req.unit] = mounted'[req.unit].time
    BY DEF Steady
  <2>2. PICK u \in Units : u = req.unit
    BY <1>1
  <2>3. Steady(u)'
    BY <1>1, <2>1, <2>2 DEF Steady
  <2>4. Steady(u) /\ mounted'[u].disk = mounted[u].disk
    BY <2>3, SteadyBack
  <2>5. QED
    BY <2>2, <2>4
<1>2. pc = "output" => Landed(idx)'
  BY <1>1 DEF LoopInv, Landed, RequestInv, Running
<1>3. pc = "input" => Fetched(idx)'
  BY <1>1 DEF LoopInv, Fetched, RequestInv, Running
<1>4. CountedSectorsAreStored'
  BY <1>1 DEF LoopInv, CountedSectorsAreStored, RequestInv
<1>5. CountedSectorsAreRead'
  BY <1>1 DEF LoopInv, CountedSectorsAreRead, RequestInv
<1>6. QED
  BY <1>2, <1>3, <1>4, <1>5 DEF LoopInv

\* A request for something else than sectors has nothing to report about them.
LEMMA LoopOther ==
  ASSUME req'.kind \notin {"input", "output"}, pc' \notin {"input", "output"}
  PROVE  LoopInv'
  BY DEF LoopInv, CountedSectorsAreStored, CountedSectorsAreRead

LEMMA LoopStarts ==
  ASSUME TypeOK, NEW u \in Units, NEW s \in Nat, NEW n \in Nat,
         Input_cmd(u, s, n) \/ Output_cmd(u, s, n)
  PROVE  LoopInv'
<1>1. CASE Input_cmd(u, s, n)
  <2>1. pc' = "input" /\ req'.kind = "input" /\ idx' = 0 /\ buf' = <<>>
    BY <1>1, RequestMade DEF Input_cmd
  <2>2. QED
    BY <2>1 DEF LoopInv, Fetched, CountedSectorsAreStored, CountedSectorsAreRead
<1>2. CASE Output_cmd(u, s, n)
  <2>1. /\ req'.kind = "output" /\ idx' = 0
        /\ pc' = "output" \/ (pc' = "idle" /\ reply'.status.error)
    BY <1>2, RequestMade DEF Output_cmd, Done, Fail
  <2>2. QED
    BY <2>1 DEF LoopInv, Landed, CountedSectorsAreStored, CountedSectorsAreRead
<1>3. QED
  BY <1>1, <1>2

LEMMA LoopReads ==
  ASSUME TypeOK, RequestInv, TimesInv, LoopInv, ReadSector
  PROVE  LoopInv'
<1>1. /\ req.start \in Nat /\ idx \in Nat /\ req.count \in Nat /\ idx < req.count
      /\ req.unit \in Units /\ req.kind = "input" /\ Fetched(idx)
      /\ bpb[req.unit] \in Nat /\ req.start + idx < bpb[req.unit] /\ buf \in Seq(Tag)
      /\ UNCHANGED <<mounted, store, told, req, bpb>>
  BY DEF ReadSector, Transfer, TypeOK, Requests, RequestInv, Running, LoopInv, Sector,
         devVars, tables
<1>2. CASE EndTransfer /\ UNCHANGED <<idx, buf>>
  BY <1>1, <1>2, Ended DEF Fetched, Steady
<1>3. ASSUME HasSector(req.unit, Sector), UNCHANGED <<pc, reply>>,
             buf' = Append(buf, store[mounted[req.unit].disk][Sector]), idx' = idx + 1
      PROVE  LoopInv'
  <2>1. /\ Len(buf') = idx + 1
        /\ buf'[idx + 1] = store[mounted[req.unit].disk][req.start + idx]
        /\ \A i \in 1..idx : buf'[i] = buf[i]
    BY <1>1, <1>3 DEF Fetched, Sector
  <2>2. req.start + (idx + 1) <= bpb[req.unit]
    BY <1>1
  <2>3. Steady(req.unit) => \A i \in 1..idx + 1 :
          buf'[i] = store[mounted[req.unit].disk][req.start + i - 1]
    <3>1. SUFFICES ASSUME Steady(req.unit), NEW i \in 1..idx + 1
                   PROVE  buf'[i] = store[mounted[req.unit].disk][req.start + i - 1]
      OBVIOUS
    <3>2. CASE i \in 1..idx
      BY <1>1, <2>1, <3>1, <3>2 DEF Fetched
    <3>3. CASE i = idx + 1
      <4>1. req.start + i - 1 = req.start + idx
        BY <1>1, <3>3
      <4>2. QED
        BY <2>1, <3>3, <4>1
    <3>4. QED
      BY <1>1, <3>2, <3>3
  <2>4. Fetched(idx)'
    BY <1>1, <1>3, <2>1, <2>2, <2>3 DEF Fetched, Steady
  <2>5. pc' = "input"
    BY <1>3 DEF ReadSector
  <2>6. QED
    BY <1>1, <2>4, <2>5 DEF LoopInv, CountedSectorsAreStored, CountedSectorsAreRead
<1>4. QED
  BY <1>2, <1>3 DEF ReadSector

LEMMA LoopWrites ==
  ASSUME TypeOK, RequestInv, TimesInv, LoopInv, WriteSector
  PROVE  LoopInv'
<1>1. /\ req.start \in Nat /\ idx \in Nat /\ req.count \in Nat /\ idx < req.count
      /\ pc = "output" /\ req.unit \in Units /\ req.kind = "output" /\ Landed(idx)
      /\ UNCHANGED <<mounted, told, req, bpb, buf>>
  BY DEF WriteSector, Transfer, TypeOK, Requests, RequestInv, Running, LoopInv, Sector,
         devVars, tables
<1>2. CASE UNCHANGED <<store, idx>> /\ EndTransfer
  BY <1>1, <1>2, Ended DEF Landed, Steady
<1>3. ASSUME HasSector(req.unit, Sector), Stored, Steady(req.unit), NEW i \in 0..idx
      PROVE  store'[mounted[req.unit].disk][req.start + i] = Data(req.n, i)
  <2>1. mounted[req.unit].disk \in Disks
          /\ Sector \in 0..Size[mounted[req.unit].disk] - 1
    BY <1>1, <1>3, SectorTyped, SectorThere
  <2>2. PICK d \in Disks : d = mounted[req.unit].disk
    BY <2>1
  <2>3. Size[d] \in Nat /\ Sector \in 0..Size[d] - 1 /\ Sector = req.start + idx
    BY <2>1, <2>2 DEF Sector
  <2>4. \A s \in 0..Size[d] - 1 :
          store'[d][s] = IF s = Sector THEN Data(req.n, idx) ELSE store[d][s]
    BY <1>3, <2>2, <2>3 DEF Stored, TypeOK
  <2>5. CASE i = idx
    BY <2>2, <2>3, <2>4, <2>5
  <2>6. CASE i \in 0..idx - 1
    <3>1. req.start + i \in 0..Size[d] - 1 /\ req.start + i # Sector
      BY <1>1, <2>3, <2>6
    <3>2. store[d][req.start + i] = Data(req.n, i)
      BY <1>1, <1>3, <2>2, <2>6 DEF Landed
    <3>3. QED
      BY <2>2, <2>4, <3>1, <3>2
  <2>7. QED
    BY <1>1, <2>5, <2>6
<1>4. CASE HasSector(req.unit, Sector) /\ Stored /\ EndTransfer /\ UNCHANGED idx
  <2>1. Landed(idx)'
    BY <1>1, <1>3, <1>4 DEF Landed, Steady
  <2>2. QED
    BY <1>1, <1>4, <2>1, Ended
<1>5. CASE HasSector(req.unit, Sector) /\ Stored /\ idx' = idx + 1 /\ UNCHANGED <<pc, reply>>
  <2>1. \A i \in 0..idx' - 1 : i \in 0..idx
    BY <1>1, <1>5
  <2>2. Landed(idx)'
    BY <1>1, <1>3, <1>5, <2>1 DEF Landed, Steady
  <2>3. QED
    BY <1>1, <1>5, <2>2 DEF LoopInv, CountedSectorsAreStored, CountedSectorsAreRead
<1>6. QED
  BY <1>2, <1>4, <1>5 DEF WriteSector

LEMMA LoopStep ==
  ASSUME TypeOK, RequestInv, TimesInv, LoopInv, [Next]_vars
  PROVE  LoopInv'
<1>1. CASE \E u \in Units, d \in Disks, m \in {"SLOT_READONLY", "SLOT_READWRITE"} :
             Mount(u, d, m)
  BY <1>1, LoopKept DEF Mount, tables
<1>2. CASE \E u \in Units : Eject(u)
  BY <1>2, LoopKept DEF Eject, tables
<1>3. CASE \E u \in Units : Media_check_cmd(u) \/ Build_bpb_cmd(u)
  BY <1>3, RequestMade, LoopOther DEF Media_check_cmd, Build_bpb_cmd, Done
<1>4. CASE \E u \in Units, s \in Starts, n \in 0..MaxCount :
             Input_cmd(u, s, n) \/ Output_cmd(u, s, n)
  BY <1>4, StartsTyped, LoopStarts
<1>5. CASE BadUnit(Request("media", FN_MAX_DEV, 0, 0))
  BY <1>5, RequestMade, LoopOther DEF BadUnit, Done
<1>6. ASSUME NEW c \in BareCode \cup Refused \cup AboveMax, Unsupported_cmd(c)
      PROVE  LoopInv'
  <2>1. c \notin {"input", "output"}
    BY DEF BareCode, Refused, AboveMax
  <2>2. QED
    BY <1>6, <2>1, RequestMade, LoopOther DEF Unsupported_cmd, Done
<1>7. CASE ReadMountStatus \/ ReadDiskSlots
  <2>1. req'.kind = "media" /\ pc' \in {"idle", "disk_slots"}
    BY <1>7 DEF ReadMountStatus, ReadDiskSlots, CheckFailed, Done, RequestInv
  <2>2. QED
    BY <2>1, LoopOther
<1>8. CASE ReadSector
  BY <1>8, LoopReads
<1>9. CASE WriteSector
  BY <1>9, LoopWrites
<1>10. ASSUME EndInput \/ EndOutput, OutOfRange PROVE LoopInv'
  <2>1. pc' = "idle" /\ reply'.status.error
    BY <1>10 DEF OutOfRange, Done, Fail
  <2>2. QED
    BY <2>1 DEF LoopInv, CountedSectorsAreStored, CountedSectorsAreRead
<1>11. ASSUME EndInput \/ EndOutput, Complete PROVE LoopInv'
  <2>1. EndTransfer /\ UNCHANGED <<mounted, store, bpb, told, req, idx, buf>>
          /\ pc = req.kind
    BY <1>11 DEF EndInput, EndOutput, OutOfRange, Complete, RequestInv, devVars, tables
  <2>2. (pc = "output" => Landed(idx)') /\ (pc = "input" => Fetched(idx)')
    BY <2>1 DEF LoopInv, Landed, Fetched, Steady
  <2>3. QED
    BY <2>1, <2>2, Ended
<1>12. CASE UNCHANGED vars
  BY <1>12, LoopKept DEF vars
<1>13. QED
  BY <1>1, <1>2, <1>3, <1>4, <1>5, <1>6, <1>7, <1>8, <1>9, <1>10, <1>11, <1>12
  DEF Next, Finished, EndInput, EndOutput

LEMMA LoopCorrect == Spec => [](TimesInv /\ LoopInv)
<1>1. Init => TimesInv /\ LoopInv
  BY DEF Init, TimesInv, Empty, NoReq, LoopInv, CountedSectorsAreStored,
         CountedSectorsAreRead
<1>2. TypeOK /\ RequestInv /\ TimesInv /\ LoopInv /\ [Next]_vars => (TimesInv /\ LoopInv)'
  BY TimesStep, LoopStep
<1>3. QED
  BY <1>1, <1>2, TypeCorrect, PTL DEF Spec

\* When Output_cmd (commands.c) reports n sectors, the first n of the request are on
\* the image that has been in the drive since the last media check, in their order:
\* a failed sector ends the loop uncounted, and no mount can pass unnoticed.
THEOREM CountedSectorsAreStoredHolds == Spec => []CountedSectorsAreStored
  BY LoopCorrect, PTL DEF LoopInv

\* When Input_cmd (commands.c) reports n sectors, DOS's buffer holds the first n of the
\* range, all inside the range the BPB gives.
THEOREM CountedSectorsAreReadHolds == Spec => []CountedSectorsAreRead
  BY LoopCorrect, PTL DEF LoopInv
=============================================================================

----------------------------- MODULE DiskDriver -----------------------------
(***************************************************************************)
(* The block device driver FUJINET.SYS: sys/dispatch.c and the command     *)
(* handlers of sys/commands.c, after Init_cmd (sys/init.c).  DOS hands the *)
(* driver one request at a time; a request is a sequence of FUJICOM calls, *)
(* one action each, and between two of them the user may mount another     *)
(* disk image in any slot of the FujiNet.                                  *)
(***************************************************************************)
EXTENDS Integers, Sequences, FiniteSets

CONSTANTS
  Units,        \* the drives DOS uses, out of 0..FN_MAX_DEV - 1
  Disks,        \* the disk images
  Size,         \* Size[d]: sectors of image d, as its boot sector says
  DefaultSize,  \* sectors of the BPB that Init_cmd fills in (init.c:106)
  MaxCount,     \* bound: sectors in one request
  MaxMounts,    \* bound: mounts and ejections
  MaxReqs,      \* bound: requests
  LineFaults    \* "empty", "filled": how a FUJICOM call may fail

FN_MAX_DEV == 8

ASSUME UnitsAssumption == Units \subseteq 0..FN_MAX_DEV - 1
ASSUME SizeAssumption == Size \in [Disks -> Nat \ {0}]
ASSUME BoundsAssumption ==
  DefaultSize \in Nat /\ MaxCount \in Nat /\ MaxMounts \in Nat /\ MaxReqs \in Nat
ASSUME NoDiskAssumption == "none" \notin Disks

VARIABLES
  mounted,       \* mounted[u]: the image in slot u, its mode and mount time
  clock,         \* the last mount time given out
  store,         \* store[d][s]: what sector s of image d holds
  mount_status,  \* the driver's table of mount times (commands.c:22)
  disk_slots,    \* the driver's table of slot modes (commands.c:24)
  bpb,           \* bpb[u]: the sector count in fn_bpb_table[u] (commands.c:15)
  pc, req,       \* where the running request is, and the request
  old_status,    \* Media_check_cmd's local of that name
  idx, buf,      \* sectors transferred so far, and DOS's buffer
  reply,         \* how the last request ended
  told           \* told[u]: the mount time that DOS was told about last, by the last
                 \* media check of drive u that answered

devVars == <<mounted, clock, store>>
tables == <<mount_status, disk_slots, bpb>>
vars == <<mounted, clock, store, mount_status, disk_slots, bpb, pc, req, old_status,
          idx, buf, reply, told>>

Empty == [disk |-> "none", mode |-> "none", time |-> 0]
NoReq == [kind |-> "none", unit |-> 0, start |-> 0, count |-> 0, n |-> 0]

\* A status word: DONE_BIT is set by Interrupt for every request, so what is left
\* is ERROR_BIT and the code.
OK == [error |-> FALSE, code |-> "OP_COMPLETE"]
Fail(code) == [error |-> TRUE, code |-> code]

Init ==
  /\ mounted = [u \in Units |-> Empty] /\ clock = 0
  /\ store = [d \in Disks |-> [s \in 0..Size[d] - 1 |-> <<0, s>>]]
  /\ mount_status = [u \in Units |-> 0]
  /\ disk_slots = [u \in Units |-> "none"]
  /\ bpb = [u \in Units |-> DefaultSize]
  /\ pc = "idle" /\ req = NoReq /\ old_status = 0 /\ idx = 0 /\ buf = <<>>
  /\ reply = [status |-> OK, info |-> 0, count |-> 0]
  /\ told = [u \in Units |-> 0]

-----------------------------------------------------------------------------
(* The FujiNet's slots. *)

Mount(u, d, m) ==
  /\ clock < MaxMounts
  /\ clock' = clock + 1
  /\ mounted' = [mounted EXCEPT ![u] = [disk |-> d, mode |-> m, time |-> clock']]
  /\ UNCHANGED <<store, tables, pc, req, old_status, idx, buf, reply, told>>

Eject(u) ==
  /\ clock < MaxMounts /\ mounted[u] # Empty
  /\ clock' = clock + 1
  /\ mounted' = [mounted EXCEPT ![u] = Empty]
  /\ UNCHANGED <<store, tables, pc, req, old_status, idx, buf, reply, told>>

\* Does slot u have a sector s?
HasSector(u, s) == mounted[u].disk # "none" /\ s < Size[mounted[u].disk]

-----------------------------------------------------------------------------
(* Requests. *)

Done(status, info, count) ==
  /\ pc' = "idle"
  /\ reply' = [status |-> status, info |-> info, count |-> count]

\* Strategy notes the request and Interrupt looks its handler up.
Interrupt(r) ==
  /\ pc = "idle" /\ req.n < MaxReqs
  /\ req' = [r EXCEPT !.n = req.n + 1]
  /\ idx' = 0 /\ buf' = <<>>

\* All handlers that use the unit refuse the same way.
BadUnit(r) ==
  /\ Interrupt(r)
  /\ r.unit >= FN_MAX_DEV
  /\ Done(Fail("UNKNOWN_UNIT"), 0, 0)
  /\ UNCHANGED <<devVars, tables, old_status, told>>

Request(kind, u, start, count) ==
  [kind |-> kind, unit |-> u, start |-> start, count |-> count, n |-> 0]

\* A FUJICOM read that does not return 'C' may have filled its buffer all the
\* same: the checksum comes last.
Failed(table, value) ==
  \/ "empty" \in LineFaults /\ UNCHANGED table
  \/ "filled" \in LineFaults /\ table' = value

Media_check_cmd(u) ==
  /\ Interrupt(Request("media", u, 0, 0))
  /\ old_status' = mount_status[u]
  /\ pc' = "mount_status"
  /\ UNCHANGED <<devVars, tables, reply, told>>

CheckFailed == Done(Fail("NOT_READY"), 0, 0)

\* The mount times of all slots land in the driver's table.
ReadMountStatus ==
  LET times == [u \in Units |-> mounted[u].time]
  IN  /\ pc = "mount_status"
      /\ \/ /\ mount_status' = times
            /\ pc' = "disk_slots" /\ UNCHANGED reply
         \/ Failed(mount_status, times) /\ CheckFailed
      /\ UNCHANGED <<devVars, disk_slots, bpb, req, old_status, idx, buf, told>>

ReturnInfo(new_status) ==
  IF new_status = 0 THEN 0 ELSE IF old_status # new_status THEN -1 ELSE 1

ReadDiskSlots ==
  LET modes == [u \in Units |-> mounted[u].mode]
      new_status == mount_status[req.unit]
  IN  /\ pc = "disk_slots"
      /\ \/ /\ disk_slots' = modes
            /\ Done(OK, ReturnInfo(new_status), 0)
            /\ told' = [told EXCEPT ![req.unit] = new_status]
         \/ Failed(disk_slots, modes) /\ CheckFailed /\ UNCHANGED told
      /\ UNCHANGED <<devVars, mount_status, bpb, req, old_status, idx, buf>>

Build_bpb_cmd(u) ==
  /\ Interrupt(Request("bpb", u, 0, 1))
  /\ \/ /\ HasSector(u, 0)
        /\ bpb' = [bpb EXCEPT ![u] = Size[mounted[u].disk]]
        /\ Done(OK, 0, 0)
     \/ /\ ~HasSector(u, 0) \/ LineFaults # {}
        /\ Done(Fail("READ_FAULT"), 0, 0)
        /\ UNCHANGED bpb
  /\ UNCHANGED <<devVars, mount_status, disk_slots, old_status, told>>

Input_cmd(u, start, count) ==
  /\ Interrupt(Request("input", u, start, count))
  /\ pc' = "input"
  /\ UNCHANGED <<devVars, tables, old_status, reply, told>>

\* A write goes by the mode the last media check read.
Output_cmd(u, start, count) ==
  /\ Interrupt(Request("output", u, start, count))
  /\ IF disk_slots[u] = "SLOT_READWRITE"
     THEN pc' = "output" /\ UNCHANGED reply
     ELSE Done(Fail("WRITE_PROTECT"), 0, count)
  /\ UNCHANGED <<devVars, tables, old_status, told>>

\* A variant that does not move on.
SectorStandsStill == req.start

Sector == req.start + idx

\* The loop is over: all sectors done, or one of them failed.
EndTransfer ==
  IF idx = 0 THEN Done(Fail("GENERAL_FAIL"), 0, req.count) ELSE Done(OK, 0, idx)

\* The check at the top of the loop, with the count left as it was.
OutOfRange ==
  /\ idx < req.count /\ Sector >= bpb[req.unit]
  /\ Done(Fail("NOT_FOUND"), 0, req.count)
  /\ UNCHANGED <<devVars, tables, req, old_status, idx, buf, told>>

\* A variant of the loop condition that goes round once too often.
TransferOnceMore == idx <= req.count /\ Sector < bpb[req.unit]

Transfer == idx < req.count /\ Sector < bpb[req.unit]

Complete ==
  /\ idx = req.count
  /\ EndTransfer
  /\ UNCHANGED <<devVars, tables, req, old_status, idx, buf, told>>

ReadSector ==
  /\ pc = "input" /\ Transfer
  /\ \/ /\ HasSector(req.unit, Sector)
        /\ buf' = Append(buf, store[mounted[req.unit].disk][Sector])
        /\ idx' = idx + 1 /\ UNCHANGED <<pc, reply>>
     \/ /\ ~HasSector(req.unit, Sector) \/ LineFaults # {}
        /\ EndTransfer /\ UNCHANGED <<idx, buf>>
  /\ UNCHANGED <<devVars, tables, req, old_status, told>>

\* What request number n carries for its i-th sector.
Data(n, i) == <<n, i>>

Stored ==
  store' = [store EXCEPT ![mounted[req.unit].disk][Sector] = Data(req.n, idx)]

\* A variant that counts a sector whatever the FUJICOM call returned.
WriteSectorIgnoresReply ==
  LET writable == HasSector(req.unit, Sector) /\ mounted[req.unit].mode = "SLOT_READWRITE"
  IN  /\ pc = "output" /\ Transfer
      /\ \/ writable /\ Stored
         \/ (~writable \/ LineFaults # {}) /\ UNCHANGED store
      /\ idx' = idx + 1
      /\ UNCHANGED <<mounted, clock, tables, pc, reply, req, old_status, buf, told>>

\* A write that does not return 'C' may have been carried out all the same.
WriteSector ==
  LET writable == HasSector(req.unit, Sector) /\ mounted[req.unit].mode = "SLOT_READWRITE"
  IN  /\ pc = "output" /\ Transfer
      /\ \/ /\ writable /\ Stored
            /\ idx' = idx + 1 /\ UNCHANGED <<pc, reply>>
         \/ /\ writable /\ "filled" \in LineFaults /\ Stored
            /\ EndTransfer /\ UNCHANGED idx
         \/ /\ ~writable \/ LineFaults # {}
            /\ EndTransfer /\ UNCHANGED <<store, idx>>
      /\ UNCHANGED <<mounted, clock, tables, req, old_status, buf, told>>

EndInput == pc = "input" /\ (OutOfRange \/ Complete)
EndOutput == pc = "output" /\ (OutOfRange \/ Complete)

\* The handlers that do nothing.  Some set ERROR_BIT, some return a bare code;
\* a command outside the table is refused by Interrupt itself.
BareCode == {"Ioctl_input", "Input_no_wait", "Input_status", "Output_status",
             "Output_flush", "Ioctl_output", "Dev_close", "Remove_media", "Ioctl",
             "Unknown"}
Refused == {"Input_flush", "Output_verify", "Dev_open", "Get_l_d_map", "Set_l_d_map"}
AboveMax == {"above MAXCOMMAND"}

Unsupported(c) ==
  IF c \in Refused THEN Fail("GENERAL_FAIL")
  ELSE [error |-> c \in AboveMax, code |-> "UNKNOWN_CMD"]

Unsupported_cmd(c) ==
  /\ Interrupt(Request(c, 0, 0, 0))
  /\ Done(Unsupported(c), 0, 0)
  /\ UNCHANGED <<devVars, tables, old_status, told>>

-----------------------------------------------------------------------------
Finished == pc = "idle" /\ req.n = MaxReqs /\ clock = MaxMounts /\ UNCHANGED vars

\* A whole disk's worth of start sectors, and one past the largest disk.
Starts == UNION {0..Size[d] : d \in Disks}

Next ==
  \/ \E u \in Units, d \in Disks, m \in {"SLOT_READONLY", "SLOT_READWRITE"} : Mount(u, d, m)
  \/ \E u \in Units : Eject(u) \/ Media_check_cmd(u) \/ Build_bpb_cmd(u)
  \/ \E u \in Units, s \in Starts, n \in 0..MaxCount :
       Input_cmd(u, s, n) \/ Output_cmd(u, s, n)
  \/ BadUnit(Request("media", FN_MAX_DEV, 0, 0))
  \/ \E c \in BareCode \cup Refused \cup AboveMax : Unsupported_cmd(c)
  \/ ReadMountStatus \/ ReadDiskSlots
  \/ ReadSector \/ EndInput \/ WriteSector \/ EndOutput
  \/ Finished

Spec == Init /\ [][Next]_vars

-----------------------------------------------------------------------------
(* Properties. *)

Tag == (0..MaxReqs) \X Nat

Kinds == {"none", "media", "bpb", "input", "output"} \cup BareCode \cup Refused \cup AboveMax

Codes == {"OP_COMPLETE", "UNKNOWN_UNIT", "NOT_READY", "UNKNOWN_CMD", "READ_FAULT",
          "WRITE_PROTECT", "NOT_FOUND", "GENERAL_FAIL"}
Statuses == [error : BOOLEAN, code : Codes]

Requests == [kind : Kinds, unit : 0..FN_MAX_DEV, start : Nat, count : Nat, n : 0..MaxReqs]
Replies == [status : Statuses, info : -1..1, count : Nat]

TypeOK ==
  /\ mounted \in [Units -> [disk : Disks \cup {"none"},
                            mode : {"none", "SLOT_READONLY", "SLOT_READWRITE"},
                            time : 0..MaxMounts]]
  /\ clock \in 0..MaxMounts
  /\ DOMAIN store = Disks /\ \A d \in Disks : store[d] \in [0..Size[d] - 1 -> Tag]
  /\ mount_status \in [Units -> 0..MaxMounts]
  /\ disk_slots \in [Units -> {"none", "SLOT_READONLY", "SLOT_READWRITE"}]
  /\ bpb \in [Units -> Nat]
  /\ pc \in {"idle", "mount_status", "disk_slots", "input", "output"}
  /\ req \in Requests /\ reply \in Replies
  /\ old_status \in 0..MaxMounts /\ idx \in 0..req.count /\ buf \in Seq(Tag)
  /\ told \in [Units -> 0..MaxMounts]

\* sys_hdr.h:59, "Check for Correct Media": a media check that answers "not changed" is
\* right, the image in the drive is the one DOS was told about.  The code does not keep
\* to it: the table a check compares with is overwritten by the checks of other drives
\* and by checks that go on to fail.
MediaTruth ==
  [][pc = "disk_slots" /\ pc' = "idle" /\ reply'.info = 1
       => told[req.unit] = told'[req.unit]]_vars

\* A step of the driver changes at most the sector a running Output_cmd has come
\* to, on the image in the drive it was asked for, inside the range it was given,
\* and only on a disk mounted for writing.
OnlyAskedSectors ==
  [][\A d \in Disks : \A s \in DOMAIN store[d] : store'[d][s] # store[d][s] =>
       /\ pc = "output" /\ d = mounted[req.unit].disk
       /\ mounted[req.unit].mode = "SLOT_READWRITE"
       /\ s \in req.start..req.start + req.count - 1
       /\ store'[d][s] = Data(req.n, s - req.start)]_vars

\* The time the image in the drive was mounted, if it was there for the whole
\* request: mount times do not repeat.
Steady(u) == mounted[u].disk # "none" /\ told[u] = mounted[u].time

\* When a write reports n sectors, the first n are on the disk that was in the
\* drive since the last media check, in their order.
CountedSectorsAreStored ==
  (pc = "idle" /\ req.kind = "output" /\ ~reply.status.error /\ Steady(req.unit)) =>
    /\ reply.count \in 1..req.count
    /\ \A i \in 0..reply.count - 1 :
         store[mounted[req.unit].disk][req.start + i] = Data(req.n, i)

\* When a read reports n sectors, DOS's buffer holds the first n of the range, and
\* none of them lies beyond the end the BPB gives.
CountedSectorsAreRead ==
  (pc = "idle" /\ req.kind = "input" /\ ~reply.status.error) =>
    /\ reply.count \in 1..req.count /\ Len(buf) = reply.count
    /\ req.start + reply.count <= bpb[req.unit]
    /\ Steady(req.unit) => \A i \in 1..reply.count :
         buf[i] = store[mounted[req.unit].disk][req.start + i - 1]
=============================================================================

# A specification of FujiNet for MS-DOS

FujiNet is a network adapter. On a PC it hangs on a serial port and gives DOS
disk drives, a printer, a clock and network files. This directory holds TLA+
modules of the DOS side of it (the repository's C code), configurations that
model-check them with TLC, and theorems about them that TLAPS checks.

To check something: `tlc -config MCFujicom_faulty.cfg MCFujicom`,
`tlapm FujicomProofs.tla`. `PROJECT.json` lists the runs, the theorems, and for
each definition the lines of the source it models.

## 1. The system

```
  DOS programs     ncopy  nget  nput  nc  iss        DOS itself
       |             |                                |       |
       |        fujifs (file system client)      block I/O   INT 2F/11
       |             |                                |       |
       +---- INT F5 -+--------------------------+ FUJINET.SYS fnshare redirector
                     |                          | commands.c      |
                     +------- fujicom ----------+              fujifs
                                 |
                            com (UART)  ~~~ serial line ~~~  FujiNet
```

| component | state it keeps | operations | interacts by |
|---|---|---|---|
| UART routines `fujicom/com.c` | the port, the millisecond clock of the running wait | poll for a byte with a timeout, fill a buffer, drain the receiver, send | called by fujicom; shares the tick counter with the timer interrupt and the receiver with the line |
| FUJICOM `fujicom/fujicom.c` | nothing between two calls; what an earlier call left on the line is its hidden state | `fujicom_command`, `_read`, `_write` | called by the driver and by INT F5, one call at a time |
| block driver `sys/commands.c`, `dispatch.c` | mount times, slot modes and BPBs of eight units | media check, build BPB, input, output, and refusals | DOS calls it with request packets; the user changes the disks under it |
| initialisation `sys/init.c`, `printer/init.c` | the options of the driver's line, the registers of its port | parse the line, open the port, identify the UART, find the FujiNet, set the clock, set a vector | once for each driver, at boot, in the order of CONFIG.SYS; two drivers may share a port |
| INT F5 `sys/intf5.c` | one static command frame | dispatch on the payload direction | programs and fujifs call it |
| file system client `ncopy/fujifs.c` | eight handles (open, parent, credentials, read position), one shared 256-byte buffer, the strtok cursor | open and close a URL, file or directory; read, write, seek, list, stat, change directory | called by ncopy and by the redirector; talks to eight network devices through INT F5 |
| redirector `fnshare/redir.c` | nothing of its own: its state lives in DOS's search records and file table entries | the INT 2F/11 functions | DOS calls it; it calls fujifs |
| FNSHARE's installation `fnshare/fnshare.c` | drive and URL of each copy, the chain of INT 2F, DOS's drive table, a signature in a user interrupt | load, break off, unload; decide which calls are for this copy | DOS, other resident programs, other copies of itself |
| names and dates `redir.c`, `dosfunc.c`, `fujifs.c` | none | pad, fold, split and join names, prefix the URL, convert a listing's dates | between DOS and the server |
| transfer programs `ncopy`, `nget`, `nput` | the running transfer; the directory, in a network device that outlives the program | open, copy until the read returns 0, change the directory, list | fujifs, INT F5; a device stays as the last program left it |
| printer driver `printer/` | none | send a byte, by DOS's request or by INT 17 | FUJICOM |

What makes each hard, and what makes it correct:

* **FUJICOM.** The line has no framing towards the host and no sequence
  numbers: a byte means what the position in the conversation says it means, and
  a retry cannot take back an attempt that is still being worked on. Correct
  means: a `C` is about this call, a read holds this call's data, a write is
  carried out at most once, every call returns.
* **UART.** Two clocks: the loop's 16-bit milliseconds and the timer interrupt.
  Correct means: a wait ends when its timeout has passed, not before and not
  never.
* **Block driver.** DOS caches what it read; the media check is what keeps the
  cache honest, and the tables it compares with are shared by all units. A
  transfer is many calls and each may fail. Correct means: an unchanged answer is
  true, the count of a transfer is what was moved, and nothing outside the
  request is written.
* **Initialisation.** Two drivers bring up ports they may share, on hardware they
  have to find out about, by options in a buffer sized by a guess. Correct means:
  the options are those of the line, and once DOS runs no UART interrupts, for
  nobody serves it, and each driver has its port as it asked.
* **Printer.** An answer may be lost after the byte has been printed. Correct means:
  what DOS believes printed is on the paper, in order.
* **FNSHARE's installation.** Resident programs come and go in any order, and a user
  may break a loading off between two of its side effects. Correct means: INT 2F
  never leads to memory that is free, and a flagged drive is served by one copy.
* **Names.** Fixed fields with padding, DOS paths, URLs, 12-hour times. Correct means:
  the server is asked for the file the program named, and DOS sees what is there.
* **Transfer programs.** They go by a status that may be stale, and a read of 0 bytes
  means the end, a failure or a slow server alike. Correct means: what is stored is
  the beginning of the file, a silent end is the whole of it, every handle comes back.
* **File system client and redirector.** Handles are few and are given back by
  convention; the listing buffer is shared by all of them; DOS may hold several
  searches and files at a time. Correct means: a handle is somebody's or free,
  and a listing continues in the directory it was started in.

## 2. The modules

| module | models | proofs |
|---|---|---|
| `Cksum` | `fujicom_cksum` as a recursive function | |
| `CksumLoop` | its loop, over what was sent and what arrived | `RoutineProofs` |
| `FujiRpc` | what a caller of FUJICOM relies on: an at-most-once call | |
| `Fujicom`, `MCFujicom` | the three calls of `fujicom.c`, the line, the device | `FujicomProofs`, `SeqLemmas` |
| `ComTimeout` | the waits of `com.c` beside the timer interrupt | `RoutineProofs` |
| `MCRoutines` | `CksumLoop` and `ComTimeout`, one or the other in each behaviour | |
| `DiskDriver`, `MCDiskDriver` | the driver of `sys/` beside a user who swaps disks | `DiskDriverProofs` |
| `Fujifs` | the functions of `fujifs.c` that the redirector calls, and the devices behind them | |
| `Redirector`, `MCRedirector` | the INT 2F functions of `redir.c` over `Fujifs`, called by programs through DOS | `RedirectorProofs` |
| `NetDevice` | a network device as a program sees it through INT F5, and the ways a call may end | |
| `Ncopy`, `Nget` | the transfer programs, over `NetDevice` | |
| `Transfer`, `MCTransfer` | the programs one after the other on the same devices | `TransferProofs` |
| `Config` | `parse_config` and the environment it leaves | |
| `Boot` | `Init_cmd` of both drivers, the port and the UART | |
| `Printer` | the printer driver and INT 17 | |
| `Startup`, `MCStartup` | `Boot`, then `Printer` | `StartupProofs` |
| `Names` | names, paths and dates between DOS and the server | |
| `Hooks` | what programs that hook an interrupt rely on: a stack of handlers | |
| `Fnshare`, `MCFnshare` | copies of FNSHARE in the chain of INT 2F, and which call is whose | `FnshareProofs` |

`SeqLemmas` holds what the proofs cite of sequences, that a set of natural numbers has
a least element, and that a recursion over `0..n` has a solution. The
definitions whose comment calls them a variant (`AckNextOnceMore`,
`TransferOnceMore`, ...) are slips a programmer could make; they are not part of
any specification. Each property of a passing run was seen to fail when one of
them takes the place of the definition after it, so that none of them holds for
a reason that has nothing to do with the code.

### Fujicom

`pc` follows the running call through the code; one action is one UART call
(`Flush`, `SendFrame`, `WaitAck`, `PutData`, `WaitDataAck`, `WaitComplete`,
`CheckSum`), except the payload of a read, which comes byte by byte (`GetByte`).
The line is two sequences. Towards the device it carries whole frames and whole
payloads, because DTR and the checksum delimit them for the device; towards the
host it carries bytes. A call is known by its number, which stands for the bytes
of the frame and of the payload.

The device is not in the repository. The model gives it what the host code and
`FUJICOM-Protocol.md` expect: it acknowledges or refuses a frame, takes the
payload of the write it accepted last, carries the command out or fails, and
answers. Faults are actions of the line, at most `MaxFaults` of them.

Timeouts are the delicate part. An answer is put on the line as a whole, and how
much of it has arrived when the host looks is left open. A wait may always end with
the byte at the head of the line. It may end with a timeout when nothing is coming
any more (`Quiet`), and, for the waits named in the constant `Late`, also when
something is: `Late = {}` says that the timeouts of 100 ms and 15 s are long enough
for this device, `Late = {"TIMEOUT"}` that an acknowledgement may take longer than
100 ms. The window between the poll and the look at the clock that `ComTimeout`
shows is one way in which a byte that was in time is missed. The flush waits for
nothing, it stops at the first look at an empty receiver; so it leaves any number
of bytes that are still on their way, whatever `Late` is.

`fujicom_command` differs from the others in the code and so in the model: it
neither flushes nor retries, and it ignores how the wait for the acknowledgement
ended (`AckNext`, first disjunct). `Rpc` maps a state to `FujiRpc`: a call is running
while `pc` is not idle, and the log, which records what the device carried out, is shared.

### ComTimeout

A wait polls (`PollFull`, `PollEmpty`), then reads the clock (`Clock`); the timer
interrupt (`TimerTick`) may come between any two steps. `get_time_ms` and
`timeout_delta` are computed in 16 bits as the 16-bit compiler does. Inside
`port_getbuf` interrupts are off: one tick is held back, more are lost, and the
counter stands still. `waited` counts the real ticks.

### DiskDriver

One action per FUJICOM call of a handler, so that the user's `Mount` and `Eject`
fall between any two of them. A FUJICOM call is taken as one step here, with the
outcomes `Fujicom` shows it has: it succeeds, it fails and had no effect
(`"empty"`), or it fails although the device carried it out or the buffer was
filled (`"filled"`). That a `C` may be about another call (the configurations `stale` and
`short` of `MCFujicom`) is left out.
Sectors hold `<<request, index>>`, so that the properties can tell whose data they hold. `told` is not in the code: it records what the driver
has told DOS about the medium.

### Fujifs and Redirector

`Fujifs` has the code's own state, the handle table and the one buffer, and what
is behind it: the directories of the share (`tree`, `size`) and what each network
device has open (`chan`). Its operators are the functions; `Redirector` extends it
and calls them from its actions. A record of a listing is `RecLen` cells, the
last of which holds the end of the record; the buffer holds `BufLen` of them, no
multiple of `RecLen`, so that records are cut in two. A path, of URL, directory and name,
overwrites `PathLen` cells, which may be more than a record. What is read out of cells
that are not one whole record is `Junk`: a name that is in no directory.

The redirector has no state of its own. Its state is DOS's: `sda`, the search
record that each search call works on; `dta`, the programs' copies of it, which
DOS takes after a search call and puts back before the next; `sft`, the open
files. DOS calls one function at a time (`call`), and a function that reads a
directory is a loop over `fujifs_readdir` whose steps are the actions `Opendir`,
`Refill`, `Record` and `Closedir`, the same for a search (`find_next`) and for a
look-up (`fujifs_stat`). `want`, `got`, `disturbed`, `failed` and `lost` are not in
the code; they record what the properties speak of.

Assumed: the line is reliable (`Fujicom` tells what happens when it is not), and a
device that is told to seek does;
there is one share, whose URL is fully qualified, so that no prefix is copied
between devices; the device lists a directory as it was when it was opened; DOS
gives up an entry of its file table when it calls `close_file`, that is, no file
handle has been duplicated. A search of another drive, which would overwrite the
search record too, is left out.

### NetDevice, Ncopy, Nget and Transfer

In `NetDevice` a call of INT F5 is one step. How it can end is what `Fujicom` shows:
carried out and answered; not carried out (`"lost"`); carried out and the answer lost or
damaged (`"unheard"`); and, for a read, carried out twice with the second answer heard
(`"twice"`, a retry after the first answer got lost). That a call is answered with what is
left of another one's answer (`MCFujicom_stale.cfg`, `MCFujicom_short.cfg`) is left out. At most `MaxFaults` calls go wrong. A
device keeps its directory and its login when it is closed, and its connection
when a program ends without closing it; so the programs inherit what the one
before left. A file is a sequence of cells, each of which knows its place.

Each action of `Ncopy` and `Nget` is one call with the code before the next: the
status of a read, then the read, then the write to the local disk. `status` is the
variable of `fujifs.c` and of `nget.c`, into which `port_getbuf` stores the bytes of the
answer as they come; nobody looks at the reply. So after an unheard status call it is the
answer, what it was before, or whatever damaged bytes say (`Damaged`: any error code,
and any of the `Lengths`), which is the delicate part. `nput` sets the wrong half of a
register for its direction, and `intf5` then calls nothing and returns whatever
its reply is. `missed`, `opened`, `where` and `typed` are not in the code: what has happened to the calls
of the command, whether its open was carried out, the directory that the prompt shows,
what the user has typed.

### Config, Boot, Printer and Startup

`step` follows `Init_cmd` of the driver whose `turn` it is. A port is what the
code programs of it: divisor, line format, the bits of MCR that open it, its
interrupt enable, its FIFO. What is read of a UART depends on its kind; on an 8250
the scratch register is what the bus happens to hold. A FujiNet answers when
the port and the rate are its own; `fujicom_done` can also follow an answer that
got lost. `Config` copies the options character by character, because how the
room runs out is what the property is about; a pointer takes `Pointer` cells of it.
A line has the driver's name first and ends at its only end of line (`IsLine`), as DOS hands it
over. `EnvIsOptions` says what an environment of a line is without the scan:
an option starts behind a blank, and its entry is the one of its rank among those (`IsEnvOf`).
After boot, `Printer` prints a text in one of four ways, and the user may tell DOS to
retry or to go on after an error.

### Names and Fnshare

`Names` has the conversions as operators over sequences of characters, with shorter
fields than the code's 8 and 3. `Fnshare` has memory, the vectors and DOS's tables.
Loading is three steps, because the user can press Ctrl-C at the message between
them (`Break`). `unload_latest` is modelled although `main` has no option that calls
it: the routine is complete and its comment says what it relies on. What the runs and
proofs show of copies that go is therefore about code that no program reaches. Another
program may hook INT 2F before, between and after, or take a user interrupt, which
shifts the one a copy signs. A call of DOS walks `Chain` until a copy takes it;
`answer` records who took it and by what name, and `due`, not in the code, who should
have. What a copy then does is `Redirector`'s. `Stack` maps a state to `Hooks`: its chain is
`Chain`, what is resident is `Loaded`.

## 3. The runs

| run | question | bounds and why they are enough |
|---|---|---|
| `faulty` | does `fujicom.c` implement `FujiRpc`, and leave nothing behind, when frames get lost? | 3 calls of every kind with every outcome of the device, two lost or damaged frames or payloads: the third call starts from everything two others can leave; 5 retries as in the code; a payload of 2 bytes has a first, a last and a checksum after it |
| `lossy` | what does a `C` still mean when bytes of answers get lost and the device may die? | the same with two faults of any kind but a damaged byte, and without reads, for which it is false (`MCFujicom_stale.cfg`) |
| `hostile` | is a write carried out once, a call no more often than its attempts, whatever happens? | 2 calls, any fault, any wait may be missed; 2 attempts instead of 5, the smallest number with a retry (the theorem covers all) |
| `routines` | does the checksum notice a damaged byte, and do waits end on time? | two routines that share nothing, so that one of them stands still: buffers of 4 of the 6 bytes at which carries happen (the theorem covers all); the two timeouts of the code, and starts just before each place where 16 bits wrap |
| `disk_one` | are the counts of transfers right, and is nothing else touched? | two drives; images of 1 and 2 sectors with a default BPB of 1, so that the BPB in use can be too large and too small; 3 requests, 2 swaps: check, BPB, transfer, with two swaps among them |
| `redir_files` | are handles, offsets, searches and look-ups right while one search runs at a time? | 2 devices for a search, a look-up and two files, so that the table is full; 2 files and what is made, in records of 2 cells, a buffer of 3 and paths of 3; 3 calls that read a directory, any number of reads, writes, seeks and closes; sizes 0 and 1; listings, opens and path operations may be refused |
| `transfer` | do the programs store, send and list what is there, and give back what they take, when calls go wrong? | 2 programs, ncopy with 2 commands, 2 faulty calls; 2 directories, one with a file of 3 cells, buffers of 2 and 1 cells and a disk with room for 2 or 3, so that a file takes two reads, the last one short, and may not fit; a damaged status says a length of 0 or 3 and any error code |
| `boot` | are the options, the ports and the vectors right, and what is printed? | 4 lines for each driver, which agree and disagree on port and rate, with room for fewer options than the longest has; both orders and the disk driver alone; 4 UARTs, 2 ports, 2 rates; a text of 3 bytes, two of them the same, and 2 mishaps |
| `fnshare` | does INT 2F stay whole and a stack, and does each call reach its copy by the right name? | 2 copies, 1 program of another maker, 2 user interrupts and 2 drives that are free: the copies load, break off and unload in every order beside it, and may meet no user interrupt; fields of 2 and 1 characters, so that names fill and do not fill them |

The type invariants of the modules are stated in each; in the runs they stand
where something can break them by more than a slip (`hostile`, where the
counters are bounded by the loops). To check another, add
`INVARIANT TypeOK` to its configuration.

Runs that end in a counterexample, each for a statement the repository makes:

| run | what happens |
|---|---|
| `stall` | the device stops in the payload of a read; `port_getbuf` has turned the timer off and waits for ever |
| `two_drives` | a disk is swapped in one drive; a media check of the other drive overwrites the table; a media check of the first says: not changed |
| `redir_leak` | a file is opened for reading and closed; its device stays open |

The code does not keep these either. Each has a configuration of its own, which is not
among the runs of `PROJECT.json`; TLC ends every one in a counterexample:

| configuration | property | what happens |
|---|---|---|
| `MCFujicom_stale.cfg` | `CompleteMeansDone` | the `A` of a read gets lost; the flush of the retry leaves the payload that is still coming, whose bytes end the wait for the next `A` too early; from then on each answer is that of the frame before, and the next read returns `C` and the first one's data |
| `MCFujicom_short.cfg` | `ReadIsOwn` | a payload of 1 and 127 loses its first byte: the checksum 128 becomes the second one, and the timeout, 255 in a `uint8_t`, the checksum of the two |
| `MCFujicom_late_ack.cfg` | `AckStaysInside` | the `A` of a command comes after 100 ms and is returned |
| `MCRedirector_create.cfg` | `ExistingFileSpared` | the server refuses to list a directory; `open_extended` takes the file in it for missing, and an open that must not touch an existing file empties it |
| `MCRedirector_delete.cfg` | `DeleteIsThorough` | the path of an unlink is longer than what has been read of the listing and overwrites the next names; `delete_files` ends with files left |
| `MCRedirector_nested.cfg` | `SearchKeepsItsPlace` | a program begins a search, then another; the first one is given entries it did not ask for, or ends early |
| `MCTransfer_nget.cfg` | `ExitZeroIsSuccess` | the answer to a status comes damaged and says that the file has ended; `nget` exits with 0 and has stored a part of it |
| `MCTransfer_put.cfg` | `SilentPutIsStored` | the close of a put is lost, then the open of the next one, which nobody looks at: the second file is added to the first |
| `MCTransfer_told.cfg` | `OpensWhereTold` | the change to the directory of the URL fails, which nobody looks at; files are opened in the directory that the device had before |

Seen while modelling, and given neither a run nor a configuration. Most are reached
by a change of a constant or a property, which is named:

* The device refuses a frame: the loop breaks on `N` into the code for an `A`, the
  caller gets a timeout instead of the `N` of `fujicom.h:182`, and a write has sent
  its payload (`faulty` with `NakIsReported`).
* When every acknowledgement is late, the fifth wait returns the `C` of an earlier
  attempt and a read returns `C` without having read anything (`faulty` with
  `Late = {"TIMEOUT"}`, two calls: `ReadIsOwn`).
* A wait begun before midnight gives up at the first tick after it (`routines` with a
  start of `Midnight - 2`: `GivesUpOnTime`).
* Ten handlers of the driver return a code without the
  error bit; `FUJICOM-Protocol.md:93` says that the carry of the checksum is
  ignored, while the code, and the firmware code quoted there, add it back in;
  the same document has DTR the other way round.
* When a frame of a write is lost and the acknowledgement of an earlier call arrives
  in its place, the payload is sent to a device that waits for none; a payload names
  no command. `WriteAtMostOnce`, which holds there too, bounds the damage.
* A driver whose line has `FUJI_BPS=0`, or a word, divides by zero at boot
  (`com.c:216`, action `DivideError`). `init.c:229` says that `parse_config`
  returns the bytes that remain in `config_env`; it returns those in use. A driver that
  fails closes its port even when an earlier one is using it (`Disturbed` in `Startup`).
* The printer driver sends the first byte of a request in raw mode and reports all
  of them done; `Output_verify_cmd` returns an unknown command without the error bit,
  so that DOS takes the text for printed; INT 17 ignores what became of the byte.
* `nget` spins when its status shows no bytes and no end, for it does not ask again
  (`nget.c:108`); `nput` does not set the direction of its calls where INT F5 looks
  for it. The programs call INT F5 without asking whether the driver is there.
* FNSHARE: Ctrl-C at the message after `set_up_cds` leaves a drive flagged that
  nobody serves; `redirector` lets function 2F pass the bound of its table
  (`redir.c:1113`); a name without an extension goes to the server with a dot, and a
  longer path than `temp_path` is cut off, both of which `PathGoesToShare` and
  `ListedAsStored` leave out; the years 75 to 79
  of a listing lie before DOS's 1980 and wrap in its seven bits;
  `path_with_volume` computes the room left as an unsigned difference, which wraps for
  a URL as long as the buffer. Nothing gives `fn_volume` (`redir.c:22`) memory before
  `main` copies the URL to it (`fnshare.c:493`): it lands at the beginning of the data
  segment, and a long one overwrites what is there. `Names` takes the volume for what
  `main` means it to be.
* `fujifs_write` refuses the last handle (`fujifs.c:302`);
  `remove_dir` tests the attribute of a record that nothing has filled in
  (`redir.c:339`); `fujifs_rename` is not written; `fujifs_stat` counts on a
  prefix that a URL with its own `N:` does not get (`fujifs.c:526`).

**Fairness.** `Fujicom!FairSpec` gives weak fairness to the host's steps and to
those of the device: the host spins in its loops with nothing else to run, and a
device that is alive goes on working. Faults, calls and late answers have none.
`ComTimeout!FairSpec` has it for the loop and for the timer interrupt, not for
bytes. The loop's turn does not depend on anything else in either. `RoutinesSpec` has the
fairness of `ComTimeout` while it is that one's turn.
`Redirector!FairSpec` has it for the steps of a running function, not for DOS's
calls. `Transfer!FairSpec` has it for the steps of the program that runs, whose
calls of INT F5 come back because those of `Fujicom` do (`CallReturns` in `faulty` and
`lossy`; a device that stops in a payload, `stall`, is left out);
the user need not type or launch anything.

**Deadlock** is checked except where the system may really stop: `hostile` and
`stall`, in which the device may die and the host then hangs in `port_getbuf`.
In `Startup` and `Transfer` an explicit step stands for a PC at rest.

## 4. What is proved

From the assumptions on the constants that the modules name, and nothing else:

* `FujicomProofs!TypeCorrect`: `Spec => []TypeOK`. `TypeOK` alone is not inductive:
  that `op` is one of `Ops` while a call runs, and that the device and the packets
  speak of calls that were made, is `BusyOK` and `CallOK`; the invariant is
  their conjunction `TypeInv`.
* `FujicomProofs!WriteOnce`: `Spec => []WriteAtMostOnce`, for any number of retries,
  calls and faults. The inductive invariant `OnceInv` follows a payload: for each
  write the payloads on the line, the payload in the device and the entries in the
  log are together at most one, and none exists before `PutData`. `PutData` leads
  away from the retry loop, so no second payload is ever sent.
* `FujicomProofs!ExecutionsBoundedHolds`, likewise for any faults and delays. A command
  may exist as a frame on the line, as work in the device and as an entry of the log;
  for each call these together are at most the attempts made so far (`AskedInv`).
* `FujicomProofs!NothingLeftOverHolds`, `ReadIsOwnHolds` and `Implements`, the refinement of `FujiRpc`, where no answer is late (`Late = {}`) and
  faults hit whole frames and payloads (`lose_frame`, `damage_frame`). The invariant
  `Conversation` says, for each place of the host in the code, what is on the line and
  what the device is doing: nothing at the start of a call, one frame or one answer of
  this call while it waits (`Asking`, `Handing`, `Answering`), and the part of the
  payload that is still to come while it reads. Both conditions are needed: with late answers
  or lost bytes TLC refutes them (section 3).
* `FujicomProofs!CompleteMeansDoneHolds` and `AckStaysInsideHolds`, where no answer is late, on
  such a line for all calls, and for commands and writes (`"read" \notin Ops`) also where bytes of
  answers get lost and the device dies. Their answers are one byte behind the `A`, and a wait ends
  too soon for none of them, so that nothing is in flight when a call starts or starts over:
  `Apart` says so and that, until the running call is carried out, only reply codes other than `C`
  come in for it. Nothing is asked of the flush. A read, whose answer is longer, is the
  counterexample of `MCFujicom_stale.cfg`; a late `A` that of `MCFujicom_late_ack.cfg`.
* `DiskDriverProofs`, for any disks, sizes, requests, swaps and faults: `TypeCorrect`;
  `OnlyAskedSectorsHolds`; `CountedSectorsAreStoredHolds` and `CountedSectorsAreReadHolds`.
  `LoopInv` follows the loop: what it has counted has landed, or has been fetched, sector
  for sector. No mount gets a time that anyone has seen (`TimesInv`), so a drive whose time is
  the one DOS was told still holds the same disk (`Steady`). They speak of that disk: what is
  counted after a swap that DOS has not been told of is on two.
* `TransferProofs`, for any number of devices, files, buffers and faulty calls:
  `TypeCorrect`, `HandlesBackHolds`, `SilentPutIsWholeHolds`, `FetchedIsPrefixHolds` and `SilentFetchIsWholeHolds`. `Typed` also says where each program
  has which handle; `PutInv` that what has been written and what is still local make up the file,
  behind what was in the device's file if it was not opened anew; `GetInv` and `NgetInv` that
  what is stored, what is in the buffer and what the device has left follow one another
  in one file, as long as the open was carried out, no read was carried out twice and the disk
  had room. `SilentFetchIsWhole` says more only of nget after lost calls, and of ncopy when no
  call went wrong and the server was never slow: a damaged status may end either one early.
* `RedirectorProofs`, for any number of handles, files, programs and refusals, and buffers
  and records of any size: `TypeCorrect`, and, while searches do not overlap (`~Nested`),
  `HandlesApartHolds`, `HandlesAccountedHolds` and `OffsetsAgreeHolds`. The three are
  inductive only together with `LoopsOwn` (what a search and a look-up read through is
  open, and is not one handle) and `OneSearch` (the record in the SDA is the one its
  program keeps). With `Nested` none of them holds: a program's copy of the record is
  then older than the SDA's, and continuing with it uses a handle that a second
  `find_first` has closed, or opened for another.
* Also in `RedirectorProofs`, what reading a directory comes to. A listing is a snapshot
  taken by `fujifs_opendir`; `Listed(h, d, L, k)` says that what is in the buffer for the
  handle `h` and what its device has left are, cell for cell, the records of the names `L`
  of `d` after the first `k`. Opening starts it with `k = 0` (`OpendirListed`), a refill
  keeps it or ends it with `k = Len(L)` (`RefillListed`), and each record returned is the
  next one, wherever the buffer cuts it (`RecordListed`), for any buffer longer than a
  record. Two invariants use it:
  * `LookUpInv`: the names read so far are not the one looked for. So `LookUpFindsHolds`,
    for paths of any length and whatever runs beside it. That `open_extended` does not ask how the
    look-up ended shows `MCRedirector_create.cfg`.
  * `SearchInv`: what a search that nothing disturbs has found is what it should find among
    the names read so far (`Placed`). So `SearchInOrderHolds`, with `~Nested`. `Wanted`, what it
    should find, is a recursive function; that it is defined (`WantedIs`) is proved first.
* `RoutineProofs!ChkFitsByte` and `DamageAlwaysShows`, for buffers of any length: the
  two accumulators of the loop are equal before the damaged byte, different
  after it unless 0 and 255 were exchanged, and `AddByte` keeps different
  accumulators different when the same byte is added to both.
* `RoutineProofs!CksumCounts`, for buffers of any length. `fujicom_cksum` and `Total` are
  recursive functions: that each is defined follows from `SeqLemmas!Recursion`, that a
  recursion over `0..n` has a solution. `Counted` then says of the loop that after `i` bytes
  its accumulator is the operator's and, above zero, the sum of `i` bytes modulo 255, from 1 to 255.
* `RoutineProofs!GivesUpOnTimeHolds`, for every 16-bit timeout and every value of the tick
  counter, as long as midnight does not set it back (`[][tick' >= tick]_waitVars`: at
  midnight its low word falls from 175 to 0, and a wait over it ends at the first tick after it).
  `ClockInv` says that while `port_getc_nobuf` waits interrupts are on and the counter has
  advanced from `to_start` by every tick there was; `Elapsed` that the milliseconds, wrapped to
  16 bits twice, then differ by `waited` ticks of 55 ms modulo 2^16. `TicksAssumption` keeps that below 2^16:
  a wait of more than 65 s, which only a stopped machine could have, would start again from 0.
* `StartupProofs!PortsStayAsAsked` and `InPlaceIsReached`, for all lines of CONFIG.SYS
  that name ports which are there, for both orders, every kind of UART and rate.
  `PortsAsAsked` speaks of the time when DOS runs; the invariant `Inv` follows
  it through `Init_cmd`: the present driver's port is as asked from `port_set` on
  (`MinePrepared`), only between `port_set` and `port_disable_interrupts` may one UART
  interrupt (`IrqsOff`), and a driver that came earlier has its port or was `Spoilt`
  by the present one (`DonePrepared`). `SysAnswered` carries what the disk driver has
  learned from its two calls to the vector.
* `StartupProofs!EnvIsOptionsHolds`, for all lines (`IsLine`) and every size of `config_env`.
  The argument follows `parse_config` in its two passes. The scan, token by token: at each
  place of the line the words read so far are those that start before it, and the last of
  them is the part of its word up to there, or empty behind a blank (`ScansRead`);
  `Rank` counts the starts, so that a start adds a word and nothing else does (`OptionsAre`). The
  stores, option by option: those stored are the first `m`, each with its `=`, up to where
  their lengths add up to (`Ends`), and either nothing has been dropped or the option after them
  had no room and `at` stays at the end of `config_env` (`Filled`, `StoresFill`). `Taken` in the property is that
  sum for the entries that are there, and agrees with `Ends` as far as they go. Both passes
  are recursive functions over `0..n`, defined by `SeqLemmas!Recursion`, and both
  inductions take a least counterexample.
* `StartupProofs!TypeCorrect`, from `Inv`, `PaperInv`, the environments above and what these leave
  open (`Rest`): divisors fit their two registers for every rate, and the UART found is one of `Kinds`.
* `StartupProofs!PaperIsTextHolds`, for every text. `PaperIsText` maps the bytes on the paper
  onto the first `job.at` bytes of the text, or one more when the last answer was lost, never
  backwards (`Echoes`); it is inductive with the types of `PaperInv`, because what DOS sends is the byte
  after those (`LeftFacts`), and that is the last on the paper or the one after it (`EchoMore`).
* `FnshareProofs!ChainStaysResident` and `DrivesAreServed`, for any number of copies,
  other programs, drives and user interrupts. That INT 2F and every
  resident handler lead to a resident one or to DOS is inductive only together
  with the fact that no two of them lead to the same one and none to the one at the
  top: so a handler that goes from the top leaves no way to its memory.
  `DriveHeld` adds that the drives of copies, those being loaded included, are
  distinct and flagged.
* `FnshareProofs!ChainIntactHolds`. The chain is a
  recursive function of `prev`, which says something only if no handler leads back to
  itself. `LinkInv` has a sequence of the resident handlers from DOS's upwards, in
  which each leads to the one below it (`Linked`), and a rank that falls from every
  handler, the gone ones too, to the one it leads to (`NoCircle`); that a handler
  which has not been hooked yet is led to by none (`Fresh`) makes both survive a new one
  on top. `ChainIs` then shows that the chain is that sequence from its top downwards.
* `FnshareProofs!ImplementsStack`, the refinement of `Hooks`. The sequence after a step is the one
  before it with the newcomer at its end, or without its last (`OnTopLink`, `FromTopLinked`), or the
  same; read downwards by `ChainIs` before and after, these are `Hook`, `Unhook` and a stutter
  (`OnTopChain`, `FromTopChain`, `SameChain`). It says more than `ChainIntact`: that nobody changes places.
* `FnshareProofs!TypeCorrect`; that one copy at most is being loaded rests on `AtPrompt` (`Sized`).
* `FnshareProofs!RightCopyAnswersHolds` rests on the chain, too. `Owned` says that an open file and the record of a search
  that goes on have the drive of a copy that is or was resident, and the record of a search
  for a label a number that no find_next is taken for; a copy's drive does not change and
  no other resident copy has it, so that the first one in the chain that takes a call
  is the only one that would.
* `FnshareProofs!ListedAsStoredHolds` and `PathGoesToShareHolds`, for fields of any length,
  all names and every path that fits `temp_path` behind the volume (`PathsAssumption`). Both rest on one fact:
  of a name with one dot that fits the record, `fcbitize`, which searches for the dot, and
  `get_fcbname_from_path`, which copies character by character, make the same record
  (`FcbitizeIs`, `PutIs`), and `fcb_to_path` gets the name back from it if there is no blank in the name
  (`NameBack`; `fujifs_strtok` leaves none, `ListingAssumption`). For paths, `RemoteIs` says
  that the volume put in front loses nothing, and `Mapped` that no copy is there
  without a share's volume.

`Fujicom` takes the checksum that the device sends as a constant, tied to the recursive
function `fujicom_cksum` by `CheckAssumption`; so its proofs need no induction over the
payload. Where a proof needs one over a natural number, it takes the least
counterexample (`SeqLemmas!LeastOf`).

Only model-checked is what needs fairness (`CallReturns` of `Fujicom` and of `Redirector`,
`GetcReturns`, `ProgramsEnd`), which is out of the prover's reach. Every other property of the passing runs is a theorem above.

## 5. Not modelled, and the plan

Not modelled: the interrupt-driven half of `com.c` (ring buffers and
`interrupt_service_routine`), which nothing calls since `port_open` no longer
installs its interrupt routine; INT F5 called from an interrupt handler while a
call waits; console output and register saving; FNSHARE's prompt for the password,
its own stack, and where each version of DOS keeps its structures; `CMD_GETCWD` for a
file opened while its host's device is busy, which `HandlesBack` shows never happens
in `ncopy`; `nc`, `pcom`, `iss`, `fujitime` and `dskread`, straight-line clients of
INT F5 that keep nothing (`iss/map_data.h` is the picture of a map); the
prototypes and hand-run tests `x1`, `x2`, `x3`, `test*.c`.

Next, in this order:

1. An abstract handle table, whose slots are free or owned by one caller, that
   `Fujifs` implements once files are closed as they should be; an abstract listing
   that a single search implements.
2. The ring buffers of `com.c` beside their interrupt routine, should `port_open` install
   it again.

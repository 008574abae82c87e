# A TLA+ model of the NNP network camera

The repository is the firmware of a network camera: an STM32H743 reads frames
from an MT9P031 sensor over DCMI and DMA, keeps them in SDRAM and sends them
as UDP packets when a host asks for one. It runs uC/OS-II and lwIP 1.4.1 on
the ST HAL; those, and the board vendor's drivers, are third-party code. The
camera's own logic is in `USER/main.c`, `HARDWARE/DCMI/dcmi.c`,
`HARDWARE/MT9P031D/MT9P031D.c`, `LWIP/lwip_app`, `MALLOC` and
`HARDWARE/24CXX`. That is modelled here, with the port of lwIP
(`LWIP/arch/sys_arch.c`, `netif/ethernetif.c`, `HARDWARE/LAN8720`) and those
parts of lwIP and the kernel on which the camera's network path stands or
falls.

## The system

| Component | State | Operations | Interacts with |
|---|---|---|---|
| Capture: `dcmi.c`, `jpeg_data_process`, `jpeg_dcmi_rx_callback` | two line buffers, three frame buffers, `currentcatch`, `jpeg_data_len`, `jpeg_data_ok`, bits of DMA1_Stream1 | line interrupt, frame interrupt | shares `currentcatch`, `jpeg_data_ok` and the frames with `imgcamera_task` |
| Sending images: `imgcamera_task` (priority 14) | `GetCatchPos`, packet counter | acknowledge a frame, choose a buffer, send 480, 960 or 2 x height packets and a short one | requests through `jpeg_data_send`, connection through `udp_flag` |
| Commands: `udp_thread` (6), `udp_dataprocess_task` (4), `udp_send_task` (3) | two rings of 60 slots, two semaphores, the line buffer | receive, queue, execute, reply | lwIP's `tcpip_thread` (5) |
| Parameters: the command handlers, `InitCamParaPacket`, `24cxx.c` | `CurrentCamPara`, `StartY240`, 256 EEPROM bytes | load, write defaults, change | the sensor |
| Sensor set-up: `MT9P031_Init`, `cmos_set_*` | the sensor's registers | write, read back, repeat | called by `capcamera_task` (13) and by `udp_dataprocess_task` |
| Memory pools: `malloc.c` | a table of blocks for each pool | allocate, free | everything at start-up |
| Start-up: `main`, `lwip_comm_init`, `LAN8720_Init` | pointers, retry counter | allocate, retry | the pools, the network link |
| Ethernet driver: `ethernetif.c`, `ETH_IRQHandler` | receive descriptors, `current_pbuf_idx`, custom pbufs | take a frame, pass it on, give the descriptor back | the DMA, the mailbox of `tcpip_thread` |
| lwIP: `tcpip_thread` (5), the netconn API | mailboxes, pools of netbufs and messages, `op_completed` | handle a packet, handle a call | driver, `udp_thread`, `udp_send_task`, `imgcamera_task` |
| lwIP timers and ARP cache, `sys_arch.c` | the list `next_timeout`, `OSTime`, `arp_table` | wait, expire, age, look up, learn | the kernel's tick, everything that sends |

What is hard to get right here, and what each component owes:

* Interrupts against the sending task. Nothing locks the frame buffers. A
  capture must never write to the frame that is being sent, and an image must
  be one frame, although `currentcatch` moves on while it is read and sending
  an image takes longer than several frames.
* Tasks against tasks. The rings have no locks; writes to `netrecv` are made
  with interrupts off, and everything else rests on the fixed priorities. The
  rings must behave as bounded queues all the same.
* Waiting. Capturing waits for `imgcamera_task`, which waits for lwIP; the
  tasks wait for semaphores that saturate. Requests, commands and replies must
  get through.
* Power and links that fail. The EEPROM is written byte by byte; start-up
  allocates, fails and starts again.
* The sensor's bus may lose transfers, and two tasks use it.
* Frames. The driver gives a buffer back to the DMA while the frame in it is
  still queued, clears a flag that may stand for two frames, and every pool on
  the way is small. Two tasks send through one connection.
* Time. lwIP knows only the waits that the port reports to it, in 32 bits and
  with a rounding error for every message; addresses age on that clock.

`PROJECT.json` lists the hazards one by one, at the line where each bites,
with the properties that cover it.

## Modules

| Module | Models |
|---|---|
| `CaptureRing` | capture and sending of images |
| `MCCaptureRing` | its instances |
| `CaptureRingProofs` | its theorems |
| `MsgQueue` | what a ring promises: a bounded queue (abstract) |
| `CmdFifo` | the command path; refines `MsgQueue` twice |
| `CmdFifoProofs` | its theorems |
| `Malloc` | the memory pools, as operators on a table and the set of live allocations |
| `Boot`, `MCBoot` | start-up on top of `Malloc` |
| `BootProofs` | the theorems about start-up and the pools |
| `CamParam`, `MCCamParam` | parameters, EEPROM, sensor registers, power failures |
| `CamParamProofs` | its theorems |
| `Timers` | lwIP's timer list and the waits of `sys_arch_mbox_fetch` |
| `TimersProofs` | lemmas about the timer list, for the next two |
| `TimerLaws` | what that clock promises: `Timers` with one timer observed |
| `TimerLawsProofs` | its theorems |
| `Etharp`, `MCEtharp` | the ARP cache on the clock of `Timers` |
| `EtharpProofs` | its theorems |
| `NetPath` | a packet's way from the DMA through lwIP to the tasks, and back to lwIP |
| `NetPathProofs` | its theorems |

Definitions whose names end in `_Something` and whose comment begins with
"Fault:" are wrong variants of the definition that follows them. No
specification uses them; they show which mistakes the properties detect.

### CaptureRing

A word of memory is a pair of the frame it was exposed in and its place in
that frame, so that mixed, torn or shifted images show. The two interrupts
have the same pre-emption priority and each handler is one step, taken between
any two steps of the task. `SensorWords` and `SensorFrameEnd` are the hardware:
words are delivered until a line buffer is full or the frame ends, and a line
takes longer than a handler, so no flag is pending when the next one is
raised. `CloseFrame`, `RestartCapture` and `SkipFrame` are the branches of
`jpeg_data_process`. Stopping the stream raises its transfer-complete flag, as
the reference manual of the stream says, so that one more line is copied
behind the frame; `jpeg_data_len` is not checked by the code and
`CopyInBuffer` shows that it stays within the buffer. `imgcamera_task` reads
the volatile `currentcatch` once for each comparison, and so does the model
(`ImgPos`). Whether clearing EN also flips the bit CT nothing in the repository
says, so it may or may not (`AfterStop`): the whole lines of a frame are right
either way, the last partial line is not (see Findings).

### CmdFifo

The ring functions are modelled statement by statement. `Runs(t)` is the
scheduler: a task takes a step while it is ready and no more urgent task is.
Interrupts are off while `udp_thread` walks along the pbufs of a datagram
(lwIP chains them when it reassembles fragments), hence `udp = "walk"`. A
packet is as many of the line buffer's cells as it fills, from none to too many:
the two bytes of the head, and the event. `LineAfter` is what the line buffer
then holds, so that a packet of no or one byte leaves the rest of an earlier
one. Events that only differ in which parameters they change are one event,
`SET_PARA`, and those that also set the shutter another, `SET_SHUTTER`: behind
the save the task writes, waits and reads back (`"shutter"`, `"readback"`) until
the sensor has the value, which it need never have.

`RecvQueue` and `SendQueue` instantiate `MsgQueue` with the unread slots as
the queue. A position that is about to wrap stands for 0, and a reply enters
the queue only when its last byte is copied; until then the queue is seen
through `temp`.

### Malloc and Boot

`live` records what was handed out and not given back; it is not in the code.
`Boot` steps through `main`: parameters, buffers, stacks, link. The lengths of
the pools range over a set, so that every allocation can be the one that
fails. The three frame buffers are not tested by the code (`Unchecked`).

### CamParam

`todo` holds what is left of `InitCamParaPacket` or of the current command:
bytes to store and calls of `cmos_set_Shutter`. Each byte is a step, since
the task sleeps for 10 ms after it. `PowerFail` is possible in every state.
`own` records which addresses the program has written. All keys but one are
written with their default; `status` is loaded, but cleared in RAM alone
(`StatusCleared`), and `Written` leaves it out where a property is about what was
saved. `cmos_rset` may be lost and `cmos_rget` may fail if `Lossy`.
`PairsBounded` is about the bytes of a pair that are read, or saved, one before the other: the pair may be one that
nobody set and exceed its limit, but by less than 256. For the AOI this means
that up to 255 rows behind the frame's last one may be sent.

### Timers, TimerLaws

The list is a sequence of handlers and differences. `Fetch`, `OSQPend`, `Got`
and `Expire` are the stages of `sys_timeouts_mbox_fetch` and
`sys_arch_mbox_fetch`; the tick and posts come between any two. A constant
`U32` takes the place of 2^32, so that `OSTime` overflows in the runs. `Lag`
bounds the ticks by which `tcpip_thread` is delayed by more urgent tasks
during a wait, `MboxBound` the messages that wait. `hurried` records whether a
message was ever fetched in the tick in which the wait began: then the port
reports 0xffffffff ticks (`sys_arch.c:130`) and the first timer expires at once.

`TimerLaws` counts what was really waited for one timer (`counted`) and the
ticks and messages since it was armed (`spent`). One millisecond too much for
each message looks like an error and is what keeps the timers going: with
exact times a dense stream of messages stops them (mutant `Elapsed_Exact` of
`TimersFire`).

### Etharp

`etharp_find_entry`, ageing, output with its repeated request, and updates
from ARP frames. The queue of an entry holds one packet (`ARP_QUEUEING` is 0).
What a message of the mailbox is about shows when it is handled. Where the heap
or a pool may fail, it may: a request is then not sent and its entry not marked,
or a packet is not copied and its entry is pending without one. Left out: the
cached index `etharp_cached_entry`, which only saves a search; static entries
(not compiled in).

### NetPath

A reference to a frame is its custom pbuf, its buffer and whether both are
still those of the frame: the DMA that fills the buffer again, the driver that
hands out the pbuf again and a `pbuf_free` through another reference end that.
The interrupt handler is two steps, since a frame may come between taking one
and clearing the flag. Netbufs and messages are counted where they are held.
A call of `netconn_send` goes through `apimsg` (posted), `sem`, `wait` and
`return`; its message is `live` until the call returns. The rings and
`udp_dataprocess_task` are those of `CmdFifo`, reduced to how much waits in
them and to what the task waits for: the EEPROM, or the sensor, whose shutter is
written until it reads back. A request for an image of a mode that
`imgcamera_task` does not know stands for ever (`"stuck"`). `fault` is set when
a task uses a netbuf that it did not get, or `tcpip_thread` a message that is
gone; the model stops there.

`polite` records whether the host has so far sent only to a camera that had
nothing to do. For such a host `PoliteSafe` holds; without that condition each
part of it can be violated (see Findings). `Served` asks two things more, both
in its statement: that the host asks only for images of the three modes
(`ModesKnown`), and that the sensor does not refuse its shutter for ever
(`SensorAnswers`).

## Runs

| Run | Instance | Result |
|---|---|---|
| `capture_ring` | frames of 5 words in lines of 2: two full lines and a remainder; 3 buffers; frame numbers up to 8 | all safety properties hold |
| `capture_live` | frames of one line, without frame numbers (`U32 = 1`), all modes and an unknown one | requests served, capture resumes |
| `capture_wedge` | with data2 = 2 | violated: the request is pending for ever |
| `cmd_fifo` | rings of 2 slots, semaphores up to 2, packets of every length, commands with and without a reply, a sensor that may refuse | both rings are queues; no message stranded; replies fit and are taken; commands are taken if the sensor answers |
| `boot` | 16 combinations of pool sizes | tables sound, buffers held |
| `boot_leak` | pools with room for three rounds | violated: stacks are lost in each round |
| `params` | bytes of 3 values, lossy bus, power failures | RAM, EEPROM and sensor agree, `status` and a new id apart; pairs bounded |
| `shutter_race` | commands during sensor set-up | violated: the old exposure is put back |
| `timers` | intervals of 4 and 7 ticks, `U32 = 18` | timers armed, in time, and firing for ever |
| `arp` | 3 hosts for 2 entries, entries that live 3 rounds of the timer, failing requests and copies | table sound; recycling gives up the entry that costs least |
| `net` | 2 descriptors, 1 message, 2 netbufs, rings of 2, images of 3 packets | mailboxes never full; ring in order; a polite host is safe, and served if the sensor answers and the modes are known |
| `net_shared` | 2 messages, rings of 3 | violated: a call returns while its message is queued |

Bounds. Three frame buffers are the code's own number; two lines and a
remainder make every branch of the copy happen; eight frames let the ring come
around while an image is sent (`FirstFrames`). A ring of two slots holds one
message, so it is empty or full, and wraps at every second one; the semaphore's
limit is one more than that place, so that it is reached and an empty ring of
commands is read too. Longer rings, with several messages in order, and a ring
of replies that runs full are left to the theorems, which hold for any sizes.
The live run of `CaptureRing` has frames of one line, since what the frames hold
does not matter to it. With three values in a byte either byte of a pair may
change alone, and the third value is that of an erased chip. What
the runs show for these instances the theorems show for all, where there is
one. `timers` has intervals that are no multiples of each other and an
overflow of `OSTime` after two of them, so that each timer is inserted before and
behind the other and waits run across the overflow. In `arp` the table is
smaller than the number of hosts, an entry is asked for again two rounds before
it expires, and `Others` is a symmetry because no property names these hosts.
In `net`, two descriptors are the least with which a frame can wait behind
another (the build has four), `MEMP_NUM_NETBUF` is the build's own 2, and the
mailboxes (20 places in the build) have four: one for a packet, two for the calls
of the two tasks, and the one to spare that `NetAssumption` asks for. Three packets
make an image of lines with a shared netbuf, a line with its own and the short
packet. `Served` speaks of polite hosts, and with those the camera never does
two things at once, so that larger pools add nothing to it. Deadlock is checked
in every run but those of `NetPath`, where a fault stops the model.

Fairness. In `CaptureRing` the sensor never stops, pending interrupts are
taken and the least urgent task runs whenever the others wait, which they do
because each handles a packet in far less time than packets need to arrive.
Requests, connections and their loss are not fair. In `CmdFifo` a ready task
runs (weak fairness). Two conditions are strong: the tick that ends a delay
is only postponed while interrupts are off, and `tcpip_thread`, which is
ready whenever a task waits for it, gets the processor during the pauses of
`udp_dataprocess_task`, each far longer than it needs. `udp_thread` need not
receive anything, but a datagram ends. That the sensor ever reads back its
shutter is no fairness the code could justify: nothing bounds the loops of
`cmos_set_Shutter`. It is a hypothesis, `SensorAnswers`, in the statements of
`CommandTaken` and `Served`; `ReplyTaken` does without. In `Boot`, `main` is the only thread.
In `TimerLaws` the tick and `tcpip_thread` are weakly fair; messages are not.
In `NetPath` interrupts are taken and each task that has the processor goes on
(weak fairness); frames need not arrive.

## Proofs

Every invariant and every action property that a run checks is proved with
TLAPS for all values of the constants that satisfy the named assumptions:

| Assumption | Says | In the code |
|---|---|---|
| `CaptureAssumption` | a frame fills at least one line; a frame and a line fit a buffer | sizes in `main.c`, `dcmi.c` |
| `FifoAssumption` | rings of two slots or more, semaphores that can count them | 60 slots, counts up to 65535 |
| `MallocAssumption` | lengths of tables are numbers, blocks are not empty | `malloc.h` |
| `BootAssumption` | there are buffers and stacks, each in a pool and with a pointer of its own | `netmem_malloc`, `lwip_comm_mem_malloc` |
| `ParamAssumption` | an erased byte is not the marker, and the defaults are within the limits that commands are held to | `InitCamParaPacket`, the handlers |
| `TimersAssumption` | one pool element for each timer, and the longest wait fits 32 bits, in milliseconds times 1000 too | `opt.h`, `sys_arch.c` |
| `EtharpAssumption` | a table that is not empty, ages that are numbers | `etharp.c` |
| `NetAssumption`, `NoneAssumption` | a mailbox has more places than there are packets and two calls, and more than there are netbufs; `NONE` is no message | 20 > 8 + 2, 20 > 2 |

Four theorems have a hypothesis of their own. `TimersAreNotLate` and
`TimersAreNotEarly` assume `MSEC = OS_TICKS_PER_SEC`, both 1000 here
(`os_cfg.h:51`): with longer ticks the conversions round. `PoliteIsSafe`
assumes two netbufs or more (`opt.h:324`), since `udp_thread` may still
hold one when the reply needs another. `SensorAgrees` assumes that no command
comes during sensor set-up; `shutter_race` shows what happens otherwise.

`CaptureRingProofs`. The properties are not inductive: that the sent buffer is
not overwritten depends on where the capture stands when `currentcatch` is
read. `Inv` adds to `TypeOK`

* `StreamInv`: the stream runs exactly while a frame is open, and
  `jpeg_data_len`, the open line buffer and a pending line add up to the words
  delivered; after the frame is closed at most one more line is copied;
* `PosInv`: `GetCatchPos` lags `currentcatch` by one unless a frame was
  closed since, and then capturing waits for the task.

`CopyBounded`, `NeverUnderCapture` and `NeverOverwritten` follow. `ContentInv`
then describes what the buffers hold (`WholeFrame` for closed frames,
`OpenFrame` for the one under capture), which gives `ImagesWhole` and
`ImagesUniform`, whatever CT does when the stream is stopped. `WindowInv` (a
request in progress keeps its mode) gives `ImagesInFrame`.

`CmdFifoProofs`. `WriteInv` says that a reply is being written only while the
send task is not ready, and that `udp_thread` is not amid a datagram while a
command is read: the priorities do the locking. Four lemmas about `Unread`
(it is a sequence; a put appends; a get takes the head; a slot aside does not
matter) carry `RecvImplements` and `SendImplements`. `NothingStranded` adds
that each unread message has a post. The proofs up to here hold for rings of
any two sizes, also for a ring of replies that runs full. `RepliesFit` needs
all of the above and a count over both rings, `Budget`: the commands and
replies in the camera never exceed a full ring of commands and the one that
is handled, because `udp_thread` runs only when no reply waits
(`UdpSeesNoReply`: the other tasks are not ready, so the semaphore of the
replies is 0, so by `NoneStranded` their ring is empty).

`BootProofs`. `MemInv` is about the pools: the lemmas on `mymalloc` and `myfree`
show that a run of free blocks is taken, or none, and that freeing what is
live clears exactly its blocks. Whether `main` frees only what is live depends
on where it is: `Mine` is the set of buffers whose pointers are up to date at
each stage, and `OwnInv` says that each of them is NULL or leads to an
allocation of its size, no two to the same. It has to be a set that changes,
because pointers keep their values after `myfree`. `FoundInv` carries the
results of the tests to the start of the tasks.

`CamParamProofs`. `todo` makes the invariants look ahead. `MarkerInv`: the
marker is written when every other key but `status` has been written or will be
before it. `SavedInv`: a value that differs from the EEPROM's is about to be
written, `status` again excepted.
`FitsInv`: what was and what will be written passes the checks of the next
load, the high byte of a pair by itself; this is why a half-written pair is
wrong by less than the values of one byte. All of these are kept by a power
failure, which empties `todo` and forgets the RAM. Commands are dealt with
once, by what is common to their operations (`Proper`). For `SensorAgrees`,
`SensorInv` says that any operation that sets the shutter sets it to the
exposure that the parameters then have (`Follows`, by way of the saves before
it in the list).

`TimersProofs`, `TimerLawsProofs`. `Armed` says that the list has exactly two
entries, of different handlers. `sys_timeout` sums differences with a
recursive function; it is only called with lists of at most one entry, for
which two lemmas compute its result. `ClockInv` relates the ticks that `OSQPend` has counted to
those by which `OSTime` has advanced, across its overflow. `LateInv` and
`EarlyInv` then say, stage by stage, how much of what was waited is still to
be taken off the observed timer's time.

`EtharpProofs`. The types are those of the clock and the table. `TableSound`
is inductive with them: an address that is in the table is found
(`FindMatching`), so an entry is never put beside another for its address; a
pending entry without a packet is allowed for. `RecyclingSpares` goes through the
order in which `etharp_find_entry` looks for an entry; the oldest of a set of
entries exists by the minimum of a well-founded order.

`NetPathProofs`. Besides the types, `RingInv` says that the descriptors that
hold a frame are the n from `CurRxDesc` on, for some n, and that the DMA comes
next; the number that `DescriptorsInOrder` counts is obtained from it by a
bijection. `PoolInv` bounds the packets and netbufs in use by their pools, and
the calls in the mailbox and the counts of the semaphore, together, by the
tasks that wait for an answer. That sum is what survives a task taking the
answer meant for the other, and it is at most two, so mailboxes have room in
every state. `PoliteInv` describes the camera of a polite host: either one
frame is on its way to `udp_thread` and everything else is at rest
(`Arriving`), or the frame is delivered and one job is under way (`Working`),
beside which at most the last byte of a command is saved.

TLC finds each of these invariants to hold on the instance of its run, too.

Only model-checked: what must eventually happen (`RequestServed`,
`CaptureResumes`, `CommandTaken`, `ReplyTaken`, `TimersFire`, `Served`), since
the prover does not deal with fairness. The violation runs are counterexamples,
which need no proof.

## Findings

With a run that shows it:

* A request with an unknown mode blocks images for good (`MT9P031D.c:585`).
* Each failed round of `lwip_comm_init` loses both stacks; after 28 rounds
  without a link the camera cannot start any more (`lwip_comm.c:135`). The
  error codes it returns are 2, 3 and 4, its header comment says 1, 2 and 3.
* A new exposure that arrives during sensor set-up may be overwritten by the
  old one (`MT9P031D.c:115`); with the two tasks in step, 5 ms apart, neither
  of them may ever finish.
* `udp_send_task` and `imgcamera_task` send through one connection and share
  its semaphore (`tcpip.c:318`). A reply sent during an image may take the signal
  meant for `imgcamera_task`; the call returns, its netbuf is deleted, and
  `tcpip_thread` handles a message that is gone.

Met while modelling; the model has each of them, and the properties are stated
with the condition that sets it apart:

* The remainder of a frame is read from the line buffer that the comments do
  not name (`main.c:148`). It is the right one only if clearing EN flips CT,
  which nothing in the repository says; `ImageWhole` is about the whole lines.
* A packet of no bytes or of too many queues the command that an earlier packet
  left in the line buffer, and a single byte 0xAA may complete a head that nobody
  sent, although the code calls the packet correct (`udp_demo.c:236`, `240`).
* `status` is loaded from an address that nothing writes (`udp_demo.c:684`), while
  the comment at line 700 says that the defaults are written. `MarkerLast` and
  `LiveIsSaved` name it as their exception.
* "the time an ARP entry stays valid ... 20 minutes" (`etharp.c:75`) does not hold
  when messages are fetched in the tick in which the wait began, which counts as
  4294967 ms (`sys_arch.c:130`). Hence `~hurried` in `NotEarly`.
* `cmos_set_Shutter` loops until the sensor reads back the value
  (`MT9P031D.c:115`, `125`), in the task that takes the commands; a sensor that is
  gone stops the camera from taking any (`CommandTaken` and `Served` without
  `SensorAnswers`).
* Two commands in quick succession hold both netbufs, and `udp_send_task` uses
  the NULL that `netbuf_new` returns (`udp_demo.c:299`); `netbuf.c:53` says
  "NULL on lack of memory" (`PoliteSafe` without `polite`).
* The receive flag is cleared after one frame (`lan8720.c:149`). Each frame that
  comes during the handler leaves one more in the descriptors, and when all
  are full nothing raises an interrupt again: reception stops for good
  (`Served` without `polite`).
* A frame that is queued is overwritten after as many further frames as there
  are descriptors: its descriptor is given back before it is processed
  (`ethernetif.c:182`), while the comment at `stm32h7xx_hal_eth.c:1105` says "It
  should be called after processing the received Packet".
* No mailbox is ever full (`MailboxesOpen`), so the branches of `udp_thread` and
  `udp_send_task` that close the connection are not reached through
  `sys_mbox_valid`.

## Not modelled

* Transmission below lwIP. `low_level_output` ignores the result of
  `HAL_ETH_Transmit`, so that a frame is lost when all descriptors are in use,
  and the DMA reads the buffer after the call has returned. Whether that
  matters depends on the time for a frame against that for a copy, which the
  model does not have.
* IP, UDP, ICMP and reassembly in lwIP: a packet is for the connection or not.
  TCP, DNS, SNMP, DHCP and AUTOIP, which this build does not use;
  `sys_untimeout`, which nobody calls; exhaustion of lwIP's heap, except where the
  ARP cache meets it.
* The rest of the HAL (most of the repository's lines), CMSIS and the kernel;
  drivers for display, clock, keys, LEDs, SDRAM, RTC and the port expander:
  register writes without a protocol between them.
* The USMART console; pin timing of the two serial buses; conversion of
  pixels, which nobody calls; caches; the contents of packet headers.

## Plan

Done: capture and command path, start-up, parameters, the lwIP port, timers,
ARP and the path of packets, with proofs of all their safety properties. Left,
in this order:

1. `mymalloc` and `myfree` as a refinement of an abstract allocator.
2. SCCB transfers in two halves, for the pre-emption of one by another
   (`MT9P031D.c:28`).
3. The short packet's frame number against that of the image
   (`MT9P031D.c:512`).

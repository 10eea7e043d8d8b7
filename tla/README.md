# A formal model of the PK8000 on the Tang Nano 20K

This directory holds a TLA+ model of the PK8000 "Сура" computer of this repository: the
Verilog under `tang/src`, and the firmware of the companion MCU under `mnano`. Five parts in which
several actors meet are modelled: the path from the machine's drives to the SD card; the machine's
memory, which the CPU, the video, the refresh and a self-test share by the clock; the way of a key from
a USB device into the machine or the menu; what the menu sets going, images and programs loaded
into the running machine by two tasks and the FPGA; and two drives, the tape and the hard disk, whose
images are read, written and replaced while they play and work.

The firmware that is shipped is built from `../tang-ultima` (`src/README.md:5-26`), which is not here; the C files of `mnano` are what this
repository keeps of it, "historical references", and the firmware modelled is theirs.

- `tlc -config X.cfg M` checks the run `X` (the module of each run is in the table below),
- `tlapm M.tla` checks the proofs of each of the eight modules `*Proofs`,
- `PROJECT.json` lists the components, the runs, for every definition the lines it models, and
  for every property a broken form of the code that it must reject.

## 1. The system

The FPGA holds the computer (an 8080 core, its video, ports, tape, floppy, hard disk, ROM disk)
and the modules that talk to the MCU over SPI. The MCU (FreeRTOS) owns the file system on the SD
card, the OSD and the USB and Bluetooth devices. The card itself hangs on the FPGA: the MCU reads
it through `sd_card.v`, and the machine reads image files through it too, with the MCU translating
a sector of an image into a sector of the card.

| component | source | state | operations | what makes it correct |
|---|---|---|---|---|
| SD arbiter | `pk8000/sd_arbiter.v` | state, owner, latched direction and sector, request levels, done | grant, show, transfer, done | one owner; the lease is frozen; done to its owner |
| SD host | `mister/sd_rw.v`, `sdcmd_ctrl.v` | command and data state machines, card type, address, retries | initialise, read, write, retry | rdone after a whole sector; right unit; answers |
| SD card front end | `mister/sd_card.v`, `sector_dpram.v` | command, byte counter, levels, buffer, who the sector is for, interrupt | STATUS, CORE_RW, MCU_READ, INSERTED, MCU_WRITE | bytes to their owner; no request lost |
| SPI link | `mister/mcu_spi.v` | shift registers, strobes | a byte to one of five targets | one strobe a byte |
| system control | `mister/sysctrl.v` | config values, interrupt acknowledge, cold boot | CMD 0..7, 9 | no event lost between acknowledge and pending word |
| SD service | `mnano/sdc.c` | lock, open images, cluster tables | sector read/write, event, open, insert | the sector served is the one asked for, of the image mounted |
| SPI task, bus lock | `mnano/spi.c`, `sysctrl.c`, `main.c` | semaphores, event queue | wake, dispatch | no deadlock between bus, lock and priorities |
| tape, floppy, IDE, ROM disk | `pk8000/tape.v`, `fdc.v`, `ide.v`, `romdisk.v` | request level, buffer, position | play/record, sector commands, load, mount | done belongs to the present request, also over a remount or reset |
| poke queue, BASIC loader | `pk8000/poke.v`, `mnano/bas.c` | 16 entries | enqueue, write in a free CPU slot | every byte, in order, once |
| keyboard and HID | `mister/hid.v`, `mnano/usb_host.c`, `hidparser.c`, `bt_ble.c`, `pk8000/ports.v` | last report, matrix, joystick map, mouse counters | attach, report, detach, OSD key | a key down in the matrix is down on the keyboard |
| OSD menu | `mnano/menu.c`, `osd_u8g2.c`, `mister/osd_u8g2.v` | form, file list, settings | keys, select, mount, save | settings and what the core was told agree |
| SDRAM | `pk8000/sdram.v`, `memcheck.v` | slot clock, refresh due, self-test | video, refresh and CPU slots | refresh is never starved, every access finds its row, reads give the last write |
| CPU and waits | `pk8000/cpu8080.v`, `waits_rom.v` | T-state, wait counter | machine cycles | waits of the original machine |
| video, HDMI, sound | `pk8000/video.v`, `hdmi/*`, `ay.v`, `i2s_tx.v` | counters, line buffers | fetch, shift | fixed timing |
| flash writer, core loader | `mister/flashwr.v`, `coreload.v` | command sequence | erase, program, reload | never reloads half a core |
| top level | `top.v` | resets, memory map | | who holds the CPU while loading |

Third-party (`vm80a.v`, `wd1793.sv`, `ym2149.sv`, `u8g2`) and generated parts (`*_rom.v`, the Gowin
IP) are outside the model; `sim/` and `tools/` are benches and offline converters.

**How they interact on the SD path.** A drive raises a level `rd` or `wr` with a sector of its
image. The arbiter grants the lowest number and shows the request to `sd_card.v`, whose interrupt
wakes `spi_task`. The task acknowledges the interrupt (`sysctrl.v`), reads the mask of requesters
and the sector (STATUS), takes the file system's lock, looks up the sector of the card in the
image's cluster table and starts the transfer (CORE_RW), polling until it is over. `sd_rw.v` moves
the sector, the bytes go to the owner (or come from it), and `rdone` ends the lease and tells the
client. Meanwhile the OSD's task, of a lower priority, reads and writes files for itself with
MCU_READ and MCU_WRITE, under the same lock, and with the same `sd_rw.v` and its `rbusy` and `rdone`.

**How they interact on the memory.** `sdram.v` has no arbiter: a T-state is twelve clocks, six for
the video or a refresh and six for the CPU (or, before it runs, the self-test). `video.v` asks for a
tile's name, pattern and colour in the T-states of the period before the tile is shown, each by a
pulse on the one clock on which the controller looks; nobody waits and nobody is told no. What makes
that right is counting alone, in four counters that never meet: `tphase`, `hcnt`, the fetch's T-state
and the display's pixel.

**How they interact on the way of a key.** The USB stack's hub task calls `usbh_hid_run` when a device
comes and `usbh_hid_stop` when it has gone, and frees the device's class when that returns. Each
device has a client thread, which submits a URB with a timeout, and on a report calls `kbd_parse`. This
compares the report with the last one and sends each key that changed to the core (`hid.v`, the matrix
of `ports.v`), or, if the OSD is visible at that moment, puts an event into the queue of the OSD's task,
which shows and hides the OSD, and moves and selects in the menu.

**How they interact on loading.** An entry selected in the menu opens a form, a text or a file
selector; a file selected is mounted (`sdc_image_open`: eject, lock, open, unlock, insert), or, if it is a
BASIC program, poked into memory (`bas_run`, which keeps the lock for seconds). A ROM image that is inserted is
copied by `romdisk.v` into the SDRAM a sector at a time through the SD path, with the CPU in reset; it
owns the CPU's port of the SDRAM meanwhile, and the poke queue of `poke.v` is held.

**How they interact on a drive.** The tape and the hard disk ask for a sector at a time, the tape for one
ahead of what it plays, the disk for each sector of a command. Both are told of a new image, or none, by a pulse that comes
whenever the OSD's task gets to it, with a request shown, a sector moving or a command half done. The tape
starts all over then; the disk looks at the image only when a command is given. The machine's reset clears the
disk, not the tape.

**What is hard here.** On the SD path, four state machines and two tasks of different priority share one card
without knowing of each other: the arbiter sees only `rbusy` and `rdone`, which do not say whose
transfer they belong to; the MCU's answers are one byte old; the lock lies with the MCU and the
transfers with the FPGA; the timeouts of `sd_rw.v` restart a transfer half way through its state
machine. A new image may be mounted while the old one is being copied. The parser of a keyboard looks at
the OSD again for every key, and the OSD changes between two looks; a device may go in any state of its
thread. A drive forgets a request that the arbiter does not forget. `PROJECT.json` lists the hazards, each at its line.

## 2. The modules

| module | models | uses |
|---|---|---|
| `PathLease` | the abstract promise of the arbiter: a lease for one job, reported once | |
| `SdArbiter` | `sd_arbiter.v`, clock by clock, with free inputs | refines `PathLease` |
| `SdArbiterProofs` | the theorems of the arbiter | `SdArbiter` |
| `SdRw` | `sd_rw.v` and `sdcmd_ctrl.v`: `CommandClock` and `DataClock`, the two `always` blocks | |
| `SdTransfer` | `sd_rw.v` with requests in front of it and a card that fails sometimes | `SdRw` |
| `SdTransferProofs` | what `rdone` means, and the unit of the address | `SdTransfer` |
| `SdCard` | `sd_card.v`: `CardClock`, one clock of its registers by groups | |
| `SdPath` | drives, arbiter, front end, host, `spi_task` and the OSD's task | `SdArbiter`, `SdCard`, `SdRw` by INSTANCE |
| `SdPathProofs` | the six safety theorems of the whole path | `SdPath` |
| `Sdram` | `sdram.v`, clock by clock, and the chip behind it (`sim/stubs/sdram_model.v`) | |
| `Video` | `video.v`: fetch, hand-over and the tile shown; the raster of `top.v` | |
| `Screen` | `video.v` and the CPU on `sdram.v`, as `top.v` joins them | extends `Sdram`, `Video` |
| `SdramProofs` | the theorems about rows, self-test, memory, picture and refresh | `Screen` |
| `Usb` | `usb_host.c`: the hub task, the client threads and their waits, in ticks | |
| `Keyboard` | `kbd_parse` and the OSD's task, the queue between them, the matrix | extends `Usb`; implements it |
| `InputProofs` | the theorems about the devices, their threads and the keys | `Keyboard` |
| `Menu` | `menu.c`: forms, file selector, texts, scrolling; a step is an event of `menu_do` | |
| `PokeQueue` | the abstract promise of the poke queue: a bounded queue | |
| `Poke` | `poke.v`, clock by clock | refines `PokeQueue` |
| `RomDisk` | `romdisk.v`: the branches of its `always` | |
| `SdService` | `spi_task` and `sdc_handle_event` against the arbiter's lease of one drive | |
| `Loader` | the OSD's task in menu, mount, directory and `bas_run`; `spi_task`; both ports of memory | extends `Menu`, `Poke`, `RomDisk`, `SdService` |
| `LoaderProofs` | the theorems of `Menu` and `Poke`, that `Loader` implements both, and that what is loaded is whole | `Loader` |
| `OsdJobs` | what the OSD's task does to any drive: `sdc_image_open`, reading under the lock, a reset | extends `SdService` |
| `Tape` | `tape.v`: the buffer and the player, its two `always` blocks | |
| `TapeDeck` | the tape with the firmware behind it; what a file should sound like | extends `Tape`, `OsdJobs` |
| `TapeDeckProofs` | the theorems about the buffer and about what is heard | `TapeDeck` |
| `Ide` | `ide.v`: commands, words, sector transfers, resets | |
| `HardDisk` | the disk with its software, the firmware and the bytes on the card | extends `Ide`, `OsdJobs` |
| `HardDiskProofs` | the theorems about what the disk reads and writes | `Drives` |
| `Drives` | either drive in use, served by the same firmware | extends `TapeDeck`, `HardDisk` |
| `MC*` | the instances that TLC checks | |

A step of `SdArbiter`, `SdRw`, `SdCard`, `SdPath`, `Sdram`, `Video` and `Screen` is one clock of the FPGA. In `SdPath` all Verilog modules move together,
each from the others' registers before the clock; a task may finish one SPI byte or take one
semaphore in a clock. The registers keep their names; where two modules have a register of the same
name the one in `SdPath` carries a prefix (`arb_state`, `a_rstart`, `louten`). Verilog's "the last
assignment wins" is followed: in `LevelClock` a level set in the clock of `rdone` stays set; in
`IrqClock` the acknowledge beats the edge.

**Abstractions.** A sector is `Beats` beats (512 bytes), a beat's content is the sector and the place
it belongs to, a sector number and an image size pass as one SPI byte instead of four; a command on
the SD bus is one run and one reply; the CRC, which the code receives and never looks at, and the
write acknowledge token likewise, pass with the state before them; timeouts may happen whenever the
card has not answered, instead of after 250 or 1000001 clocks. In `SdPath` the card is ready and
well, the images are selected, a peripheral does not give up a request (no remount, no reset), and
no two files share a sector. Who uses the path is chosen once, as one of `Mixes`: which clients, for which
sectors, and which of its three operations the OSD's task does. A peripheral there is any client of the protocol in the header of
`sd_arbiter.v`, with the handshake of `romdisk.v`: level up with a sector, down on ack, at work
until done. The FPGA's power-on reset is modelled for the arbiter only.

In `Screen` a byte of the screen's tables is the address it lies at, so that a tile on the display says
where it was read; the tables are not written, the third of the screen that mode 2 adds to a pattern's
address is left out, and a table is one row of the chip. The CPU is any program: in a T-state it reads
or writes a cell, sets the mode, or does nothing; it runs from the end of the self-test on, which
`top.v` makes sure of by 280 ms of reset. When a word is on the bus is a property of the chip
and the pads (`pads`: on time, a clock late, or never), chosen once. The PLL does not lose its lock.

In `Usb` time passes in ticks, only when no task can take a step, and only three waits take any: a URB
(1000 ms), a control transfer with the 10 ms after an error (510 ms) and the wait of `usbh_hid_stop`
(1200 ms). The callback's semaphore is folded into the end of its URB. Of `Keyboard`'s parser each look at
`osd_is_visible()` and each SPI transaction is a step; the report is two keys of six and one modifier of
eight, and a joystick's report is the byte that shares its place in the union with the modifiers. Mice and
the joysticks' levels go straight to registers and are left out, as are xbox pads and Bluetooth.
`excused` is the history of keys that were down while the OSD was visible.

In `Menu` an action is an event with the drawing after it, for the drawing counts the entries and scrolls.
Labels, values and names are left out: a directory is its length, and the entry the selector jumps to
may be any. `OneOpener` says what the forms of the source keep: a submenu is opened by one entry of its
parent. In `Loader` a sector of an image is the image and the number, and the arbiter's lease is free,
shown or moving; that `sd_card.v` and `sd_rw.v` do such a lease right is `SdPath`'s matter. A directory or
a file is read in one step that may or may not take a request the arbiter shows (FatFs may have the sector),
which is the false done of finding 3; `torn` is the history of it. `sdc_readdir` looks for the core's folder without the lock (`LooksForFolder`), and
a directory that cannot be opened is read for ever with it (`ListFails`, `AppendsForever`; until `malloc` fails, where `append` ends the firmware another way). `spi_task` has the higher priority: the
OSD's steps have the guard `~TaskReady`. Values that are dead are blanked (the sector numbers of a task
that sleeps, a cell of the ring whose entry was taken, the ROM's bytes at a mount) so that no property can rest on them.

In `Tape` a half-period of the signal is a step, and so is the silence before a header; the looking for a header goes
clock by clock, since there `rbyte` lags. A file is bytes, a byte its bits, and every aligned `Magic` in it a
header. `heard` is the history of what the tape said: `Recorded` says from the file alone what it should be. What the buffer holds is a sector of a
file or nothing; while a sector is moved its half holds nothing. A file is `spoilt` when a sector
read for the firmware itself takes a request of its, or by a pause while a header is looked for, until it is rewound or replaced; it is neither torn
nor paused again before. `TapeSaysFile` is of a file that is not spoilt. The last sector of a file is filled up with zeros, which complete no
header (`DeckAssumption`), and a header at the very end is not played (`pos` is past the file before its silence): `Recorded` has it so.

In `Ide` the software polls the status as the adapter's ROM does: it commands with BSY and DRQ off, moves a word with DRQ on, and
asks for sectors of the image alone. A word is one step, with the edges of the port in front of it; the second byte of a word written, which `ide.v` puts into the
buffer a clock later, is in it, for the next word takes an OUT instruction. A sector is moved when its transfer ends.
A byte on the card is its image, the value written and its address, so one that lands in the wrong place shows. The software stays in
the image (`InImage`). Write protection is chosen once. A protected disk drops what is written. Nothing in the code makes the OSD's task wait
for the disk: it may read a sector with one of the disk's shown, replace the image in the middle of a command, reset the machine with a
sector on its way. Whether it does is chosen once, too (`calm`). `ReadsImage` and `WritesLand` are of a calm OSD, and what the others do
to the data is listed under "Seen while modelling"; `SectorEnds` is of both, but for a firmware that reads for ever or has stopped in a null table.

In `Drives` one of the two has an image and is used in a behaviour: how requests of several share the path is what `SdPath` has.

`OsdJobs` has the steps of `Loader`'s OSD without the menu: they come at any time. The look for the core's folder without the lock (`Probes`) is taken with the
disk only, for size; what it does to a lease is what the readings under the lock do. A file whose open failed is `LostImage`: `f_open` and
the link table may leave the flag that `sdc_handle_event` looks at, and no table. `clmt_clust` then looks through what lies at address 0, and what comes of that is not in
the source: `TaskTraps` stops the firmware (a trap, or an endless table), and if it does not stop the sector may be another's (`Serves`, `Anywhere`). The tape and the ROM disk never ask
for such a file, which the proofs show of the tape (`TaskKeepsLease`) and TLC of the ROM disk; the disk does, when an image is replaced in the middle of a command.

`sdc_readdir` is not in `SdPath`: a read of the OSD's task there is one sector and ends, under the lock. `SdPath`'s liveness is of requests that come meanwhile.

The operators named as broken variants (`XferTellsNext`, `IrqPulses` ...) are no part of the
specification: each is a bug the code could have, and `PROJECT.json` names the property that
rejects it.

## 3. The runs

| run | bounds | shows |
|---|---|---|
| `SdArbiter` | 4 clients, 3 sectors, free inputs, reset at any time | one requester at a time, done after the lease and to its holder, the lease is frozen, the registers implement `PathLease` |
| `SdTransfer` | 2 sectors of 2 beats, 7 bad replies, 2 silences, all three kinds of card | rdone means a whole sector; the address counts in the card's unit; READY is reached; reads and writes are answered |
| `SdPath` | sectors of 2 beats; 2 clients for 2 sectors with the OSD idle, 1 client for 1 with the OSD reading, writing and mounting, the OSD alone for 2 | every client gets and puts its own sector, whole and in order; the request served is the one shown; the firmware reads its own sector; no request is forgotten; every lease ends and the OSD's task gets through |
| `SdReadRetry` | violated | a read that timed out once is repeated for ever |
| `SdWriteRetry` | violated | a write that timed out is put on the lines again |
| `SdFalseDone` | violated; 2 clients, the OSD reading | the arbiter takes the firmware's transfer for its client's |
| `SdMcuWrite` | violated; the OSD writing | the wait for the end of a write does not wait |
| `Screen` | 3 tiles of 2 lines, a line of 240 clocks, 3 lines, a refresh in 90 clocks; one cell; the mode set in the blank line and in the middle of a line | rows, refresh, the CPU's reads, the verdict of the self-test, whole tiles in order, and the end of power-up |
| `ScreenColumns` | violated | a column shows the tile before its own |
| `Input` | 2 slots: one device of any kind or a joystick in each; 2 keys and a modifier, 4 reports, a queue of one | no thread outlives its class, joystick numbers, no key is left down in the matrix, every device is listened to again |
| `Loader` | 2 forms that scroll, directories of 6, texts of 3 and 6 lines; images of 5 beats and of 1 where 4 fit, in 2 sectors of 2; a ring of 2; a program of 4 bytes | the selected entry is shown, the way back; the ROM disk and the program are whole when used; the ring is a queue; loads and the OSD's jobs end, but for a directory that cannot be opened |
| `Drives` | tape: sectors of 2 bytes, bytes of a bit, a header of 2 bytes; a file of 3 sectors with a header at its end and its bytes unaligned in the middle, a file of 2 with a header and a byte. Disk: sectors of 4 bytes, images of 2 sectors and 1, a count of 0 that means 2, two values, words and bytes, with and without protection | what is heard is the file from its beginning, the half that is played is not written, a tape left alone runs out; with a calm OSD words are of the address asked for, bytes land in place, and all of a command; with any, every sector asked for ends |

**Why these bounds.** Four clients let a grant pass over an idle one between two that ask, and three
sectors let one change after the grant; for any number the properties are proved. Two beats have a
first and a last one, which is what the buffer's and the host's counters distinguish. Seven bad
replies are the CMD8 timeouts a version 2 card may have and still be recognised: with an eighth the
code takes it for an old card, as its own comments say of `sdv1_maybe`; an old card times out eight
times without spending the bound. Two silences stop one transfer twice. CMD24 is left out of
`BadCmds`: `sd_rw.v:256` has no way out of a bad reply to it (a hazard no document speaks of).
`MinGap` is 3 where an SPI byte of 20 MHz takes a dozen clocks of the FPGA; more clocks
pass in the model whenever it likes.
The line of `Screen` keeps what the timing depends on: it is a multiple of twelve clocks, the picture
starts on such a multiple, the tiles are 48 and 36 clocks, there is room for the fetch of the first
tile before the picture and a blank after it; three tiles are a first, a middle and a last one. The refresh period is, like 234, an odd
multiple of six, so that a refresh falls due on both halves of the T-state, and it is close to the least for
which `RefreshKept` holds (85, see the proof): a stricter deadline than the code has.
`ModeTimes` bounds when in a frame the mode is set. It stays for `ModeGap` 120 clocks then, since the OUT that sets it is at least three
machine cycles and ten T-states (`cpu8080.v:121-156`, `ports.v:174-190`). `CpuCells` bounds where the CPU reads and writes; `Settle`
stands for 65535 clocks of waiting.
Two slots let a device's number be freed while another's is in use. The times 1, 1 and 2 keep the order
of 1000, 510 and 1200 ms. A keyboard beside a second device is left out, for size: the parsers share
nothing but the matrix and the queue, and a queue that others fill is one that drops events, which the queue of one (of ten) does.
The four reports let a key stay, move to the other slot, be replaced, go with the modifier, and be
one the OSD takes.
Six entries are the least that scroll (with the title more than five), with a second and a last row in view that differ from
the first. Images larger than the ROM disk's space, of a broken number of sectors and of less than one are
the cases of `SectorsOf`. While a load is on, the user goes only from one file entry to another (`Hurries`),
and of a directory only the first file is chosen (`Chosen`): which entry it is makes no difference to a load. The
CPU may take the port at most once in `CpuCycle` 3 T-states, and a byte poked takes at least `ByteTime` 2: `poke.v:11-12`, "one in a
microsecond at best". At 20 MHz its eight bits alone take 0.4 us, about one T-state: the rest is the firmware's, between two bytes.
Three sectors on tape make the halves of the buffer be used again; a header as long as a sector is compared over all of it, and 0 1 lies
in file "a" unaligned as well. The data bit, the start bit and two stop bits are a bit of each kind. Two sectors on disk let a command of two be
followed by one that starts on its second, and a sector go to the place of the other; `Owed`'s modulus is the width of the counter,
eighteen bits, scaled. If the OSD is not calm the software has one image, of one sector, and one value; a sector that a null table leads to is the first of an image that is in use, or
one of none (`Anywhere`); and no second lease of a spoilt
file is torn: what follows an upset, not what it leaves on the card, is the question there.

**Fairness.** The clock runs (`WF(Next)`). A command comes to its reply, since `sdcmd_ctrl.v` counts
to a timeout at the latest, and every wait on the data lines ends, by data or by the counters of
`sd_rw.v`. Each task proceeds when it can: FreeRTOS runs the one of the higher priority that is
ready, which is the guard `TaskBlocked` of the OSD's steps, so nothing is assumed that the
scheduler does not do. In `Input` threads and the hub's stop proceed and time passes; devices,
reports and the OSD need not. In `Loader` both tasks proceed, the FPGA is clocked, a transfer ends and
T-states pass; the user need not do anything. In `Drives` it is the tasks, the FPGA and the player that proceed;
the user, the motor and the software that works the disk need not, and nothing makes a reading of the firmware end: `SectorEnds` and `TapeRunsOut`
have as their premise that it is always, sooner or later, not reading (`ReadingsEnd`). That a reading ends with the priorities and the lock as they are, if the
directory can be opened, is `JobEnds` of `Loader`, where it is no premise. No fairness between the clients is assumed, and none is claimed.

**What a run does not catch.** `ServedDone`, `OwnBytesOnly` and `ServesTheRequest` are of the clients alone, so that they say nothing of a client that is told done for the
firmware's own transfer: `DoneIsServed` says it, and fails (finding 3). `ReadsImage` and `WritesLand` are of a calm OSD. `TapeSaysFile` leaves out headers that were paused in.
What a sector past the end of an image does to the card has no property: the code does as described below.

**The findings.**

1. `sd_rw.v:193-195`, "retry read": RTIMEOUT is never left while CMD17 and READING alternate, so the
   retry goes on for ever although the card answers. `RequestsAreAnswered` states what remains true.
2. `sd_rw.v:190-198`, "No retry on write!": `sd_card.v` keeps `wstart_int` up until rdone, so
   READY takes the same write again.
3. `sd_arbiter.v:11-13, 98`: in S_REQ any `rbusy` is taken for the client's own transfer, and the next
   `rdone` for its end. When the firmware reads a sector for itself between the client's request and
   `spi_task`'s CORE_RW, the client is told done with nothing moved, and the request the task serves
   later is a stale one. With one client and only reads by the OSD the lock keeps `LockCoversTransfer`
   true, so the lock is not at fault here. The trace has 22 steps. It goes on: with two clients
   the stale request starts the first one's sector (`sdc.c:326`) while the second one owns the path, and its
   bytes go to the second (`OwnBytes` as the invariant of the same configuration). `OwnBytesOnly` states what remains true, with the clients alone.
4. `sdc.c:115`, "wait for ready": the first answer of the loop was prepared when the last data byte
   arrived, before the write began, and says ready. The lock is free with the write under way;
   a CORE_RW in its middle turns the source of the written bytes to the core (`sd_card.v:325`), and
   `RightBytesWritten` fails with the OSD writing. In the field that takes a `spi_task` that gets
   from its wake to the command within one sector write; the `printf` calls on the way may
   hide it.
5. `video.v:134-136, 239`: the hand-over on phase 10 is meant to come before the load "on the
   period's last clock". It does for the first column. `px6` is reset when `hcnt` is 0, a clock after the
   line begins, so it is 5 on the first clock of a slot, and the load after the last pixel of a tile comes
   on clock 42 of the tile, the hand-over on clock 46: from the third column on, column k
   shows tile k-1. The first two columns show the same tile, and that with the name of the
   last tile of the line above: `f_first` is phase 0 of the first tile's first T-state, and its branch
   (`video.v:179`) keeps that name from being asked for. `PixelsInOrder` states what remains true: the
   right pixel of a whole tile, its colour and pattern by one name, in order.

**Seen while modelling**, without a run of their own (the first three are disagreements with a line of the repository, as the findings are):

- `sd_arbiter.v:22` has done "one clock at the end of the transfer, with ack still up". `c_done` is registered in the clock that leaves S_XFER (106-107), and ack is
  the state being another than S_IDLE (64): when done is seen ack is down. `DoneAfterLease` states what the code does, the contrary of that line. No client minds, since
  none looks at both; one that looked at done only under ack would never see it.
- `howto.md:104`, "the card missing (the firmware still runs without one)": `sdc_readdir` goes on after a failed `f_opendir` (`sdc.c:563`). With no card, or a saved
  folder that is gone, `f_readdir` answers nothing, `fno.fname` still holds the first entry of the list ("..", "/No Disk"), and the loop (566-575) never sees an empty name: it appends that entry for
  ever with the file system locked. The menu does not come back, and `spi_task` waits for the lock. `JobEnds` and `LoadEnds` name it (`osd = "endless"`), `SectorEnds` and
  `TapeRunsOut` exclude it by their premise: without that all four fail.
- `sdc.c:302`, "this should actually never happen as the core won't request data if it hasn't been told that an image is inserted": `ide.v` looks at `present` when a command
  is given (235, 240) and not when the next sector of it is owed (171), so with the image ejected in between it asks on. No eject clears `fil[].flag`, so that
  `sdc_handle_event` serves it from the image that is gone, the next, or one that could not be opened, through a null table (264, `TaskTraps`).
- `usb_host.c:213-234` compares reports slot by slot. A keyboard that, with two keys held, closes up the gap when the
  first is released ([A,B] to [B]) makes the parser send: release A, press B, release B. B is then up in the matrix
  though it is held, where `pk8000.h:13-15` lets any number of keys be down.
  `NoGhostKey` states the other direction, which holds.
- A key held while the OSD opens stays down in the matrix: its release is seen with the OSD visible, not sent,
  and remembered as seen. Those keys, and a modifier whose byte a joystick in the same slot overwrote
  (the union of `hid_info`), are what `NoGhostKey` excuses.
- ESC is looked at twice (`usb_host.c:230, 231`): hidden between the looks, the OSD is shown again, where line 224 says that ESC
  can only close it.
- What keeps a new image from the transfer of the old one is the priority of `spi_task` alone: with a
  request shown it runs until it is served, and the eject comes before the lock. In `Loader` no
  request comes up with another's transfer under way; in `HardDisk`, where a reset forgets the request, one does (below).
- A program loaded while a ROM image is: the queue is held, fills and drops bytes. `ProgramWhole` leaves
  that case out (`held`, which covers bytes still held over from the program before, too), and says that otherwise 50 ms are enough.
- A sector read for the firmware itself during a load can end up in the image (`torn`): finding 3 again.
- `tape.v:161-162` says of a pause "keep the position" and "resume where we were", but `rbyte` goes on to the byte of `cmp_i` while the
  comparison with the header stands still, so a pause in its ten clocks makes the header be played as eight bytes. The buffer's half is had
  through the comparison, so only Play or the motor can do it.
- `tape.v:206`: the tone's last half-period ends without the toggle that every other has, so the start bit after it is half
  a period of 2400 Hz longer than the "one cycle of 1200 Hz" of lines 5-7. The ROM may well take it all the same.
- `sdc.c:290, 317`: `rsector` is of before the lock. While the lock is waited for, finding 3 can end that request, and the disk shows its
  next: the transfer then writes the next sector over the one before. With reads it is the wrong sector that is read.
- `ide.v:158-162`: a reset forgets the request, not its lease. `bas_run` resets the machine with the file system locked; if
  a request of the disk is shown, the first read after the reset takes the old transfer for its own.
- `ide.v:235-244`, `sdc.c:271`: neither compares a sector with the end of the image, and the "error" of `clmt_clust` is used as cluster 0.
  Software that keeps to the size in the identify block never gets there.
- `sysctrl.v:213`: the acknowledge and the word of pending interrupts are a byte apart in one transaction; an interrupt between
  them is in the word or comes again (`NoRequestForgotten`).
- `sd_arbiter.v:62`: the lowest number wins every grant, so a client that asks again at once can keep another waiting for ever;
  `main.c:51`: an event that finds the OSD's queue full is dropped. No document promises otherwise.

## 4. The proofs

`SdArbiterProofs` proves, for every `NClients` that is a positive natural number and every set
`Sector`, whatever the inputs do:

- `TypeCorrect`: `Spec => []TypeOK`. The only fact needed of the grant is `GrantIsLowest`: a non-empty
  set of clients has a least element, by the well-foundedness of `<` on the naturals.
- `OneRequesterHolds`, `DoneAfterLeaseHolds`: both invariants, inductive together with the type
  invariant (`ArbiterInv`, one lemma for each state's clock). `DoneAfterLease` holds because done is set only on the way to S_IDLE and cleared in
  every other clock.
- `LeaseIsFrozenHolds`: the action property, from the same invariant: that the request is down from
  S_XFER on needs that a request is shown only in S_REQ.
- `ImplementsLeaseHolds`: the initial state maps to an initial state of `PathLease`; IdleClock maps to
  Lease or Settle, ReqClock to Settle, XferClock to Finish or Settle, the reset to Revoke. `holder` and
  `job` are mapped to "none" while the state is S_IDLE, for owner, is_wr and rsector keep their
  last values there.

The one assumption is `NClientsAssumption`.

`SdramProofs` proves the five safety properties of `Screen`. Nothing in `sdram.v` or `video.v` waits or asks whether it is its turn, so that
each invariant says for the clocks of some counter what is where; none of the properties is inductive alone.

- `RowRuleHolds`: `MemSpec => []RowRule`, for any banks, rows and columns, any refresh period, and whatever the CPU, the
  video and the self-test ask for in any clock. Nothing in `sdram.v` records an open row; `RowInv` ties the chip to the clock of the slot:
  on clock 1 of an access all rows are closed and its ACTIVE is out, on clock 2 its row alone is open and
  the command that closes it is out, on every other clock all are closed and none of the three
  commands is. `ChipOpens` and `ChipCloses` say what the chip makes of that, `BootKeepsRowInv` and
  `RunKeepsRowInv` take the clocks before and after the initialisation. `RowRuleInScreen` gives the two ports the requests of `Screen`.
- `BistVerdictHolds` and `CpuReadsBackHolds`, for any cells of the CPU, any four different cells and any patterns of the self-test of which one is not
  the byte of an idle bus (`SdramAssumption`). `MemoryInv` says that a byte read is on the bus on clock 3 of its slot, or on clock 4 with
  the pads late; which cells the self-test has written and read, and that its `bad` is what the pads make of it, in each of its
  passes; and that a cell holds what the CPU wrote last, but while the write is in the slot.
- `PixelsInOrderHolds`, for any line that keeps to `VideoAssumption`: starts and length are multiples of twelve clocks, the fetch of a
  tile fits before the picture and the picture into the line. `LineInv` gives for each place of a line (tile, T-state, phase) the counters of the fetch, the request on
  its way, the bytes there, the tile handed over and the tile and pixel shown (`Stage`), and one lemma for each of the five says that a clock takes it
  to the next place. `Geometry` and `PlaceOf` are the arithmetic of places. `Tiles` is at most 64, what a row of names has. `ScreenAssumption`
  keeps the tables apart from the cells that are written and makes their bytes their addresses.
- `RefreshKeptHolds`, for a refresh period of at least 85 clocks (the code has 234) and modes that stay for at least 48 (`ModeGap`). `RefreshInv` says how long a refresh that is
  due has waited at most: `Waited` counts the clocks since the last slot that the fetch leaves free, at least one in each tile, and after a change of the
  mode, which can take that slot away, `NoneYet` those of the new mode. It waits 47 clocks at most, or 83 with a mode changed at the worst moment.

`SdTransferProofs` proves, for sectors of any length, any failures and silences of the card:

- `DoneMeansMovedHolds`: what has moved of a request (a history) is what the data state machine says, also while a CMD17
  is issued again, and READY clears what is left of the last transfer (`MovedInv`).
- `AddressUnitFitsHolds`: with fewer than eight bad replies, the run's bound and the code's (an eighth CMD8 timeout makes a version 2 card an old one).
  `RecognisedInv` counts the timeouts against the bad replies; that `sdv1_maybe` is up from an old card's CMD8 on is part of it.

`SdPathProofs` proves the six safety properties of the whole path, for any number of clients, sectors of any length and any
mixes of users. The properties are about both ends of a chain of five state machines; the invariants are about the links:

- For every mix, `PathInv`: `sd_rw.v` is at rest, reads or writes, and its counters fit (`RwInv`); the request shown is the owner's
  (`ArbInv`); each task holds what its place in the code says and the last byte it sent is the one before that place (`McuInv`); bytes are
  `MinGap` clocks apart and a level is up within fewer of its command (`TimeInv`); a new request that nobody has seen has
  its interrupt up, or `spi_task` is in front of the STATUS that will show it (`ForgetInv`). `NoRequestForgottenHolds` is that last part.
- With the clients alone, `AloneInv`: what the answers to STATUS said is the lease that waits, which cannot end before `spi_task` has
  served it (`RequestInv`); the levels and the sector on the lines are the lease's (`LevelsInv`, `LeaseInv`); and the client has counted the
  beats that have passed `sd_rw.v`, a clock behind it on a read (`GotInv`). `ServesTheRequestHolds`, `OwnBytesOnlyHolds` and `ServedDoneHolds` follow,
  and `RightBytesWrittenHolds` for the clients' sectors. None of them holds of a mix with an OSD that reads (`SdFalseDone`).
- For every mix, `ReadInv`: a read of the firmware's goes through four phases, in each of which the buffer, its counter, the state of `sd_card.v` and the
  answer at hand are known: asked for and moving, in the buffer, offered, taken byte by byte. It rests on the lock only in this, that the OSD's task waits for
  a quiet `sd_rw.v` in the same transaction as its command; `McuReadsItsSectorHolds` needs nothing of the clients.
- For the firmware alone, `SoleInv`: the beats of a write are in the buffer up to the last, which is a clock behind, and the transfer starts with
  it there. That is `RightBytesWrittenHolds` for the firmware's sectors.

`SdPathAssumption` says that a byte takes at least three clocks (a dozen in the machine) and that `NoBeat` is no beat.

`InputProofs` proves, for any slots and any times with `usbh_hid_stop`'s wait longer than a URB and than a
control transfer (`UsbAssumption`):

- `KeyboardImplementsUsb`: `Spec => UsbSpec`. The parser and the OSD's task take steps of the client
  thread or none, so what is proved of `Usb` holds in `Keyboard`.
- `OutBeforeFreeHolds`: not inductive alone, since `StopEnds` gives up when its wait is over. The
  invariant bounds every wait by its length, and says that of a thread which `usbh_hid_stop` waits for
  `stop` is set and less of its wait is left than of the hub's.
- `JsMapExactHolds`: the map is the image of the running joysticks' numbers, and `FreeJs` is not in it:
  there are more numbers than slots, so one is free, by cardinality.
- `NoGhostKeyHolds`: `Spec => []NoGhostKey` for any slots, any number of keys in a
  report, any reports and any queue. `NoGhostKey` says nothing while a report is parsed; `GhostInv` does: the
  key that accounts for a bit of the matrix is looked up in the new report for the slots of the report that the parser is
  done with, in the old one for those ahead, and for the slot at hand according to the place, before or behind its release.
  A look at `osd_is_visible()` that sends the parser past a release does so only with the OSD visible,
  and then all that is down is excused. That no slot changes its kind while it is parsed comes from the
  invariant of the threads.

`LoaderProofs` proves of the parts of `Loader`, and then that the composition implements them:

- `PokeIsQueueHolds`: `PokeSpec => PokeIsQueue` for any depth and any entries.
  The invariant keeps the pointers' distance within 0..Depth; `full` and `empty` are then what the distance says, and the cells between
  the pointers are the queue, which a clock extends, shortens, or both.
- `SelectedShownHolds` and `ReturnsToOpenerHolds` for any forms, directories and texts
  (`MenuAssumption`, `OneOpener`). For the first, `MenuInv` says which form has how many entries
  and that the selected one is in view; the lemmas about `Jumps` and `Climbs` are the arithmetic of the
  scrolling rules. For the second, `PathInv` says that the history is a path from the main form, each entry of it on
  the form that the one before it opened, and that its last entry is what the three mechanisms of the
  code remember.
- `LoaderImplementsMenu` and `LoaderImplementsPoke` (with the invariant that `bas_run` sends no more than its bytes and that the loader's hold is a
  signal), and with them `SelectedShownInLoader`, `ReturnsToOpenerInLoader` and `PokeIsQueueInLoader`.
- `RomCopyWholeHolds`: `Spec => []RomCopyWhole` for images of any size, beats of a sector and sectors that fit. `RomInv` says that the lease is of the present load
  and of the open file, that `spi_task` on its way to it looked up the sector that is shown, and which beats of the image are in memory. A mount starts a
  load all over; that no lease of the old one is left is `MountsQuietly`: with a lease shown `spi_task` would be ready or wait for a lock that the
  mount has given back, and the OSD's task, of a lower priority, would not run. `ImageSectors` is the arithmetic of sizes that no sector divides.
- `ProgramWholeHolds`: `Spec => []ProgramWhole` for programs of any length and rings of any depth. A byte takes an SPI byte's time and the CPU leaves `poke.v` one T-state of
  two (`ByteTime`, `CpuCycle` in `LoaderAssumption`), so that the ring holds one byte at most (`OnePending` in `LandInv`), and it is empty when the wait before the reset is over.

`TapeDeckProofs` proves `PlayedHalfKeptHolds`: `Spec => []PlayedHalfKept` for any files, sectors and headers (`TapeAssumption`), with mounts,
rewinds, pauses and torn leases at any moment. `PlayedHalfKept` does not say why the sector that arrives is another than the one that is
played; `FetchInv` does: a sector is fetched because it is not had, and if the one at hand is had, it is the next, which is of the other
half; a lease that nobody waits for, which a mount leaves, goes with an empty buffer. The player moves only with its sector had,
and to the same or the next one (`StepOfSector`, which needs a header to be no longer than a sector, `HeaderFits`).

It also proves `TapeSaysFileHolds`: `Spec => []TapeSaysFile` for any files, headers, bits in a byte and sectors of any number of headers (`TapeAssumption`,
`DeckAssumption`). `DeckInv` is a chain along which a byte goes. `FileInv`: a drive that has a size has an open file of that size. `LeaseInv`: a lease is of
the sector wanted, `spi_task` on its way to it looked up the sector shown, and what moves is that sector of the open file; a mount finds the path free, by the priorities
(`MountsQuietly`). `BufInv`: a half that counts as had has the sector it is said to have, save the half that bytes go to, which is not the one played (`FetchInv`).
So what `rbyte` has a clock later is the byte of the file (`ReadsFile`; a header that begins at an aligned place lies in one sector, `HeaderInSector`).
`PlayInv` says of each state of the player what it compared so far (`CompareInv`), which bits of the byte at hand are out (`FrameInv`), and that what was heard and
what the file says from `pos` on (`Ahead`) make up what the file says (`SaysInv`). At the end of the file nothing is ahead.
`RecordedFrom`, what the file says from each place, is a recursive function over the places, each by a later one. That there is such a function (`CanBeTold`) and that its
values are sequences of bytes and tones (`RecordedAt`) is no instance of an induction theorem but by the least number of last places for which it would not
hold, which `WellFoundedInduction` gives of a set (`LeastNat`).

`HardDiskProofs` proves `ReadsImageHolds` and `WritesLandHolds` of `DrivesSpec`, for any images, bytes in a sector and counts
(`IdeAssumption`, `DiskAssumption`), with ejects, mounts and resets between any two steps of a calm OSD (`calm`, without which neither holds: see above).
Where the disk reads in the image is said nowhere in `ide.v`: `ptr` counts in the sector, `xfer_lba` the sectors fetched, `counter` what is left. `ReadInv` and
`WriteInv` tie the three to the address `at` of the command, in the four states of a sector (owed, asked for, in hand, flushed); `WordInv` keeps a word from lying across two
sectors. `PathInv` says that a lease is of the sector that `rsector` and `xfer_lba` hold, `FlushOk` that a flush goes on after a soft reset with its bytes
in the buffer, `MountInv` that the image mounted is that of the open file. `CardInv` says of every byte on the card that it is of its own place;
`DiskAssumption` keeps `Outside`, what lies past an image, apart from the places.

**What is model-checked only.** Of the safety properties only the runs that show a violation, which are of what does not hold; and all liveness: it needs fairness and
ENABLED, which are out of the prover's reach. Type invariants are stated where a proof rests on them, in `SdArbiter` and `Poke`; elsewhere the comments of the VARIABLES and the
inductive invariants say what values there are.

## 5. Not modelled, and what is next

Not modelled: the floppy's glue (a client of `SdPath` so far: its sectors are driven by `wd1793.sv`, a third-party core), the memory
check, the CPU's bus and wait states, the sound, the flash writer and core loader, the HDMI output, the
settings file and the values of the menu, mice, xbox pads, Bluetooth, the boot sequence. `PROJECT.json`
gives the reason for each; nothing of them is out of reach in principle but the data they convert
(report descriptors, BASIC tokens, drawing, fixed timing of pixels).

In order of importance:

1. **Refinement**: that of
   `SdPath`'s client protocol by `OsdJobs`' lease, so that what is proved of the whole path holds below the drives.
2. **Drives**: the floppy's glue on `SdService`, and two drives at once.
3. **System control and boot**: acknowledge, cold boot, the pending word, the settings.
4. **Memory**: `Sdram` with its CPU port as an implementation of an atomic memory, proved; `Poke` and
   `RomDisk` on that port instead of on T-states; the CPU's wait states; the line buffer of `video.v`.
5. **Flash writer and core loader.**

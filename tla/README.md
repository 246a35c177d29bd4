# PC-8001 on the DE0: specifications, model checking and proofs

The repository is a PC-8001 home computer of 1979 rebuilt in an FPGA (Terasic
DE0): a Z80 with the machine's peripherals in Verilog, and, beside it, a Nios II
system whose C firmware plays the cassette recorder from an SD card. This
directory holds TLA+ specifications of that system, the TLC runs that check
them, and proofs that TLAPS checks. Paths are relative to `src/project/rtl/`;
`SW/` is `sub_system/software/pc8001onDE0_subsystem/src/` and `HAL/` is
`sub_system/software/pc8001onDE0_subsystem_bsp/HAL/src/`.

## The system

```
   keyboard --PS/2--> PS2 --> KEYBOARD --port 00h-09h--+
                                                       |
   screen <-- VGA/HVGEN <--DMA (busreq/busack)-- RAM --+-- Z80 (fz80 / tv80)
                                                       |
   RTC <--port 10h, 40h--------------------------------+
                                                       |
                               port 20h/21h, motor 30h |
                                                       |
                                             CONTREG_8251
                                                       |  PIO pins cmt_*
   SD card <--SPI-- avalonif_mmc <-- mmc_spi.c <-- mmcbb.c (disk layer)
                                                       |
                                    ff.c (FatFs) <-- mmcfs.c <-- HAL <-- main.c
```

Everything in the FPGA runs on one 25 MHz clock (`I_CLK`) except the Nios II's
ports, which are 10 MHz registers. The Z80's machine cycles are all stretched to
18 clocks (`pc.v:188-196`); no interrupt reaches it. One button resets the Z80,
the peripherals and the Nios II (`pc.v:199-210`). On the Nios II there is one
thread and one interrupt, the 1 ms timer.

| Component | State it keeps | Operations | What is hard | What makes it correct |
|---|---|---|---|---|
| CONTREG_8251 (`8251ContReg.v`) | mode/command state, command and status register, the one byte in flight, five edge detectors, re-timing registers | OUT/IN 20h, 21h from the Z80; write and read strobe from the Nios II; two resets | two masters at the same edge, detectors of different depth on one strobe, a reset bit that resets its own register | every bus cycle and strobe is served exactly once with its own byte; an announced byte does not get lost; mode setting means off |
| Cassette firmware (`SW/main.c`) | program counter, `f_wait_time`, file position, the byte `c` | poll LOAD and MOTOR, open, lead-in, strobe, waits, trailer; timer interrupt | interrupt against main loop; a clock where a handshake is missing; a Z80 that starts, stops and restarts at any time; a card that fails | the Z80 hears the image in order, once, from its first byte; the firmware always comes back to the poll |
| File device (`SW/mmcfs/mmcfs.c`) | stack of free file objects, the objects | open, read, write, lseek, close, fstat, setup | closes that fail, a table shared with the HAL's fields | no two files share an object; nothing is lost but by a failed close |
| HAL descriptor table (`HAL/alt_*.c`) | `alt_fd_list[]`: device, flags, private pointer | open, read, write, lseek, close | the driver writes the fields the HAL reads | a file opened for reading can be read |
| FatFs (`SW/mmcfs/fatfs/ff.c`, third party) | the mounted volume and its id, one sector window, a data sector per file, the free count | mount on demand, validity test, open, read, write, seek, close | cards changed under open files; an access that fails or the power that goes between two writes of one call | a file touches no card but its own; chains stay sound in memory and on the card; a closed file survives |
| Disk layer (`SW/mmcfs/fatfs/mmcbb.c`) | `Stat`, `CardType` | initialise, status, read, write, ioctl over SPI commands | timeouts, late answers, a dozen error exits | the card is deselected after every call; `Stat` says initialised only of a card that is; OK means done; the right sectors in the right order |
| SPI primitives (`SW/mmcfs/mmc_spi.c`), SPI interface (`sub_system/avalonif_mmc.v`) | shift register, bit count, divider, timer | send/receive a byte, select, timers | a register written while a byte is in transfer | every byte gets its eight clocks with the card's select stable |
| KEYBOARD (`keyborad.v`) | the key presented, scan counter, break flag, four modifiers | a code arrives, the Z80 scans a row | a code arriving during a scan, codes that follow each other faster than a scan, a read of the Z80 while the matrix changes | a row reads as one key at a time; a key presented in full is read before it is withdrawn; the modifiers follow the keyboard |
| PS2 (`ps2.v`) | synchroniser, bit counter, shift register, five reachable states | receive a frame, hand over a byte | eleven edges counted without a time-out, the byte fetched by a poller while the next frame begins | every byte is handed over once and unchanged, and between frames the receiver is ready for the next |
| VGA, HVGEN (`vga.v`, `hvgen.v`) | CRTC registers, DMA counters, row buffer, attribute pairs, pixel pipeline | DMA of a row of 120 bytes, display of a row, port writes | the bus is taken from the Z80; the data of an address comes a clock later; the row must be in time | exactly the row's bytes, each at its place, before the row is displayed |
| RTC (`rtc.v`) | BCD counters, 40-bit shift register | count, load, shift, strobe | a load and a carry in one clock, roll-over | the time shifted out is a time the clock had |
| Top level (`pc.v`) | wait counter, reset filter, motor, beep, RTC latch | bus cycles, decode, memory multiplexer | the multiplexer follows `busack` in the clock it changes | a cycle of the Z80 sees its own address and data throughout |

Not the project's own logic: the Z80 cores, `ukp.v` (third party), the Nios II
system and the remaining HAL (generated by the vendor's tools), ROM images,
`helloworld`, `gettime.c`. They appear where the components above use them: the
Z80 as bus cycles, the card as something that answers or does not. FatFs is third
party too, but everything a file survives or does not survive is decided there, so
the part of it that the firmware calls is modelled.

## The modules

### CONTREG_8251: `Sio8251` and `Contreg8251`

`Contreg8251` is the Verilog, one step per rising edge of `I_CLK`, one variable
per register, with the register's name. `Z80Bus` is the environment of `pc.v`
(machine cycles back to back, `start` in the first clock, `waitreq` for the
rest), `NiosPio` the firmware's pin writes. `Clock` is `Z80Bus`, `NiosPio`,
`Retime`, `McuLatch` and either the device's next state (`EdgeDetect`,
`StateMachine`, `DataInterface`) or `ClearDevice` when the command register's
reset bit gets set; `Reset` is the button. Bytes are members of a set `Byte`, of
which the hardware looks at two bits: `IrBytes` and `RxeBytes`.

`Sio8251` is what the two users may believe: one step per transaction. A bus
cycle of the Z80 is served once before it ends; a strobe of the firmware is
served once after it is lowered; when both are served together the firmware's
effect wins. The refinement mapping (end of `Contreg8251`) says when a cycle has
been served (after its fourth clock) and where a strobe is (raised, in the
detector, gone). `Transactions == Sio!Spec` is checked as a property.

`MCContreg8251` adds one history variable, the state in which a cycle found the
SIO, for the property about the mode byte.

### The load: `CmtSystem`

Three actors over the SIO's registers, which are those of `Sio8251` (its
operators are instantiated, so the two modules cannot drift apart): the main
loop, the timer interrupt and a Z80 program. One action per statement of `main()`
that does something another actor can see; `PollLoad` and `PollMotor` are
separate because the condition reads the port twice. The Z80 program is external
(the tape routines are in the ROM): `Start` to `SioOff` are its port accesses,
`ReadWithin` and `StopWithin` the pace the firmware silently relies on.
`Tick` passes `MsPerTick` milliseconds; the waits keep their length in
milliseconds. `SdMayFail` lets `fopen` and `fgetc` fail at any call.

`heard` and `clean` are history: what the program has read since it started, and
whether no image was playing when it did.

### Files: `MmcFs`

`hal` is the descriptor table, `device` the file device, `fat` the mount logic
of FatFs, `disk` the status word and whether the card in the socket has been
initialised. A call is a sequence of steps, one per access to the card: `AltOpen`,
`ChkMounted`, `Initialize`, `Mount`, `Lookup` for an open; `AltCall`, `Validate`,
`Transfer` for the others. `CardOut` and `CardIn` may come between any two.
`DiskStatus` is CMD58: a card that was initialised answers, or is in trouble; one
that is new does not answer. `volume`, `lost` and the field `on` are history: the
card of the mounted volume, the objects of failed closes, the card a file is on.

`MCMmcFs` has the view used by the large run.

### The PS/2 receiver: `Ps2Link` and `Ps2`

`Ps2` is the receiving half of `ps2.v` and the poller of `keyborad.v:134-160`, clock
by clock. A step is the keyboard's half (`Pins`: it puts a bit on the line, lowers
and raises its clock, each phase at least `MinPhase` steps), `Receive` and `Poll`.
`Ps2Link` is what the keyboard controller is promised: each byte sent is handed over
once, before the next begins. `HandsOver == Link!Spec` is checked.

The receiver counts eleven edges and has neither a time-out nor a parity check, so
it is in step with the line only as long as no edge is lost and no reset falls into a
frame; the model resets while the line is idle, and nothing is promised otherwise.

### The key matrix: `Keyboard`

`Keyboard` is `keyborad.v` behind the receiver, a step for each clock, composed with
`Ps2Link` and with the Z80's reads of its port. `Hand` is a user with keys: each
press, repetition and release is an event of one to three bytes (`Make`, `Break`),
which `Send` and `Receive` pass on. `Decode` takes a code, `Withdraw` and `CountRead`
a read of the port; `Output` is the register the Z80 reads. `KeyMap` is a constant;
`MapAssumption` says it is what the tables `KBTBL_1` to `KBTBL_9` give, and is
evaluated.

The history variables: `known` are the keys down that the machine has been told of,
`key` the one presented, `counted`, `whole` and `seen` describe its presentation,
`during` is what the matrix stood for in the clocks of the machine cycle.

Three limits of the design are part of the model, and the properties are worded for
them. A key is shown for fourteen reads whether or not it is still down; the first of
the fourteen may begin before the key is shown and counts all the same, so thirteen
see it, which is why a scan must not be longer. A code that is no key of the matrix,
the prefix E0 among them, takes `r_kb_data_en` away and leaves the address: the key
stays visible until the next key is presented (`CutShort`). And while a modifier
is held, row 8 shows that modifier only, not a second one nor a cursor key.

### The card's bytes: `SpiBytes` and `MmcSpi`

`MmcSpi` is `avalonif_mmc.v`, one step per rising edge of its clock, under the routines of
`mmc_spi.c`: `Access` is an access of the processor to the registers (`pc` is the place
in a routine), `Pass` a clock without one, `Clock` the interface's next state in either.
The busy loops are steps; between any two accesses the processor may be as slow as it
likes. The card is external: it samples and shifts at the edges of `MMC_SCK`.

`SpiBytes` is what the card driver may believe of the routines: every byte it asks to be
sent reaches the card once and whole under the select set last before it, and
`mmc_spi_Recvbyte` returns the card's answer to the byte of that very call. A call leaves
its byte in `asked`; only `Put` takes it out, onto the line, and neither the next call nor
`Return` can come before. A start that the interface drops, or a poll that finds the end of
the byte before, is therefore no behaviour of `SpiBytes`. `BytesExchanged == Link!Spec` is
checked, and proved. Its mapping takes the places of `Sendbyte` and `Recvbyte` up to their
start writes for a byte asked for (`Routine`, `Asked`). Two routines write the status
register without looking (select and deselect); that the interface drops such a write
while a byte is in transfer does no harm because the next routine that sends writes the
static copy again, and this is what the mapping, which takes `mmc_spi_ncs` for the
select, makes precise.

### The disk layer: `CardDisk` and `MmcDisk`

`mmcbb.c` over such byte exchanges. `pc` is the place in `disk_status`,
`disk_initialize`, `disk_read`, `disk_write` or `disk_ioctl`, `sub` the place in the
routine it called: `Select`, `WaitReady`, `Xmit` and `Resp` are `send_cmd`, `Token` and
`RecvData` are `rcvr_datablock`, `SendData` with `WaitReady` is `xmit_datablock`. A try
of a waiting loop is a step of its own. The card (`CardCommand` and below) has a kind, a
write switch, a phase, and what it is doing; it may be late, refuse, answer with an
error, and `CardOut` and `CardIn` may come between any two steps. `moved`, `changed` and
`fault` are history of the call: blocks moved, was the card changed, did it fail or
delay.

`CardDisk` is what FatFs may believe of it while cards come and go: only an
initialisation clears `STA_NOINIT`, and a call that finds the disk usable, or returns
RES_OK, has found a card that was ready at some moment of that very call.
`UsableWasReady == Disk!Spec` is checked, and proved; its mapping says which answer, at
which place, is that moment (`Saw`). `StatIsTrue` is the stronger statement for a call
during which no card was changed.

`MmcFs` takes each disk call as one step (`DiskStatus`, `DiskInitialized`, `DiskFailed`,
`DiskTrouble`): the step stands for the moment at which `CardDisk` sees a ready card, or
for the one at which the call finds out that there is none; a card exchanged before or after
that moment, within the call, is one exchanged before or after the step.

### Files on the card: `FatChain`

`ff.c` as the file device calls it: `f_open`, `f_read`, `f_write`, `f_lseek`, `f_close`
with `create_chain`, `remove_chain`, `get_fat`, `put_fat`, `move_window`, `sync`, on a
FAT32 volume. A call is one step, since the firmware is one thread and its interrupt
touches no file. Inside it every disk access may fail and the power may go before or
after every write, so the operators return the SET of states a call can end in, and
`Then` chains them: each operator is one function of the C code, its error returns
included. The loops of `remove_chain`, `create_chain`, `f_read`, `f_write` and `f_lseek` are
`Loop` over one turn of their bodies (`FreeNext`, `LookNext`, `ReadTurn`, `WriteTurn`,
`SeekTurn`): a function of the number of turns, with a bound that no loop reaches. A write of
several sectors may stop after any of them. After the power has
gone, the window, the handles and the counts are lost and the card is mounted anew.

`wrote` is what a file should hold by its owner's account, `kept` what it held when
`f_close` last returned OK; bytes are told apart by the call that wrote them. `cut`
marks a chain that was stretched although a link of it could not be read (Findings).
The properties except such a chain, but for `SyncedKept`: a failed read may cost the one
file that is being stretched, and every other file that was closed keeps its bytes.

### The text display's DMA: `VgaDma`

`vga.v` with the counters of `hvgen.v` and the memory multiplexer of `pc.v`, one step
per clock: `Beam`, `Bus`, `Dma`, `Pipe` (the registers a byte and its address pass) and
`Buffers`. A byte is the place it was read from, so a property can say which byte is
displayed; a byte that came while the Z80 had the bus is `None`. The Z80 is its latency:
it lets the bus go at the end of an instruction.

## The runs

| Run | What it asks | Result |
|---|---|---|
| `sio_transactions` | does the clocked interface implement `Sio8251` in both directions, resets included; is mode setting off; is an announced byte kept | holds, 4.0 million states |
| `sio_mode_byte` | does the byte that ends mode setting stay out of the command register | violated, see Findings |
| `cmt_prompt` | a program that reads in time and stops in time, STOP key and reset button at any time, a card that may fail at any byte: order, first byte, pacing, the missing wait for send ok, playing once | holds, 8.1 million states |
| `cmt_live` | does a waiting program get the whole image unless the STOP key ends it, and does the firmware come back to the poll | holds (liveness), 49 thousand states |
| `mmc_files` | two files on changing cards, failing closes, restarts: objects, cards | holds, 1.7 million states |
| `mmc_mode` | may a file opened for reading be read | violated, see Findings |
| `ps2_receive` | is every byte handed over once, in time for the next, resets between frames included; does it arrive | holds (safety and liveness), 1 thousand states |
| `kb_matrix` | three keys, one of them with a prefix and one a modifier, a program that reads all ten rows, resets: what a read returns, what is counted, what is kept, what goes | holds, 8.1 million states |
| `mmc_spi` | is every byte asked for exchanged, once, whole and under the right select, is the answer returned its own, with the divider as asked, at every pace of the processor and with resets; do waits last, do calls and the initialisation after a reset return | holds (safety and liveness), 1.3 million states |
| `mmc_disk` | every sequence of disk calls on four kinds of card that may be late, refuse, fail, be pulled out or exchanged at any step: what a call leaves behind, what its result promises, do the functions implement `CardDisk`, does it end | holds (safety and liveness), 161 thousand states |
| `vga_dma` | is each character and attribute pair in the buffers when the beam needs it, however late the Z80 lets the bus go; does a row's transfer end before the next | holds, 3.4 million states |
| `fat` | two files, up to three changing calls, one access that fails and one loss of power anywhere: chains, contents, closed files (a link that cannot be read costs one file only), the free count | holds, 1.1 million states |

Every property has been seen to fail for a plausible mistake in the code it is about (the
mutants of `PROJECT.json`; a mutated form that is not in the module otherwise is marked
`\* mutant:`).

### Bounds, and why they are enough

* `Contreg8251`: three bytes (0, one with the reset bit, one with receive enable)
  are all the hardware can tell apart, plus identity, which the refinement needs:
  two non-zero bytes suffice to see one replaced by another. `BusClocks = 6` is
  the shortest cycle in which a read gets back to the Z80 (`TimingAssumption`); the
  hardware has 18, in which the additional clocks change nothing. `StrobeGap = 3`
  drains a detector; the firmware waits 75 ms. The theorems hold for every value.
* `CmtSystem`: an image of three bytes has a first, a middle and a last. `MsPerTick`
  is 40 in `cmt_prompt`, where the 75 ms are at stake (two ticks), and 75 in `cmt_live`.
  `ReadWithin` and `StopWithin` are the largest values with which the properties
  hold in `cmt_prompt`: the bounds are tight, and a `ReadWithin` as long as the gap loses
  a byte. `TimeAssumption` relates them.
* `MmcFs`: two descriptors, three objects, two cards, two files, three mounts: with
  a third mount each card can be mounted again under a new id while a file of the
  first mount is open. `mmc_mode` has four objects because the number modulo 4 is
  what is mistaken for an access mode; 16 behaves like 4. `MCMmcFs` identifies
  states that differ only in what no step reads (`LiveState`). `MaxMounts` is
  assumed to be below 2^16 (`MountsAssumption`): the id is a `WORD`.
* `Ps2`: the codes are a key, the prefix F0 and a byte of ones, so that the shift
  register, the parity and the stop bit are seen with both values. `MinPhase = 2` is the
  least for which the detector sees every edge (`PhaseAssumption`); the line has 750.
* `Keyboard`: A, DOWN (two codes, and a shift of its own) and SHIFT are the three kinds of
  key. The scan has all ten rows: thirteen visible reads must contain each, wherever the
  presentation begins. `BusClocks = 5` is the least a read needs (`BusAssumption`), against
  18. That every key goes is an invariant (`KeyGoes`): it bounds the reads a key may stay.
* `MmcSpi`: two bytes, all ones (what the line gives undriven) and one that no shift maps
  to itself; the dividers 1 and 0 differ, and at 0 a half bit is one clock. `Wait = 2` is
  shorter than a byte and longer than a bit, so a wait can end within a transfer.
* `MmcDisk`: all four kinds of card; counts 0 (refused), 1 (single block) and 3 (first,
  middle and last block of a multiple transfer); sectors 1 and 2, so that the address in
  bytes differs from the address in sectors. The loops have two or three tries (5000, 1000
  and 1000 in the code): one that goes on and one that ends.
* `VgaDma`: lines have their real 800 clocks, rows their 80 characters and 20 pairs, the Z80
  its 108 clocks (the longest instruction, six machine cycles of 18 clocks); the frame has
  three rows of eight lines and, like the real one, ends within a row. The character
  heights that the size switch and `r_lpc` give do not interact with the bus.
* `FatChain`: four clusters of two sectors of two bytes, so that a file can span clusters,
  sectors and a part of one, a disk can be full, and the FAT has two sectors that compete
  for the one window with the directory, and so that one file can lose its chain while the
  other is closed and complete. Seeks go to the start and to the second cluster, which is past
  the end at first and within the file later. Three calls that change the card, one failing
  access and one loss of power per behaviour: open, write, close of one file while the
  other, of five bytes, is on the card from the start. A sector write is atomic; the
  directory is one sector; names are 8.3; a file has one handle at a time (`_FS_SHARE` is
  0 and the file device opens none twice); the second FAT is never read back and left out.

Deadlock is checked in every run.

### Fairness

`CmtSystem!Fairness`: the firmware takes its steps and the timer ticks (a
processor and a hardware timer; nothing can disable them), and the Z80's program
takes its steps once it has started (it is a program on a processor that is never
held for ever: the display's DMA is shorter than a row). Nothing is assumed of the
keys, the card, or of a program being started. `Ps2!Fairness`: the crystal runs, and a
keyboard that has begun a frame clocks it to its end; no key need be pressed.
`MmcSpi!Fairness`: the interface's clock runs, and the processor goes on with a routine it has
begun (one thread; the timer interrupt returns). `MmcDisk!FairSpec`: the same of the disk
layer's calls; nothing is assumed of the card, which may never answer. The other modules have
safety properties only; their specifications need no fairness.

## Findings

Two comments are contradicted by what the code does, each shown by a run:

1. **The mode byte is also a command** (`8251ContReg.v:219`). Two edge detectors
   of different depth look at the same OUT 21h; the state changes a clock before the
   command register looks at it. `sio_mode_byte`.
2. **The access mode of a descriptor is overwritten** (`SW/mmcfs/mmcfs.c:93`). The
   object's number replaces it, and the HAL tests the number: after two failed
   closes a file opened `O_RDONLY` is refused reading. `mmc_mode`.

Seen while modelling; the properties are worded for what the code does:

* `8251ContReg.v:261`: after a Z80 write and a firmware read at the same edge the status
  says empty although the byte has not been taken. Only in the save direction, which the
  firmware leaves out today.
* `SW/main.c:307`: "wait for send ok" does not wait; the bit tested is 0 exactly when a
  byte waits. The load works because the Z80 takes less than 75 ms for a byte
  (`SendOkWaits`, checked and proved under that premise; without the gap it fails).
* `SW/main.c:309` says 1300 ms on a wait of 13000 ms; the mutant of `PlayedOnce` shows that
  1300 ms would not do.
* `keyborad.v:263` says that a key is shown when the Z80 reads its row; in row 8 a held
  modifier hides it, so that SHIFT with a cursor key reads as SHIFT.
* `SW/mmcfs/fatfs/mmcbb.c:276`: the CRC of a block is read and discarded, so a card pulled
  out within a block leaves a block of nothing and RES_OK; `InOrder` excepts that block.
* `mmcbb.c:436`: a line that no card drives reads as ones, so a card pulled out before the
  OCR is read counts as one with block addressing, until the next status call. MMC cards
  fail at ACMD41, for CMD1 is never tried (`mmcbb.c:443-446`), and are not initialised (`StatIsTrue` promises
  it of SD cards only).
* `vga.v:229`: the transfer of a row ends while its last attribute pair is still on its way:
  the buffer keeps a copy of the pair before in the last place. On the first line of a row
  the attributes are late if the Z80 needs more than 77 clocks to let the bus go, and its
  longest instruction takes 108. `AttributesInTime` states both.
* `hvgen.v` and `vga.v:155-167`: in the 16-dot size the lines of a character are repeated
  3-1-3-1 instead of twice each; the DMA does not depend on it. The DMA's address stops at
  7EB8h, the end of the text memory.
* `SW/mmcfs/fatfs/ff.c:992-994`: the comment of `create_chain` promises FFFFFFFFh for a disk
  error (`ff.c:978`); where it reads the link of the cluster to stretch, that value passes
  for the end mark. In a file of three clusters open for writing, one failed read in
  `f_lseek` or `f_write` links the first cluster to a new one, and the other two are lost,
  with FR_OK. The firmware opens images for reading only and does not come by here.
* `ff.c:2506` stores an error value of `create_chain` as the file's first cluster; `f_close`
  writes it to the directory. The next open for writing fails once, and leaves the entry
  emptied in the window; `CrashSound` allows that value.
* After a loss of power the count of free clusters in FSInfo is stale; it is a hint, and
  `Accounts` speaks of runs without one.

## What is proved

With TLAPS, for every value of the constants the named assumptions allow.

* `Contreg8251_proofs` (from `DataAssumption`, `TimingAssumption`):
  `TypeCorrect`; `ModeIsOffCorrect`, which is inductive together with the types;
  `ReadyByteKeptCorrect`, an action property, step by step; and the refinement
  `TransactionsCorrect`. `BusInv` says, for each clock of a machine cycle, where its enable
  is in the re-timing registers and detectors, so that the cycle is served at the edge that
  ends its fourth clock (`ServedNow`) and, with six clocks, sampled after that;
  `StrobeInv` that at most one strobe is under way and that its edge has left the detector
  when the firmware's gap of three clocks is over (`Line`). `StrobeMoves` and `CycleStep`
  say which act of its two users a clock is, `RegistersServe` what it does to the
  registers. Both bounds of `TimingAssumption` are the least with which it goes through.
* `CmtSystem_proofs` (from `FileAssumption`, `TimeAssumption`, `HandsAssumption`):
  `AnnouncedCorrect`, `PacedCorrect`, `SendOkWaitsCorrect`. The invariant is
  `TypeOK`, `Announced` and `Paced` together: that an unread byte finds the firmware
  in its gap (`Paced`) needs that only the firmware's strobe announces a byte
  (`Announced`), and the sum `f_wait_time + age` is what ties the interrupt's count
  to the Z80's delay. `PacedCorrect` and `SendOkWaitsCorrect` have the premise that
  the Z80's bound is below the gap, and fail without it. From the same premise,
  `HeardInOrderCorrect` and `HeardFromStartCorrect`: `Cursor` says where in the file
  the firmware is, `Caught` that the last byte heard is the last one sent (or the end
  of an earlier playing) unless one is still announced, and `FromStart` that nothing
  was sent to a clean program before it listened. `PlayedOnceCorrect` has the further
  premise that the program stops within the trailer: while it has not, `f_wait_time`
  and its delay together are no less than the trailer (`Stopping`).
* `FileSystem_proofs`, of `MmcFs` (from `SizeAssumption`, `CardAssumption`, `FlagsAssumption`,
  `MountsAssumption`): `TypeCorrect`, `ObjectsKeptCorrect`, `OwnCardCorrect`.
  `ObjectsKept` is not inductive: one needs to know which descriptor the call in
  progress holds and that an open has an object waiting for it (`CallInv`), and the
  three pieces of the partition element by element (`StackInv`, `HolderInv`,
  `CoverInv`). That the stack has room for the object a close returns
  (`RoomForOne`) is a counting argument: a full stack is an injection of the objects
  into themselves, so it holds every object, and none is left for an open file.
  `OwnCard` rests on `VolumeInv`: no object has an id that is still to be given, and
  an object with the id of the mounted volume is on that volume's card.
* `FileSystem_proofs`, of `FatChain` (from `FatAssumption`: any number of clusters up to
  FAT32's 0FFFFFF5h, any sizes, names, modes, lengths and offsets, any number of failed
  accesses and losses of power): `FatTypeCorrect`, `ChainsStaySound`,
  `CardStaysSound`, `BootStays`. The chains of `ChainsSound` are recursive, and
  soundness is not inductive: that a chain ends says nothing about what it looks like when a
  cluster is appended or freed. The invariant therefore speaks of a census instead (`Census`):
  every cluster has an owner and a place, the successor of place k has place k + 1 of the same
  owner, and the cluster at the last place holds the end mark. A census determines the chains
  (`ChainPlaces`), so a tidy volume is sound (`TidySound`); and a step of the firmware changes
  it at one cluster: appended (`LinkKeeps`), started (`AdoptKeeps`), freed from the front
  (`FreeKeeps`), or of an owner that is forgotten (`ForgetKeeps`). `Rest`, the inductive
  invariant, says that the card alone and the card under the window each have a census, and
  that one census (`View`) accounts at once for the directory, for the starts and sizes that
  open handles hold, and for where those handles stand: f_write stretches from the handle's
  cluster, so it must be known to be the last one of that very file (`Placed`). Inside a call
  the lemmas follow `View` through every operator, failed access and loss of power, up to
  `Settled`, which is `Rest` with the file at work on the handle. Truncation is where the order
  of the writes matters: the entry loses its start first, and what it started is an `Orphan`
  that `FreeNextKeeps` frees from its head, so the rest may be lost but never shared. The
  window makes the two views agree step by step (`WindowOK`, `MoveWindow`): it is marked
  changed only while it stands for a sector, and this gives `BootStays` too, because put_fat
  follows a get_fat that succeeded. A loop is followed by `LoopUnrolls`: what every turn keeps
  holds after any number of them; where what follows needs the loop to be over, its bound is
  shown to be enough (`FindFreeKeeps`, `SeekWalkKeeps`).

* `Keyboard_proofs` (from `KeyAssumption`, `BusAssumption`, `MapAssumption`): `TypeCorrect`;
  `PresentedCorrect`, inductive together with the types; `ModifiersKeptCorrect`. A
  modifier's flag and the keyboard agree only when nothing is on its way, so the
  invariant (`FlightInv`) says for an event in flight which of its bytes are still
  pending, owed or at the decoder, and what the flags are meanwhile. `RowReadCorrect`
  needs the recent past: `ShownInv` says that the registers hold what the key map gives
  for the key presented, and `ReadInv` that the output is a clock behind the matrix and the
  Z80's input another, so that both lie within the read in progress (`during`).
  `KeySeenCorrect` has the premise that any thirteen consecutive reads of the program visit
  every row that has a key (`ScanCovers`, which the scan of the run satisfies). `SregInv`
  follows a read through the edge detector, so that it is counted once, in its second clock;
  `WholeInv` says that a presentation that is not cut short is counted and that no modifier
  hides it, `VisInv` that from its second counted clock on a read of the key's row shows the
  key, and `SearchInv` that a key not yet seen has had no more reads counted than places of
  the scan have gone by, none of them the key's row (`Missed`). `KeyGoesCorrect` is about the
  module with its history of reads (`MCKeyboard`): they are ahead of the counter by one at
  most, a read that had begun when the key came on (`GoesInv`).
* `Ps2_proofs` (from `CodeAssumption`, `PhaseAssumption`): the refinement
  `HandsOverCorrect` and `InStepCorrect`. `LineInv` says that a phase of the keyboard's
  clock shows in `sreg` two clocks later, so every falling edge is seen once (`Taken`
  counts those of the frame); `RecvInv` that the state, the bit counter and the top bits of
  `sft` are where so many edges bring them; `PollInv` that the poller reads and clears the
  byte between the parity bit's edge and the next frame. Each clock is then a
  step of `Ps2Link` or a stutter.

* `VgaDma_proofs` (from the assumptions of the module): `RowsInTurnCorrect`,
  `TextInTimeCorrect`, `AttributesInTimeCorrect`. The invariant
  follows a transfer from the request to the return of the bus and bounds the clocks since
  the line ended in each part of it (`Asking`, `Copying`, `Leaving`). `TimeAssumption` is
  needed because a frame may end a line after a row has begun, so a row has one line of
  clocks for certain; it is tight. That the right bytes are in the buffers needs the whole
  way of a byte (`CopyInv`): `BeamInv` says where the beam is in a row of characters, in both
  sizes; `AddressInv` that the memory's address keeps pace with it, so that the row copied is the one
  displayed next; `PipeInv` which write address is in each register on the way to the
  buffers, `DataInv` which byte is, and what the buffers hold already; `SlackInv` how long a
  row has taken when the Z80 was quick. `TextInTimeCorrect` has the premise that the Z80 lets the bus go within the blank
  part of a line (`Latency <= HMAX - HDISP`). For the attributes of a row's first line that is
  not enough: the copy must also have ended by then, 77 clocks late at most, and
  `AttributesInTimeCorrect` has that sum as its premise (77 + 80 + 3 = 160, tight). The last
  pair is the one before it (Findings). `PairAssumption`: a row is a whole number of words.
* `MmcSpi_proofs` (from `ByteAssumption`, `NoneAssumption`, `DivAssumption`):
  `TypeCorrect`, `ClockAsAskedCorrect`, `WaitsInFullCorrect`, and the refinement
  `BytesExchangedCorrect`. The interface drops a write to the divider while a byte is in
  transfer, so the divider is the one asked for only if every such write finds the
  interface idle: the invariant says at which places of the program it must be (after a
  routine that has seen the end of the byte). A wait is exact because the timer and the
  clocks elapsed keep their sum. For the refinement, `WireInv` says that the bits in
  `rxddata` are the first ones of the card's byte and that all were sampled under the
  select now set, and `ReplyInv` that a finished byte stays until `Recvbyte` reads it; a
  bit put out or taken leaves the byte on the wire as it is (`PutOut`, `TakenIn`). That a start
  write finds the interface idle is why no byte asked for is lost (`DriverStep`, `StartStep`),
  and that `"recv poll"` is left with the end flag seen after its own start is why the answer is
  that byte's (`ReturnOnLink`). Each clock is then a step of `SpiBytes` or a stutter
  (`LinkStep`).
* `MmcDisk_proofs` (from `KindAssumption`, `TriesAssumption`, `NoneAssumption`): every
  safety property of the module, and the refinement `UsableWasReadyCorrect`. `TypeCorrect` needs that a loop that waits has a try left
  and a transfer a block, and that the card stays a card whatever the command
  (`CommandKeepsCard`). `SelectInv`, for `DeselectedCorrect`, says where in `disk_status`
  no routine has been called yet; `ProtInv`, for `ProtectedKeptCorrect`, follows the write
  switch of a card that stays from where `disk_status` reads it to where a block goes out; a
  card exchanged meanwhile takes no block, for it has not heard CMD0 (`WorkingCard`). The others stand on
  one another in this order:
  - `CourseInv`: which routine runs at which place of which function, with what command
    and argument. `RoutineFrame` and `FunctionFrame` say what the steps leave alone.
  - `CountInv`, for `OkIsCompleteCorrect`: the blocks moved and those left make up the
    count, but for one that has been moved and not yet counted.
  - `PhaseInv`: what an answer tells of the card that heard the command (`CommandObeyed`,
    one step per command): it has heard CMD0, and after an answer of 0 it is ready. A card
    pushed in since then has not, which is why a change cannot go unnoticed: `changed` and
    awake exclude each other outside `disk_initialize`.
  - `StatInv`, for the first half of `StatIsTrueCorrect`: `Stat` without `STA_NOINIT`
    means a card that, if awake, is ready and addressed as its kind wants it. With ACMD41
    answered by 0 at `"hcs"` CCS decides (`Ccs`); on the way of CMD16 an SDHC card never
    leaves the idle state, because it is not sent HCS.
  - `HealthInv`, for the second half: a card that has done nothing wrong gives the answer
    that the next step asks for, ACMD41 finds it announced, and the last try is answered 0.
  - `OrderInv`, for `InOrderCorrect`: a card under way is at the sector asked for plus the
    blocks moved (`PlaceRight`, from `StatInv`). The block that comes from nobody is the
    last one, since the card now in the socket sends none (`WorkingCard`).

  For the refinement, each step is an action of `CardDisk` or a stutter: the hand
  (`HandIsHand`), a command going out (`XmitSteps`: a card goes to sleep, wakes, or shows
  that it is ready), the rest of a routine (`RoutineStutters`), and the steps of the disk
  functions (`StatusSteps`, `StatusReturns`, `InitializeSteps`, `TransferSteps`). It rests on
  `CourseInv`, `PhaseInv` and `StatInv` without the assumption that no card is changed, and
  on `AskedInv`: an absent disk is marked uninitialised, and a transfer whose command is
  refused has a block left, so its result is not RES_OK.

Only model-checked:

* `ReadBack`, `SyncedKept` and `Accounts` of `FatChain`: what the bytes of a file are, and how
  many clusters are free. They need, beyond the census, that the sector of every position of
  every file holds the byte that was written last, through the file's buffer and direct
  transfers, and a count over the clusters.
* The liveness properties (`PlayEnds`, `LoadCompletes`, `Arrives`, `CallsReturn`,
  `CallEnds`): fairness is out of the provers' reach.

The type invariants of `Contreg8251`, `CmtSystem` (within the invariant of its proofs),
`MmcFs`, `FatChain`, `Keyboard`, `MmcSpi` and `MmcDisk` are proved; those of `Ps2` and `VgaDma`
document their variables. `FatTypeOK` has sets that TLC cannot enumerate and is proved only.

## Not modelled, and why

* The real-time clock (`rtc.v`): five BCD counters and a shift register on one clock, that
  only the Z80 reads; it shares no state with anything modelled here. It is the next module.
* The contents of files and names, the Z80's instructions, pixels and colours. Nothing that
  is checked depends on them.
* `f_mkdir`, `f_unlink`, `f_rename`, `f_readdir`, long names (`cc932.c`), FAT12 and FAT16:
  the file device does not call them or they differ in layout only.
* `O_CMT_SAVE` and the save direction of the firmware (compiled out,
  `SW/main.c:316-327`); the SIO's side of it is in `sio_transactions`.
* After `fopen` fails the firmware calls `fseek(NULL)`: undefined, the model stops the
  firmware there.
* Metastability: a pin of another clock domain is seen at one edge or the next, which the
  steps of `NiosPio` cover; a register that is neither is not modelled.
* The sending states of `ps2.v` (nothing writes to them), lost and extra edges of its clock.
* More than 65535 mounts without a restart: the mount id would wrap, and `OwnCard` with it.
* A Z80 cycle on its way while the bus changes hands (`pc.v:437`): the Z80 cores give the bus
  away between machine cycles only, which is theirs to guarantee.
* The drivers, start-up code and C library of the two Nios II board support packages
  (generated; most of the lines of the repository), the HAL calls other than those of files.

## Plan

1. `Rtc` (BCD counters, carries, loads, the shift register), with a reference calendar.
2. `SyncedKept` as a theorem: that no call writes a data sector of another file follows from the
   census; what is missing is a view of the bytes like `View`.
3. `ReadBack` in the same way, with the dirty buffer as part of that view.

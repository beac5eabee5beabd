# Z80 ROM-less SBC: TLA+ models of the firmware and the debug host

The board runs CP/M on a real Z80 that has no ROM. A Pico 2 W is its whole
supervisor: it loads the boot image into SRAM, emulates every I/O port the Z80
uses, keeps the disks in its own flash and talks to the user over USB and a web
terminal. Core 0 answers the Z80's port accesses from an interrupt (the *port
trap*) and runs the supervisor loop; core 1 runs storage, services, USB and
network. The two cores share plain memory with acquire/release atomics, one
critical section and two SDK queues. The hard part of the firmware is that
sharing, what a power cut leaves in flash, stopping a Z80 whose OUTs the PIO
completes before any core has seen them, and services whose network answers
arrive after the question was withdrawn.

The repository also holds a debug host: a Z80 emulator on the developer's
machine that runs the same CP/M programs under a source-level debugger. Its
hard part is sequential: an instruction core, run control through recursion,
scopes, and C's integer rules; and the threads of its chat and weather ports.

Paths below are relative to the repository root.

## Inventory

| component | state | operations | interacts through | hard behaviour |
|---|---|---|---|---|
| flash backend `src/common/flash_backend.c` | one cached 4 KiB sector, dirty flag, journal pairs, sequence and pair counters | write/read record, flush, boot-time recovery, boot image load, environment sector write | called by the disk controller and the reboot service on core 1; asks core 0 for the Z80's bus through two queues | a reset between any two flash operations, misprogrammed sectors, a bus that does not come back |
| disk controller `src/common/disk_device.c` | status, one-command mailbox, record buffer, seqlock read-ahead slots, supervisor flush, write gate, fatal latch | port reads and writes on core 0, service on core 1 | ports 0x10-0x14; `disk_pending`, `disk_status`, `prefetch[]` across cores | every interleaving of two cores' loads and stores; torn reads; a command racing a fatal error |
| service ports `src/common/io_ports.c`, `io_service.c` | transport (status, lengths, positions, generation), one job, one result, reboot flag | command/request/response ports on core 0, job worker on core 1 | ports 0x40-0x42; `work_state`; closes and opens the disk write gate | results that arrive after a reset of the transport; a response read out of the worker's buffer; a refused reboot |
| supervisor `src/stage09_flash_storage/main.c` | run/stop/reboot flags, pause handshake | operator commands, orderly stop, web and configuration reboots, core 1's service loop | `flash_pause_request`/`flash_paused`; disk controller; reboot flag | OUTs queued in the PIO, the pause announced after the check, retries, deadlines |
| PIO bus engine `src/common/banked_pio.c`, `io_trap.c`, `banked_io.pio` | FIFO of bus snapshots, armed state | service FIFO, drain, arm, disable, watchdog poll | calls the port handlers | posted OUTs, replies while the bus is granted |
| CPU, clock, SRAM `cpu.c`, `clock.c`, `sram.c`, `bus.c` | pins | reset, bus request/release, byte access | called by the above | hardware timing, fail-closed paths |
| terminal queues `src/common/terminal_queue.c` | two rings, connection flags | console ports on core 0, USB and browser on core 1 | lock, lock-free counters | full rings, disconnects, peek-then-remove |
| web terminal `src/stage10_websocket_terminal/web_terminal.cpp`, `Terminal/index.html` | client, session, sent frames, input sequence, heartbeat, reboot status | lwIP callbacks, output poll, reboot command; the page's handlers | terminal queues, supervisor | lost acknowledgements, duplicate input, handover, silent browsers, two deadlines |
| environment store `src/common/environment_store.c`, `PortDrivers/environment_io.c` | entries in memory, two flash sectors | parse, set, delete, add, show; load, save | flash backend | reset in mid save, wrapping sequence number, overflow of a sum |
| HTTP port driver `src/common/http_io.c`, `http_stream.c`, `http_network.cpp` | session, chunk slot, ring, parser, connection | ports, worker, network callbacks | `slot_state` | cancellation, redirects, backpressure, late callbacks |
| weather, chat `src/common/weather*.c`, `chat*.c` and their `_network.cpp` | request state machines, reply ring, decoder, connection | worker calls, callbacks | service ports | timeouts, cancellation, a ring that fills in mid frame |
| network runtime and setup `network_runtime.cpp`, `network_setup.c` | the shell's menu, edits and saves; association and address | typed lines, polling | environment store, which CP/M programs write too; supervisor (reboot) | saves that fail midway, USB unplugged in mid edit, settings changed behind the shell's back |
| USB console `usb_console.c` | log ring, CRLF state, drop counters | printf on either core, service on core 1 | endpoint, terminal output | full ring, partial acceptance |
| debug host: Z80 core `z80_debug_host/x80.cxx`, `cpu_x80_adapter.cpp` | registers, flags, memory, interrupt latches | one instruction, interrupt, front panel | ports, MI server | prefixes, flags, wrap-around, interrupts inside block instructions |
| debug host: CP/M machine and MI server `dcc_host_full_cpm.cpp`, `dcc_host_mi_server.cpp` | target, console queue, breakpoints, frames, variable objects | MI commands, the run loop | standard input, terminal, signals | stopping exactly once, recursion, interrupts while waiting for input |
| debug host: metadata and evaluator `dcc_host_debug_metadata.cpp`, `dcc_host_debug_evaluator.cpp` | tables of functions, scopes, locations, lines; the stopped machine | load, look up, evaluate, assign, expand | MI server | nested scopes, C's conversions, bit-fields |
| debug host: drives and fixtures `directory_disk.cpp`, `dcc_host_fixture_publish.cpp` | a CP/M image of a directory, three directories | build, extract, publish | CP/M programs | full disks, failing renames, kills |
| debug host: chat and weather ports `host_chat_io.c`, `weather_io.c` | ring, worker threads, snapshot of the fetch | ports on the host's thread, threads | mutexes, condition variables | workers that outlive their request, lost wake-ups |
| displays, Wi-Fi driver, SDK glue, other host ports, Z80 software | own state | polling, guest code | SDK, ports | see *Not modelled* |

What makes each modelled component correct:

- *flash backend*: a record that was reported written survives, a sector is
  always entirely its old or its new content after a reset, and boot always
  gets through recovery on sound flash;
- *disk controller*: a READ returns the record last written; while a command is
  under way its buffer is core 1's; every command ends, unless an error is
  latched; "quiescent" means that no write the Z80 completed before is
  outstanding; after a fatal error storage is left alone;
- *service ports*: an answer goes to the request it belongs to and to no other,
  inside its buffer, while it is read; BUSY ends; the write gate always has
  somebody who will reopen it;
- *supervisor*: a stop or reboot that reports success has lost no write; stops
  end; a browser's reboot happens only after an orderly stop and what the
  browser is told is true;
- *terminal*: what the Z80 writes is shown once and in order to the client it
  was written for, what is typed enters once and in order, room promised by the
  status port is there, and a dead browser gives the terminal back;
- *environment*: a boot loads the last committed environment or the one being
  committed, and every entry of it can be loaded again;
- *network services*: the bytes, the reply or the weather a program reads belong
  to the request, place and settings it asked with, whole or marked as failed;
- *setup shell and log*: a reboot is owed exactly for what saves altered, the
  menu shows what is stored but for what programs wrote since, messages are
  whole;
- *debug host*: instructions compute what their definition says, interrupts are
  transparent, stops are at the right place once, names, lines and expressions
  mean what they mean to the compiler, files survive.

## Modules

| module | models | checked by run |
|---|---|---|
| `AtomicDisk` | what storage promises: a durable content and a current content per sector, writes to the second, atomic sync of a sector, reset to the first | refined by `FlashBackend` |
| `FlashBackend` | `flash_backend.c`: cache, journaled flush, recovery | `FlashBackend`, `FlashBackendUnlatched` |
| `FlashBackendProofs` | theorems about `FlashBackend` | TLAPS |
| `DiskDevice` | `disk_device.c`, one step per atomic load or store that another core can see | `DiskDeviceReads`, `DiskDeviceProtocol`, `DiskDeviceLateBusy` |
| `DiskDeviceProofs` | theorems about the controller's handshake and about what a READ returns | TLAPS |
| `IoService` | `io_ports.c` and `io_service.c` | `IoService` |
| `IoServiceProofs` | theorems about `IoService` | TLAPS |
| `Supervisor` | stop and reboot paths of `main.c`, composed with the disk controller, the reboot service and the PIO queue at the granularity of whole calls | `Supervisor`, `SupervisorStopTwice`, `SupervisorRebootTwice` |
| `SupervisorProofs` | theorems about `Supervisor` | TLAPS |
| `TerminalQueue` | `terminal_queue.c`, one operator per critical section | through `WebTerminal` |
| `WebTerminal` | `web_terminal.cpp` and the page, over the rings, with the USB console beside them | `WebTerminal` |
| `WebTerminalProofs` | theorems about the rings, windows and buffers of `WebTerminal` and the input of a session | TLAPS |
| `WebSessionProofs` | theorems about the output of a session and what its two ends think of each other | TLAPS |
| `WebReboot` | the reboot button: the status word shared by `web_terminal.cpp` and `main.c`, and the setup's reboot | `Services` |
| `HttpPort` | `http_io.c`, `http_stream.c`, `http_network.cpp` | `Services` |
| `ChatService` | `chat.c`, `chat_stream.c`, `chat_network.cpp` | `Services` |
| `WeatherService` | `weather.c`, `weather_http.c`, `weather_network.cpp` | `Services` |
| `SideBySide` | `part` and `st` of the two below | `Services` |
| `Ports` | `HttpPort`, `ChatService` and `WeatherService` and their properties | `Services` |
| `Environment` | `environment_io.c`, `environment_store.c` and the sector write of `flash_backend.c` | `Services` |
| `NetworkSetup` | `network_setup.c`, `network_runtime.cpp` | `Services` |
| `UsbConsole` | the log queue of `usb_console.c` | `Services` |
| `HostChat`, `HostWeather` | `host_chat_io.c`, `weather_io.c` | `Services` |
| `Services` | `WebReboot`, `Environment`, `NetworkSetup`, `UsbConsole`, `HostChat` and `HostWeather`, and their properties | `Services` |
| `PortProofs` | theorems about the parts *http* and *weather* of `Ports` | TLAPS |
| `ServicesProofs` | theorems about the parts *environment*, *reboot*, *setup*, *usb* and *host weather* of `Services` | TLAPS |
| `Z80Cpu` | `x80.cxx`, `cpu_x80_adapter.cpp` | `Host` |
| `CpmHost`, `MiServer` | `dcc_host_full_cpm.cpp`, `dcc_host_mi_server.cpp` | `Host` |
| `DebugMetadata` | `dcc_host_debug_metadata.cpp` | `Host` |
| `DebugEvaluator` | `dcc_host_debug_evaluator.cpp` | `Host` |
| `DirectoryDisk`, `FixturePublish` | `directory_disk.cpp`, `dcc_host_fixture_publish.cpp` | `Host` |

`MCServices` and `MCHost` put components side by side that do not share state: `part`
names the component a behaviour is about and never changes, `st` is its state
(`SideBySide`). `MCFlashBackend` does the same for two kinds of flash. The parts of
`MCServices` are in `Ports` and `Services`, parametric in their inputs and sizes so
that they can be proved about: the theorems are stated of `PortsSpec` and
`ServicesSpec`, whose behaviours together are those of the run. The `MC` modules give
the parameters values.

Variables keep the names of the C variables they stand for; `c0_*` and `c1_*` are
the program counters and locals of the two cores. In the later modules the
state is one record with the C names as fields. A definition marked *mutant* in
a comment is a faulty variant of the one after it; none is used by a
specification.

### FlashBackend

The flash is `target` (a sector per block, or `Torn`), and per journal pair
`header` and `journal`. A header's CRCs are modelled by what they detect: a header
is present or not, and it carries the data whose CRC it holds, so a pair is
usable when `journal[p] = header[p].data`. `pc` walks through `flush_disk_cache` and
`write_callback` one flash operation at a time: erase header, erase data,
program data, program header, compare, erase target, program target, compare,
clear header, give the bus back. `waiting` is the record write whose
`select_disk_cache` caused the flush. `PowerCut` may happen between any two
operations: it is a supply cut, an injected fault, or
`reboot_after_flash_failure`; it clears RAM and starts `recover_journal`, which is
modelled at the same grain and can itself be cut. With `FlashFaults` every erase
and program may leave something else. The two sectors of an erased pair and the
two halves of a programmed target are kept as one torn state, because no later
step tells them apart.

`latched` is `disk_fatal_error` as the backend meets it: a failing flush sets it
when the disk controller asked, not when the reboot service did (`reporter`).

### DiskDevice

Core 0 takes one port access at a time. A handler's loads and stores that core 1
can see are separate steps: BUSY and the pending command, the sequence, key,
words and second sequence of a slot copy, the read-ahead hint, the status. Core
1's service is split the same way, including the odd/key/words/even stores of
`prefetch_publish`. The backend is `view` (the records), `dirty` and outcomes;
flushing a dirty cache needs core 0 to be between port accesses, because the
bus is granted from core 0's loop. The model is sequentially consistent; the
code's acquire/release pairs and fences are taken to order what they name.

`z80_flash_disk_quiescent` is its three loads in order (`QuiescentFlush`,
`QuiescentStatus`, `QuiescentCache`), each a step; core 1 runs them between two
services, core 0's port accesses fall between them. An answer of yes is `check =
"quiet"` until `QuiescentDone`; the ghost `overtaken` records that the Z80 began a
port write while the check was under way, which the answer cannot speak for.
`Supervisor`, at the granularity of whole calls, takes the check in one step, that
of its second load: only core 1 changes the cache, and a flush core 0 asks for
after the first load is its `LateFlush`.

### IoService

`transport` is the record of `io_ports.c` with the pointer `response` as the name of
the buffer it points into. A payload is its length; every length the code
rejects is length 0. The commands are grouped by what the transport does with
them: served by core 0 (timers, stopwatches), a job for core 1, the confirmed
reboot. A job's outcome is any error, response flag and length up to the buffer.
`generation` wraps (`GenerationModulus`).

### Supervisor

`outs` is the PIO's queue. `Trap` applies its head, `Drained` applies it all. `c0_pc` is
the place in `main`'s loop, `c1_pc` in `core1_service` and, for a reboot job, in
`utility_service`. `held` records why the Z80 is held. `Z80Out`, `OperatorStop`,
`OperatorReboot` and `CancelReboot` are the environment; the boot-time evidence
timeout stops exactly like Ctrl-] x and needs no action of its own. `hold_cpu` and
the parked check both drain the queue (`stop_io` in `banked_pio.c`). A second stop
(`StopTwice`) and a second reboot request (`RebootTwice`) are switches, because the
code mishandles both (below).

### TerminalQueue and WebTerminal

A byte is a number, counted up as it is written, so order, loss and repetition
show. Core 1 runs a callback, the poll or the USB service at a time; the poll is
split where core 0 can come between (`PollInput`, `Stage`, `SendFrames`), the USB
service between peek and supply. A connection is two bounded channels; a full
channel is the library refusing the message. `Closed`, `PageLeaves`, `TcpGivesUp`
and a page that falls silent are the ways a session ends; `RawClient` is a client
that connects and never says HELLO. The page of `index.html` is the other end:
its input buffer, its acknowledgements and retries. `Setups` splits the instance
into output, input, heartbeat and the build without network, because the product
of all of them is out of reach; the first two share nothing but the connection.

### WebReboot

Every access of the shared status word is a step of its own, either deadline may
be over at any time, and the orderly stop is an outcome (`Supervisor` is its
model). The ghost `expired` is set when core 0 itself sees the time-out: see the
first remark below for the window it leaves out.

### Environment

A request is parsed text (its form, name and operands); the integer width is
`MinInt..MaxInt`, the sequence number wraps at `2 * HalfSequence`. A sector is
blank, torn or valid; erase, payload and header each have a beginning and an end
with a power cut possible between. A save that fails in any step restores the
entries as the code does.

### HttpPort, ChatService, WeatherService

A response is a sequence of items (status, header lines, sizes, body bytes,
events), delivered in pieces of any length at any time; the parsers are
operators that consume one item in one parser state. lwIP callbacks are actions
of their own, DNS answers may come for a lookup long given up. Core 1's service
of the HTTP port is split between reading the session and reading the slot. A
chat event is the leaves of its JSON value with their paths; a weather body is
"of" a place and a kind. A deadline may expire at any poll.

### NetworkSetup, UsbConsole

The shell's menus are kept with one field per kind of behaviour; each save of a
field may fail. The store is the environment's, so between two polls of core 1 a
CP/M program may write any of the settings, with values the shell would refuse
(`programWrites`). `changed` is set and `values` are read only where the code does;
what saves altered, what programs wrote and what they wrote since the last read
are the ghosts `stored`, `foreign` and `since`. The log queue's lock sections and endpoint calls are steps; a
message is a few characters, so that CRLF translation is done and not assumed.
Terminal bytes are counted, not kept: what matters is that none of them falls
within a message, so the ends of the messages are remembered.

### HostChat, HostWeather

Every section under a lock is a step; each chat request has its own worker and
workers of abandoned requests run on. The weather thread's wait is split into
its check and the wait itself, so that a lost wake-up would show.

### Z80Cpu

Registers, flags and memory keep their widths; only the address space is folded
(`MemSize`). The whole Z80 decoder is there: the plain page, CB, ED, DD/FD and
DD CB/FD CB, block instructions and the interrupt modes. The references the core
is compared with are written independently of it: the HL form of an IX/IY
instruction, integer arithmetic with and without carry, decimal arithmetic for
DAA, and the program's outcome without interrupts. 8080-only paths, cycle counts
and lamps are left out.

### CpmHost and MiServer

The target is a program of a few instructions (call, enter, leave, return, jump,
read, write). A command is its parsed arguments. A breakpoint condition is any
value. `counted`, `twice`, `begun` and `astray` are ghosts of the properties.

### DebugMetadata and DebugEvaluator

The compiler that emits the records is external: it remembers what was visible
at each address, and the lookups must agree. The evaluator's parser works on
tokens, where a path (`*p`, `a[i][1]`, `s.f`) is one token as it is to the scanner.
A byte has `ByteBits` bits, so that char, int and long keep their proportions in
integers TLC can hold. The reference is C's meaning of an expression *tree*,
printed with the parentheses precedence needs; the parser has to find the same
tree, type and value.

### DirectoryDisk and FixturePublish

Records, blocks, extents and directory are scaled down, the sector order is the
code's. What a CP/M program does to the image is BDOS's (external): write, extend
and erase a file. Publishing may fail in every call and be killed between two;
`write_file` looks at its stream before it is flushed and closed, so a directory
whose last file was cut short may be published as written (`"cut"`).

## Runs

| run | instance | shows |
|---|---|---|
| `FlashBackend` | 2 sectors of 2 records, 2 values, 2 pairs, 3 flushes per boot, resets anywhere; part *cuts*: sound flash with the reboot service, part *faults*: misprogramming flash, every failure latched | the cache implements `AtomicDisk`, and sound flash always boots |
| `FlashBackendUnlatched` | misprogramming flash with the reboot service | violation: finding 1 |
| `DiskDeviceReads` | 3 records through one slot, sound flash | reads return the latest record (`ReadReturnsLatest`), `NoCacheRace` |
| `DiskDeviceProtocol` | all commands, bad addresses, failing flushes, supervisor flush, gate | `HandshakeIsSound` (until an error is latched BUSY and the mailbox agree), `QuiescentIsSettled` (quiescent hides no write), `FatalIsFinal`, `CommandCompletes` |
| `DiskDeviceLateBusy` | as above | violation: finding 2 |
| `IoService` | payloads up to 2, 3 generations | `ResponseIsOwn`, `GateHasOwner`, `BusyEnds` |
| `Supervisor` | queue of 2, all disk OUTs and reboot requests, failing flushes | `StoppedIsDurable`, `RebootIsSafe`, `PauseIsQuiet`, `StopSettles` |
| `SupervisorStopTwice`, `SupervisorRebootTwice` | second request allowed | violations: findings 3 and 4 |
| `WebTerminal` | 2 connections, window of 2 frames of 2 bytes, input frames of 2 bytes, rings of 2 and 2, 3 bytes each way, sequence numbers modulo 8, 4 setups | `OutputIntact`, `InputOnce`, `RoomIsKept`, `SessionsAreSound`, `DeadBrowserReleased` |
| `Services` | nine parts, each with the failures it handles | see below |
| `Host` | eight parts | see below |

Every run that passes has between 300,000 and 2.4 million distinct states.
Deadlock is checked except in `Services` and `Host`: there the board
has restarted, the ports are closed, the target has exited, or the one
instruction or expression of the state is done, and a behaviour may stop.

`Services`, part by part:

| part | instance | property |
|---|---|---|
| environment | 9 requests, 3 entries (2 fit a snapshot), integers -2..1, sequence numbers modulo 4 | `EnvironmentSurvives` |
| http | a file with a length, one in chunks after a 100, one behind a redirect; ring and chunk of 2; 3 sessions, 1 network change | `FileIsIntact` |
| chat | 4 requests: chunked, with length, ended by an error event, refused; 3 settings; ring of 2 | `ReplyIsIntact` |
| weather | 4 settings (two good, one bad path, one invalid), 4 forms of answer each | `WeatherIsOurs` |
| setup | two starting configurations, 4 typed values, 1 save, 1 store by a program | `ShellKeepsAccount` |
| usb | queue of 5, budget 2, endpoint 3, 3 messages | `LogIsWhole` |
| reboot | 3 REBOOT frames | `RebootAgrees` |
| host chat | 2 configurations, 2 wires, ring of 2, lines of 4, 2 requests | `HostReplyIsWhole` |
| host weather | 3 settings, 1 change, 2 openings | `WeatherIsOneFetch` |

`Host`, part by part:

| part | instance | property |
|---|---|---|
| cpu | every opcode of every prefix from two register files; DAA and 16-bit edges; a program with 3 interrupts in each mode at any boundary; the panel | `CoreAgrees` |
| breaks | a recursive program, 2 breakpoint addresses, conditions, ignore counts, all step commands | `StopsAreRight` |
| frames | the same with frame selection and 2 variable objects | `StopsAreRight` |
| console | a program that polls, reads and writes the console; client lines, signal, EOF | `InterruptStops` |
| metadata | 2 functions, 2 variables of one name in 2 slots, 3 addresses, 2 line records | `InspectionAgrees` |
| expressions | bytes of 3 bits; some 8,800 expressions of up to three operators over 14 leaves of all types; 2 assignments to 12 paths | `InspectionAgrees` |
| drive | 7 directories, 4 directory entries, 5 data blocks, 4 operations of the program | `FilesAreKept` |
| fixtures | every call failing, files cut short with and without an error, kills | `FilesAreKept` |

Why the bounds are enough. Two sectors and two pairs give eviction, reuse of a
pair and a stale pair beside a fresh one; `MaxSequence` bounds the flushes of one
boot, not the number of boots, and three exceed the number of pairs. One slot
and three records make every read-ahead collide with a read. `SequenceModulus` 8
of the slots is the smallest at which a copy cannot span a whole cycle of
rewrites: with 4 TLC finds `ReadReturnsLatest` violated, since two records can be
rewritten during one copy; core 1 can rewrite a slot a bounded number of times
before core 0's copy of 32 words ends, so the code's 32-bit counter is far from
the danger. Two words per record are enough for a torn copy. A generation
modulus of 3 suffices because at most one job is outstanding. A queue of two
OUTs lets a record's last byte and a next command be queued together; the
hardware's is a little deeper. Words are a symmetry set in `DiskDeviceReads`,
which has no temporal property. In `WebTerminal` two connections give a handover
and the window of two frames a partial acknowledgement; a modulus above twice
the window is what its arithmetic needs (`WindowAssumption`). In the services,
rings shorter than what has to pass through them make them fill in mid frame,
two requests, places or sessions are what it takes to confuse one with another,
and one network change what it takes to invalidate a connection under way. For
the environment, a snapshot shorter than the table makes saves fail for size,
and four sequence numbers wrap within a run. A recursion of three and two
breakpoints are enough for an inner invocation to be taken for the outer one.

Fairness. Core 1's loop and core 0's loop have no exit, and the trap is an
interrupt: weak fairness of each core's steps. Core 1's loop asks whether the disk
is quiescent between two services and then comes round to the next service, hence
weak fairness of the check's steps and strong fairness of `Service`, which a check
disables while it lasts. `HandlerStep` finishes a port access
it has begun; nobody is obliged to begin one, except in `IoService` where `BusyEnds`
assumes that a program that waits polls the status port. In `Supervisor` the
overdue flush has strong fairness: its deadline passes however the loop is
interleaved. `StopSettles` assumes the
Z80 eventually leaves the disk alone and that core 0 does not lose the race of
`LateFlush` in every round: a flush requested just after core 1 found the disk at
rest is served by nobody while core 1 is paused, so core 0 sees a non-quiescent
disk, resumes core 1 and tries again. Each retry needs the same few
instructions to interleave the same way. In `WebTerminal` core 1 is weakly fair,
`Ping` and `PongTimeout` strongly: an interval that has elapsed is seen at one of
the polls that follow, whatever other events the polls handle. In `Host` the
server's loop goes on executing the target (`run_target` of the part *console*).

## Disagreements between code and documents

1. `io_service.c:207`. The reboot service flushes past the fatal latch. When that
   flush fails the gate is reopened and nothing is latched, though the phase 9
   document says a failure stays latched. `FlashBackendUnlatched` leaves a valid
   journal pair with old content behind, commits newer content of the same
   sector through the other pair, and the next boot would replay the old one.
2. `disk_device.c:139`. A command submitted between core 1's latching a failed
   background flush and the BUSY store leaves the status BUSY for good, where
   the document asks for READY|ERROR.
3. `main.c:613`. Ctrl-] x repeated while a stop is resuming core 1 sets the pause
   request again before core 1 saw it withdrawn; `flash_paused` stays set, core 0
   waits for it to clear, core 1 serves nothing.
4. `io_service.c:208`. A second reboot request that is refused reopens the gate of
   the one that was granted.

### Remarks

Observations made while modelling that no run is about.

*Documents and comments.* The phase 9 document says the stop's flush goes through
the Z80's command slot; the code has a separate `supervisor_flush`
(`disk_device.c:38`). `phase-10-websocket.md:423` says "An expired request cannot
later start or resume automatic reboot"; between the load of the status word
(`main.c:806`) and `watchdog_reboot` (`main.c:825`) core 1 may still publish the
time-out, and `RebootAgrees` excludes a time-out in that pass. The comment at
`terminal_queue.c:102` says a racing core 1 "can only make this poll conservative";
that holds for the promise of room (`RoomIsKept`), not for RX_READY, which is
stale when a client change clears the rings after the poll.

*Supervisor and setup.* When the bus fails in a stop, `config_reboot_after_stop`
stays set, so Ctrl-] r is rejected afterwards. A `USB_CONFIG_REBOOT` that is
rejected or cancelled leaves the setup shell waiting for a reboot, swallowing
input; a web time-out cancels one that the shell asked for. In the shell a field
left with Enter holds what was loaded earlier, and a save writes every field that
differs from the store (`network_setup.c:570-578`): a setting that a CP/M program
made meanwhile is put back, where `phase-10-websocket.md:101` says Enter keeps the
existing value. The provider is saved before its endpoint, so a failing second save leaves
"compatible" without a URL (`EndpointIsKnown` excepts it, and what programs write).
Leaving the shell after a save by unplugging USB or by a stop restarts nothing;
`changed` stays set, so the next Q does. The shell's load and save borrow the
environment driver's request and response buffers (`network_setup.c:550`), which a
CP/M program may be filling or reading at that time.

*Environment.* A cut while the very first, empty baseline header is programmed
leaves flash that loads with an error; the property holds from the first
complete baseline on (`based`).

*Network services.* A weather cancel's reset of `done` is redundant, because the
poll collects first.

*Fixtures.* `write_file` (`dcc_host_full_cpm.cpp:85`) returns before its stream is
flushed and closed. A small file cut short by a full disk counts as written, is
published, and the old directory is removed; `FixturesAreKept` promises the old
files only where a failure is reported.

*Host ports.* `RESET_RESPONSE` during a request leaves a ring without an EOF; the
API key is sent to a "compatible" endpoint too; the `chat_closing` branch of
`trigger_request` cannot be reached. The weather units letter changes before the
fetch that uses it; a failed forecast leaves the old one under READY.

*Z80 core.* `x80_instruction_length` measures ED A3/AB/B3/BB, superfluous prefixes
and the undocumented DD CB forms wrongly; `z80_op_sub_16` loses the half borrow
when the low twelve bits of the operand are all ones and the carry is set; both
are excepted by name (`Mismeasured`, `WordAgrees`). DD FB does not delay interrupts
as FB does.

*MI server.* `stopped_breakpoint_` may dangle after a `push_back`; a stale
`debugger_interrupt_requested` interrupts the next run; EOF on standard input is
not noticed while the target runs; variable objects compare frames by IX only;
`finish` in a function whose frame is not built yet acts on its caller; `--frame`
on a run command restores the old selection after the stop; a step that lands on
a breakpoint does not count it; an offset of `-data-read-memory-bytes` may overflow
int64; `terminal_write` keeps resetting the input release delay; `target_active_`
stays set after an exit. Line records on a shared function boundary are ignored
by the metadata loader.

*Evaluator.* A suppressed division by zero or shift leaves its level early, so
`0 && 1/0*2` is a syntax error and a skipped branch of `?:` has the type of its
right operand (`Miscounted` excepts both). An index out of range fails even in a
skipped operand. For a pointer held in a register only `*p` follows it: `p[i]`
shows the register itself, and `p->f` looks at address 0. `*a` on an array of
pointers dereferences its first element. The children of a struct behind `*p` are
named `*p.f`, which does not resolve. A `_Bool` bit-field takes the low bit of an
assigned value; an unsigned bit-field narrower than int is not promoted to int.

### Where a model allows more, or is coarser

`SelectPair` has no bound on the number of replays where the code's loop stops
after one per pair (`flash_backend.c:243`), so that recovery ends is left to that
bound and not checked. A `flash_safe_execute` that fails
during recovery, which refuses to boot (`flash_backend.c:268`), is not an outcome:
boot is proved to get through on sound flash where the SDK call succeeds.
`OperatorReboot` lacks the rejection of Ctrl-] r while a configuration reboot is
due (`main.c:844`), so the model has more reboots. `FlushFails` keeps the cache
dirty, where a bus that fails to come back may leave it clean. `WebTerminal` omits
the close that reports a restart to a page (`web_terminal.cpp:303`): the board is
about to restart. A connection of the HTTP and chat services that cannot be
started is reported one service later.

## Proofs

TLC checks instances; the theorems below hold for every value of the constants
that satisfies the named assumptions of the modules (sizes are positive, sets
are what their comments say). Each inductive invariant was first checked by TLC
as an invariant of the corresponding run.

| module | theorem | property of a run it states |
|---|---|---|
| `FlashBackendProofs` | `Invariance`, `TypeCorrect`, `TornSectorsAreJournaled`, `ServedSectors`, `CleanCache`, `Refinement` | the safety invariants of `FlashBackend`, and `Spec => Disk!Spec` |
| | `BootSucceeds`, `SoundPartBoots` | `SoundFlashBoots` |
| `DiskDeviceProofs` | `TypeCorrect` | `TypeOK` |
| | `HandshakeSoundness` | `HandshakeIsSound` |
| | `QuiescenceIsSettled` | `QuiescentIsSettled` |
| | `CacheIsExclusive` | `NoCacheRace` |
| | `FatalFinality` | `FatalIsFinal` (an action property) |
| | `ReadsAreLatest` | `ReadReturnsLatest` |
| `IoServiceProofs` | `TypeCorrect` | `TypeOK` |
| | `ResponseOwnership` | `ResponseIsOwn` |
| | `GateOwnership` | `GateHasOwner` |
| `SupervisorProofs` | `StopIsDurable` | `StoppedIsDurable` |
| | `PauseHolds` | `PauseIsQuiet` (an action property) |
| | `GrantedRebootIsSafe` | `RebootIsSafe` |
| `WebTerminalProofs` | `RoomHolds` | `RoomIsKept` |
| | `InputHolds` | `InputOnce` |
| `WebSessionProofs` | `OutputHolds` | `OutputIntact` |
| | `SessionsHold` | `SessionsAreSound` |
| `PortProofs` | `FileHolds` | `FileIsIntact` |
| | `ShownWeatherIsOurs` | `WeatherIsOurs` |
| `ServicesProofs` | `EnvironmentIsKept` | `EnvironmentSurvives` |
| | `RebootIsTrue` | `RebootAgrees` |
| | `ReadyWeatherIsOneFetch` | `WeatherIsOneFetch` |
| | `ShellAccounts` | `ShellKeepsAccount` |
| | `LogHolds` | `LogIsWhole` |

### FlashBackend

All theorems but the two about booting assume `FailuresAreLatched`: the flash is
sound or the reboot service is not used. Finding 1 is what happens without it.
`BootSucceeds` and `SoundPartBoots` assume sound flash.

None of the properties is inductive. `IInv` adds what makes them so:
`OneHeader` (at most one pair has a header, so replay order never matters and the
restart of the sequence at 0 is harmless), `HeaderIsCache` (while a flush is past
the journal, the header is of the cached sector and its content),
`JournalReady` (once the target may be torn, this flush's pair is intact),
`CacheState` and `CleanIsWritten` (a clean cached sector is the flash sector),
`ReplayState` (recovery's `valid[]` is exactly the pair with a header) and
`SoundFlash`/`SoundRecovery` (on sound flash a header implies intact data). The
refinement maps `disk` to `Durable` (the journal copy if there is an intact one,
the sector otherwise) and `view` to the cache over `Durable`; the commit point is
the programming of the header, everything else stutters except the record write
and the reset.

### DiskDevice

The invariant of the handshake has a conjunct for each owner of shared state:
`MailboxIsGuarded` (a published command finds the device busy and core 0 out of
its handlers, unless a fatal error ended BUSY early), `HandlersAreSound` (what
core 0's handlers hand over is complete), `CommandIsAlone` (while core 1 serves a
command the device is busy and core 0 idle, which keeps the backend's cache to
one core), `JobIsRight` (which job core 1 is on at each of its steps, and what an
error means there) and `PublishIsSound` (which slot and key it publishes). With
it, failing flushes and any interleaving included, BUSY has an owner until an
error is latched, the cache has one user and a latched error freezes storage.

Quiescence adds one conjunct, `CheckInv`: what each of the three loads found still
holds at the next one, or the Z80 has used the ports since. The cache stays clean
because it is core 1 that writes it and core 1 that asks; a status that was READY
was no BUSY, so no write was in the mailbox or in a handler about to publish it.

`ReadsAreLatest` rests on it and adds the seqlock: `SlotsAreSound` (an even slot is
empty or holds the record its key names, as last written), `PublishIsOrderly` (how
far core 1 got: odd, key, words, even), `TakeIsSound` (a copy under way is good as
long as the slot is untouched, and a touched slot has a sequence one to four
ahead, so it is noticed) and `ReadIsSound` (the record buffer of a direct read).
Its assumption
`LargeSequence`, that the sequence counter has more than four values, is what
the argument needs and no more: at 4 TLC finds the property violated. The code's
counter has 2^32.

### IoService

`IInv` relates the two cores through `work_state`: `Sound` (positions, lengths and
the buffer the response points into), `Shared` (which core may touch job and
result in each state), `WorkerOwnsJob` (the job core 1 works on is the one that
was submitted, with the generation it was submitted in). A result of an earlier
generation is then never attached to a later request, for any modulus: there is
one job at a time, so wrapping generations cannot meet.

### Supervisor

`StopInv` and `RebootInv` hold for any queue depth and any set of OUTs. `Drained`
applies the queue's OUTs one after another; that draining preserves the ports'
typing and the storage facts is an induction over the queue, done by hand
through the least element of a set of numbers (`SetInduction`), with the
recursive function's existence from `StepsDefineFunction`. `PausedSpins` (a core 1
that has announced the pause is at the top of its loop) carries `StoppedIsDurable`
and `PauseIsQuiet`. `RequestIsAlone` (one request, queued, served or granted),
`GateIsClosed` (from the request to its refusal, or for good) and `JobIsPending`
carry `RebootIsSafe`, which assumes `RebootTwice = FALSE`: finding 4 is what happens
otherwise.

### WebTerminal

`RoomInv` types every record of the module and adds two relations. `Promised`: a
status poll that has seen no client, and is about to load the ring's count, will
find room; a promise made holds. It is preserved because `TermGood` keeps the
output ring empty while nobody is connected, and because no step of core 1 takes
room away (`Keeps`), whichever console connects or disconnects between the two
loads. `ChannelGood`: what the page sends fits an input frame, which bounds the
pending input of the Pico. That the frames chosen for sending are frames of the
window (`UnsentFacts`) is again an induction through `SetInduction`.

*Input* (`InputInv`). The page has one frame in flight. `InputState` relates its two
ends: while both are at the same sequence number, what was typed is what entered
and then the page's buffer, the frame in flight (which the Pico may hold, waiting
for room) at its head; once the Pico is one ahead, the frame has entered too.
`UpInputs` and `DownAcks` place every copy of a frame and every acknowledgement
still in a channel by its distance `Minus(in_seq, seq)`: those of the frame before
come first, those of the frame in flight after them, and the latter's
acknowledgement is only there when the Pico is one ahead. `Linked` ties the events
the Pico has still to process to the state of the connections.

*Output* (`OutInv`). The frames the Pico has numbered are counted from the newest:
the last u are not yet received, the last d not yet consumed by xterm, and the
window holds all of those (`Window`, `Reads`, `Acks`). Copies in the channel are
given by their place in the window (`Sent`, `Copies`), so that a frame received
twice is recognised for any modulus above twice the window, and an
acknowledgement removes a prefix of the window that was consumed. `Flow` says that
what was shown, with the data of the last u frames, the staged bytes and the ring
behind it, is what was written for this owner; it is handed over at a connect or
disconnect (`OwnerFlow`, `Sides`). `OutputIntact` follows because written bytes are
distinct, so that the frames not shown are the last u (`Unseen`).

*Sessions*. That no live page or session ends the other for a protocol error
follows from the two invariants: the sequence number of every message in a channel
is one its receiver accepts. `Paired` adds the close diagnostics: reported or not,
they are those of the session that ended last, since a report for any other
connection is dropped and a new session's end takes back an old report.

### Ports and services

`EnvInv` is stated on the part's state record. `FlashGood` is the heart: two valid
snapshots have neighbouring sequence numbers modulo `2 * HalfSequence`, so that the
wrapping comparison of a boot always picks the newer; it needs `HalfSequence > 1`.
`SaveIsSound` says at each flash operation of a save what the two sectors hold, and
`BootIsSound` the same for a boot. `Loadable` (no entry that the loader would refuse)
is preserved by every command, sums that overflow included; `EnvAssumption` asks
that the numbers a text is parsed into fit the integer type, as the parser's
range check ensures.

`RebootIsTrue` needs that a restart follows a clean stop (`RestartIsClean`), that
somebody asked for it who has not expired (`RestartIsWanted`), and that what core 0
found on its way still holds when it looks at the status word again
(`RequestIsChecked`). `ReadyWeatherIsOneFetch` needs that no thread runs where the
ports are closed (`ClosedIsIdle`) and that past its first section a fetch works for
the settings the fields are of, with READY taken back (`FetchIsCurrent`).
`ShellAccounts` needs that `changed` is set exactly when a save altered something,
and that a setting that differs from the boot's was altered by a save or written
by a program (`ChangeIsKnown`); that settings stored, and about to be stored, are
complete (`StoreIsComplete`); and that the shell's values are those of the store but
for what programs wrote since it last read them (`ShellIsInStep`), through any
number of saves that fail, succeed or stop midway.

`FileHolds` says where every byte is. `HttpAssumption` asks that a response is framed
by its length, by chunks or by the end of the connection and carries the file's
content, and that a redirect leads nowhere or to a file of the same content. From
there `HttpGood` accounts for a transfer from its two ends: what the program got and
holds, followed by the worker's ring, is the beginning of the content
(`TransferIsOurs`), and some position of the response is where the connection's
undelivered items begin and where the parser stands in the framing with that many
bytes handed on (`OnTheWire`, `StreamIsAt`). `PortIsSound` says when the slot is this
session's; a worker that still serves an earlier session means that this one has
got nothing. `FileIsIntact` itself speaks only of the bytes got, which says nothing
of those in the slot, the ring, the parser and the wire that come next.

`ShownWeatherIsOurs` follows the bytes. `WeatherAssumption` says that a server
answers for the place it is asked about; from there `ClientIsOurs` keeps the bytes
received and those still to come to the place of the request's path, `Dechunk`
(an induction over the response's items, `DechunkedIsOurs`) hands on no others, and
`FieldsAreOurs` and `PhaseIsSound` tie the request under way and the fields shown to
the settings in force: a request of earlier settings is cancelled by every path that
changes them, before its answer can be collected. `RequestEnds` is the rest: a
request under way has a connection that is active or has ended, so it is noticed.

`LogHolds` rests on `LogIsQueued` (what the host got, followed by what of the queue it
has not got, is what was queued, and the bytes a core has taken to the endpoint
without the lock are still the first of the queue) and `TextIsWhole` (the CR state
is that of the last character queued, so a translation that goes on from it puts a
carriage return before every line feed; the queue ends where a message does). The
translation is a recursive function over a message's characters; that it carries
the CR state and both endings is an induction (`TranslatedIsCarried`). A terminal byte
is only written when the queue is empty and nothing is left of it, hence at the end
of a message.

### Only model-checked

- Liveness, which needs fairness: `CommandCompletes`, `BusyEnds`,
  `StopSettles`, `StopResumes`, `DeadBrowserReleased`, `InterruptStops`.
- The debug host (`CoreAgrees`, `StopsAreRight`, `InspectionAgrees`, `FilesAreKept`):
  `Z80Cpu` uses the bitwise operators and `DebugEvaluator` is recursive, which the
  prover cannot load.
- Two properties that compare whole texts through parsers (`ReplyIsIntact`,
  `HostReplyIsWhole`): they flatten, select and fold sequences of
  sequences, about which the prover's library states nothing; each would need its
  own inductions over data.

## Not modelled

- CPU, clock, SRAM and the PIO programs: pin sequences against hardware timing.
  Of the bus engine only the queue of completed OUTs is modelled (`Supervisor`);
  arming, disarming and its watchdog are not.
- The boot image's copy into SRAM and the disk diagnostic mode of `main.c`, which
  bypasses the stop path.
- The values of the timers and stopwatches of `io_ports.c`, and what the single
  services answer: a job's outcome is any error or any length.
- `json_scan.c`: a JSON text is abstracted to its leaves or to whether it is the
  one asked for. `ansi_input.c` decodes cursor keys without sharing state.
- The Wi-Fi driver, DNS, TLS, lwIP, the WebSocket library, SNTP, libcurl and
  BDOS are external; their callbacks and outcomes are modelled.
- Displays, LED, SDK wrappers, bring-up stages, extension board, build and host
  scripts have no protocol of their own.
- Debug host: 8080-only paths, cycle counts and disassembly of the core; MI text,
  value formatting, type names and floating point of the evaluator; the storage
  of the environment in a text file; the file, HTTP, time and utility ports, the
  disk emulations, interrupt timer and plug-in loader, whose board counterparts
  are modelled instead where they have a protocol.
- The Z80 software is an arbitrary issuer of port accesses. CP/M itself is
  third-party.

## Plan

Done: the board's storage, service ports, supervisor, terminals, environment,
network services and consoles; the debug host; the proofs listed above.

1. `NetworkSetup` composed with `Environment`'s port, so that the request buffer
   they share can be checked; a proof of `ReplyIsIntact` in the manner of
   `FileHolds`.
2. `BusEngine`: arm, disable, drain, bus grant and the watchdog of `banked_pio.c`,
   `io_trap.c`, `cpu.c`; the countdown timers of `io_ports.c`.
3. The bank allocator and loaders of the Z80 software.

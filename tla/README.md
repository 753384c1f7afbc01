# QoreOS: a TLA+ model of the EdgeCore kernel

QoreOS is a bare-metal kernel: one CPU boots from the firmware's page tables,
fetches a page from an NVMe drive, starts a tone, and then runs a main loop that
polls the network card, moves a window and draws; the keyboard and the mouse
interrupt it; an e1000 card, an NVMe and an audio controller and the other
processors work beside it and share memory with it. One click drops it into a
user-mode task for good. Nearly nothing is protected by a lock. This directory
models the parts that share state, checks them with TLC on small instances and
proves their safety properties with TLAPS for every size.

Paths below are relative to the repository; `src/e1000.rs` is the driver, and so
on. `PROJECT.json` lists every run, the source lines behind each definition, and
the hazards the properties are aimed at.

## 1. Inventory

| component | state | operations | shares with | hard part |
|---|---|---|---|---|
| E1000 receive (`e1000.rs`) | 32 descriptors, buffers, RDH/RDT, `current_rx_bucket` | `init_rx_ring`, `poll` | the card (DMA) | order of status, bucket and tail; full ring; frames handled in place |
| E1000 transmit (`e1000.rs`, `net.rs`) | 8 descriptors, TDH/TDT, `current_tx_bucket` | ARP reply, `arp_request`, `udp_broadcast`, `inject_frame` | the card, the keyboard interrupt, system calls | no free-descriptor test, no mutual exclusion |
| ARP table (`e1000.rs`) | 16 entries | `insert`, `lookup` | network stack | full table, changed addresses |
| network stack (`net.rs`) | none per connection | `handle_incoming_packet`, `send_tcp_syn_ack`, `send_http_response` | clients over a lossy network | retransmission, wrapping numbers |
| NVMe (`nvme.rs`) | admin and I/O queues, tail, head | `init`, `identify_controller`, `read_sector` | the controller (DMA) | timeouts, late completions, phase tag |
| mouse (`mouse.rs`) | packet assembly, three atomics | `process_packet_byte` | IRQ 12, main loop | stray bytes, three separate loads |
| main loop (`main.rs`) | window, drag, last buttons | one turn | mouse atomics | stores based on stale loads |
| frame allocator (`frame_allocator.rs`) | bitmap, `highest_frame`, `free_frames` | `init`, `allocate_frame` | firmware memory map | capacity, order of the map, what is really free |
| SMP (`smp.rs`, `main.rs`) | `AP_COUNT`, the word at 0x8600, `AP_STACKS` | `copy_trampoline`, INIT, SIPI, `ap_main` | all processors | races of the APs, fixed delays |
| FAT32 (`fat32.rs`, `main.rs`) | volume offsets, `HTTP_PAYLOAD` | `new`, `cluster_to_lba`, the boot path's reads | NVMe, web server | 32-bit arithmetic, three dependent reads that may each fail |
| system calls, ring 3 (`syscall.rs`, `usermode.rs`, `gdt.rs`, `main.rs`) | MSRs, selectors, interrupt flag, saved registers | `drop_to_usermode`, `syscall_entry`, five calls, the task | page tables, devices, terminal | selector layout, register order, pages open to user mode |
| interrupts (`interrupts.rs`) | IDT, APIC routing | keyboard, mouse, int 0x80 | everything the handlers call | handlers allocate and print |
| heap (`allocator.rs`) | 32 MB behind a spin lock | alloc, free | main loop and handlers | a handler that waits for the code it interrupted |
| page tables (`memory.rs`, `main.rs`, `smp.rs`) | the firmware's tables | walk, map, the trampoline's 2 MB, unlock for ring 3 | MMU and TLB | huge pages, missing levels, stale translations |
| terminal, compositor (`compositor.rs`) | cursor, canvas | `terminal_print`, drawing | interrupts | re-entrance |
| audio (`hda.rs`) | CORB, stream registers | `init`, `send_corb_cmd`, `play_tone` | controller and codec | timeouts, reset handshake, verbs nobody waits for |
| bootloader, discovery, early text (`bootloader/`, `main.rs`, `pcie.rs`, `vga.rs`) | BootInfo | straight-line | firmware | what it hands over |

Interaction: `_start` runs storage, then audio, then the main loop, which calls `poll`, which hands a frame to the ARP table or
to `handle_incoming_packet`, which answers through the transmit ring. The Enter
key reaches the same ring through the keyboard handler and `int 0x80`. The ring-3
task reaches NVMe and the transmit ring through system calls (interrupts off).
Mouse bytes reach the main loop only through three atomics. Main loop and keyboard
handler also share the heap and the terminal's cursor. The page tables are edited
while the APs are woken and again by the drop.

What makes each part correct is stated in section 3.

## 2. Modules

| module | models | abstracts |
|---|---|---|
| `PacketFifo` | what a ring promises: a bounded queue | - |
| `RxRing` | `init_rx_ring`, `poll`, split at each access to memory the card shares | frame content |
| `TxRing` | `init_tx_ring` and the send sequence of all four senders, one action per store | frame content; the card's speed is the constant `Backlog` |
| `ArpCache` | `ArpCache::insert`, `lookup` | addresses |
| `NetStack` | ARP, SYN and GET handling; extends `ArpCache`, adds TCP clients and other hosts | header bytes, checksums (taken as right) |
| `Nvme` | `init`, `identify_controller`, `read_sector` and a controller | sector content is the block it came from |
| `Storage` | `fat32.rs` and the reads of `_start`; extends `Nvme` | a directory is the half that holds the file's entry |
| `Hda` | `init`, `send_corb_cmd`, `play_tone` and a controller | samples; a verb is its number |
| `Boot` | the second half of `_start`: `Storage`, then `Hda` on one thread, both controllers beside it | - |
| `Pointer` | what the mouse driver promises: whole reports | - |
| `Mouse` | `process_packet_byte` under IRQ 12 | bytes after `MOUSE_CYCLE`, which are never read |
| `Desktop` | the main loop's turn, composed with `Pointer` | drawing |
| `Console` | `terminal_print`, the heap and its lock, the keyboard interrupt, on top of the main loop's sequence of allocations and prints | pixels, fragmentation |
| `FrameAllocator` | `init`, `allocate_frame` | words and bits are a set of frames |
| `Smp` | waking the APs, trampoline, `ap_main` | CPU modes are one step |
| `PageTables` | `walk_page_table`, `map_page`, `copy_trampoline`'s edits, `unlock_mmu_for_ring3`, a TLB | tables of two entries |
| `Ring3` | segments, `drop_to_usermode`, `syscall_entry`, handler, task, interrupts; extends `PageTables` | a register holds the name of its value |

`MC*` modules give TLC its instances. A definition called `X_Something` just
before `X`, with a comment that starts with "Mutant", is a plausible wrong version
of `X`; each property is known to fail when some such version takes its place.

How state and actions correspond to the code:

* **RxRing.** `status` and `buffer` are the descriptors' done bits and their
  buffers, `rdh`/`rdt` the registers. `poll` is `PollBegin` (the volatile read of
  the descriptor), `PollHandle` (the frame is used in place), `PollClear` (status
  0, next bucket), `PollTail` (the write to 0x2818), or `PollEmpty`. The card
  writes buffer and status in two steps.
* **TxRing.** Three contexts share the ring: the main loop, a system call, and the
  keyboard interrupt, which runs to its end on top of the main loop wherever
  `IrqPoints` lets it in. Address, length, command, bucket and tail are a step
  each. A frame is its number; a descriptor with parts of two frames puts a torn
  frame on the wire.
* **Nvme.** Each wait is a state left by seeing the status bit or by the counter
  running out, at any time. A data buffer has two halves, so a late DMA can be
  caught half way. The controller executes commands in any order and posts
  completions with its phase tag. The build that is booted is the debug build: a
  slice made of a null queue pointer is a panic (`IdentifyNull`).
* **Storage.** A volume record holds the fields of the boot sector, from which the
  code computes blocks, and apart from them the blocks where directory and file
  really are. `bpb` is the boot sector as read: blank if its half did not arrive.
  `OverflowPanic` is the debug build's arithmetic.
* **Hda.** The stream's reset bit as written and as read back are two variables, as
  the controller follows later. `patient` records that the last wait saw the reset
  end, which is the condition under which the tone is promised.
* **NetStack.** `net` holds every segment ever sent; any may be received again or
  never, also in a later connection from the same port. Clients number, retransmit
  and accept as RFC 793 says. A client's plan is a request in one pushed segment
  (`whole`), one cut after "GET" with both segments pushed (`afterGet`), or one
  write cut in two, of which only the last is pushed (`lastPushed`), as TCP stacks
  do it. A segment's `conn` is a history variable: neither side reads it.
* **Console.** The thread's work is a script of heap operations and prints; a heap
  operation is `Lock` and `Unlock`, a print goes through one load or store of
  `TERM_X` or `TERM_Y` at a time. A key's handler is one step, possible at every
  point; it stays in `spin` for ever if it finds the lock held.
* **PageTables.** `mem` is the memory that holds the tables, so one edit is one
  update and a table reached by two ways would be one. `intent` records what each
  address is meant to map to. `TlbFill` may happen between any two writes. The
  firmware may have left its tables read-only (`ro`): the kernel then gets past a
  write to them only while CR0.WP is clear (`Editable`). `map_page` does not clear
  it, so it is only called where the tables may be written to.
* **Ring3.** `regs` starts as every register holding its own name, so the gate is
  right when the names are back in their places and the result is in `rax`.
  `Result` is what each call returns, the ones the task does not make included;
  what it prints or draws is left out. An interrupt pushes the stack
  segment, `Iretq` checks it; `sysretq` (in `GateExit`) does not.
* **Mouse.** `packet` and `sending` are the mouse's side. `StrayAck` is the edge of
  IRQ 12 that `mouse::init` leaves pending because it reads the acknowledgments
  with interrupts off after the line was routed (`main.rs` 263-269).
* **Desktop.** Loads and conditional stores are steps of their own; the rest of
  the turn works on locals and is one step, with one action per branch.
* **FrameAllocator.** One action per descriptor of the map, then one per call.
* **Smp.** Return addresses on the shared stacks are modelled, because the build
  that is booted is the debug build, where `fetch_add` is a call.

## 3. Runs

With two workers the longest runs, `boot` and `net_stack`, take about two
minutes.

### Properties that hold

| run | instance | what it shows |
|---|---|---|
| `rx_ring` | 3 descriptors, 7 frames of 2 kinds | `RingInv`: the done bits are exactly the frames between `poll` and the card. `ZeroCopyStable`: a frame being handled does not change. `RxIsFifo`: the ring implements `PacketFifo`. `AllDelivered`, `RingReopens` (liveness). |
| `tx_ring` | 3 descriptors, 7 frames, Enter between sends, card at most one behind at a send | `TxInv`, `NoWriteUnderDma`, `TxIsFifo`, `AllTransmitted` (liveness) |
| `boot` | queues of 2, 3 reads, 7 volumes, one bad block; CORB of 4, 3 verbs; any wait may give up | `NeverWrongSector`: a read returns its sector or zeros, never another's data. `SeenMeansDone`: a completion seen in the first round means the sector is complete. `PayloadHonest`, `PayloadFound`: the page is the file's, and all of it when the reads were whole. `PanicExplained`: no panic but through a null ring or a block number that overflows. `VerbsInOrder`, `StreamPlays`. `BootEnds` (liveness). |
| `net_stack` | 2 clients with 2 connections each, requests whole, cut, and pushed only at their end, a gateway that changes its address, numbers modulo 16 that wrap on both sides, 2 ARP entries | `NeverStale`, `NeverForgotten` (ARP); `BodyOnce`: each connection accepts one page, its own; `AckWithinSent`; `Served` (liveness): a connection whose GET segment is pushed is answered in the end |
| `mouse` | 5 reports, one of them with a last byte that looks like a first; at most one stray byte | `ReportsWhole` (each step is one of `Pointer`'s) until the stray byte, `Resyncs` after it |
| `desktop` | screen 4 by 5, window 2 by 3, two reports per turn | `CursorOnScreen`, `WindowOnDesktop`, `DragHolds`, `DragEnds` (liveness) |
| `frames` | all maps of 3 disjoint descriptors over 7 frames, 5 tracked | `NeverTwice`, `Accounting`, `NoneMeansNone` |
| `smp` | 3 APs, 2 stacks | `CountHonest`, `ReturnsHome`, `Parks` (liveness) |
| `console` | 3 columns by 3 lines, a heap of 9 allocations, with and without a card | `CursorInside`: no interleaving of keys and prints takes the cursor off the canvas where it is drawn with. `LoopLives`: the loop comes back to `hlt` for ever unless Enter hits a heap operation or the heap is full of sent frames. |
| `ring3` | tables of 2 entries in every shape (levels missing, huge pages, read-only or not), 3 addresses with a TLB entry | `TranslationExact`: no operation moves or unmaps an address it was not asked to. `TlbCoherent`: between operations the TLB says what the tables say. `GateTransparent`: the handler gets its arguments in order, and a system call changes no register of the task but `rax` and `r12`, which both hold the result. `TaskCompletes`: after the click the task reaches its idle loop and stays there; it would not if `unlock_mmu_for_ring3` left CR0.WP set. |

### Statements of the repository that the code does not keep

| run | statement | what happens |
|---|---|---|
| `tx_irq_race` | "[SYN-ACK] TRANSMITTED TO HOST." | Enter in the middle of a send: two senders share a descriptor |
| `smp_stacks` | "perfectly safe static stacks" | `xadd` adds 0: every AP takes the same stack |

The findings in `PROJECT.json` quote the lines.

Other disagreements were noted while modelling. They follow from a single place
in the code, or from a state the shipped kernel does not reach, so they have no
run:

* "Wait for Hardware Completion" (`nvme.rs` 170): the loop waits for bit 0 of the
  status, the phase tag, which is 0 in every second round of the queue. The 17th
  read would wait in vain; the shipped kernel makes four at most.
* "Drive READY!" (`nvme.rs` 93): the waits for the queue creations end with
  `break`, so the line is logged without queues too.
* "NVME DMA COMPLETE" (`syscall.rs` 113): logged after a timeout or an error
  status as well; the buffer is then zero or half filled.
* `nvme.rs` 41 and 51, `hda.rs` 34: init returns early with null rings and its
  caller goes on; the next call panics (`IdentifyNull`, `VerbNull`).
* "440HZ TONE STREAMING!" (`hda.rs` 157): logged also when the stream is still in
  reset; `sdctl |= 1 << 4`, "Assign Stream Number 1" (151), sets an interrupt
  enable, the stream number being in the third byte of the register.
* "HARDWARE TRANSMIT (TX) COMPLETE!" (`syscall.rs` 138): no sender looks at TDH or
  at a done bit, so a card a whole ring behind has unsent descriptors overwritten
  or takes a full ring for an empty one (in `TxRing`, `Backlog >= NumTx - 1` makes
  TLC find `TxIsFifo` and `AllTransmitted` violated).
* `net.rs` 88 answers pushed segments only, and acknowledges no other data. A
  client whose one write is cut in two (`lastPushed`) pushes the second segment,
  which does not start with "GET": it is never answered and sends the same again
  for ever. `Served` excepts it (`Answerable`) and does not hold without that.
* "SOCKET CLOSED." (`net.rs` 143): no FIN is ever sent.
* "We have a full 3-byte packet!" (`mouse.rs` 73): `StrayAck` starts a packet that
  the mouse never sent, since bit 3 of 0xFA is set. `Resyncs` says that this heals.
* "Raw, untouched RAM." (`frame_allocator.rs` 35): the bootloader copies the kernel
  to its link address without allocating it, so its frames are marked free; and it
  measures the memory map before it allocates the pool for it. `allocate_frame` has
  no caller yet.
* `syscall.rs` 56 returns the result through `r12`, which no `asm!` of the task
  names as overwritten (`main.rs` 49-91). `GateTransparent` says that `r12` holds
  the result, as `rax` does and should.
* `syscall.rs` 19: `sysretq` loads as SS the upper half of the TSS descriptor. It
  works because the task runs with interrupts off, so nothing reloads it
  (`TaskCompletes`, whose mutant switches them on).
* `main.rs` 66 reads through the sector pointer without a test; without a drive it
  is null, and the outcome depends on whether the first page is mapped.
* `smp.rs` 110 cuts CR3 to 32 bits, and `main.rs` 238 does not advance on a MADT
  entry of length 0.

### Why the bounds are enough

Rings of three descriptors have an empty, a partly filled and a full state, and
seven frames carry every index twice round. NVMe queues of two entries and three
reads reach the second round; `U16 = 8` and `U32 = 64` stand for 2^16 and 2^32, so
that one volume's cluster number needs its upper half and two volumes overflow.
`NumVerbs < CorbSize`, as 7 < 256: the ring never fills. Two connections
(`MaxConns`) are what a stale answer needs to be mistaken; `SeqMod = 16` keeps
the distance of TCP's windows (`NetAssumption`). Five frames of tracked memory out
of seven have descriptors below, across and beyond the capacity; in `smp` there
are more APs than stacks. In `desktop`, `MaxReports` bounds the reports during one
turn: two, because one between a load and a store and another one before the next
load is what a turn can confuse; `Half` is the range of the atomics (2^31 in the
code). In `console` three columns and lines have a first, a middle and a last;
`HeapUnits = 9` is six leaked frames more than the most temporaries alive
(`MaxHeld`). In `ring3` two entries per table give a left and a right neighbour of
each edit; `Watched` holds an address of the first 2 MB, one in a page table of its
own and one in the second half, `NewFrames` one frame that differs from all of
theirs. `MaxPackets`, `MaxFrames`, `MaxReads` and `MaxStrays` bound histories.
The safety properties are also proved without these bounds (section 4), except
that page tables keep their two entries.

### Fairness

* The CPU runs: weak fairness of the steps of `poll`, of a send, of `Kernel` in
  `Boot`, of `thread` in `Console`, of a turn. There is no scheduler that could
  keep them from running. In `Ring3` the kernel's way to the drop has strong
  fairness (`bootAndDrop`): interrupts suspend it again and again, and each
  returns. Once a handler spins, `thread` is disabled.
* Devices: the card finishes a descriptor it has begun (`DmaStatus`) and sends
  what it is given (`Transmit`). The NVMe and audio controllers have **no**
  fairness: `BootEnds` rests on the counted loops alone.
* Interrupts go on arriving (`Interrupt`, `Wake`) where `hlt` needs them. The
  repository's README tells the user to move the mouse for this reason, and no
  network interrupt is routed. In `Console` and `Ring3` no key need be hit.
* Network: a client retransmits until it is answered, and a segment sent again
  and again is received (`Request`, `Serve`, `Receive`).
* Mouse: strong fairness of the report at rest, since the user lets go of the
  mouse again and again.
* Smp: processors run; whether INIT arrives before the SIPI is left open.

## 4. Proofs

Every invariant a run checks, the action properties `NeverForgotten` and
`ReportsWhole`, and the refinements of `PacketFifo` and `Pointer` are theorems: TLC
shows them on the instance of section 3, TLAPS for every value of the constants
that the named `ASSUME`s admit. For each module the inductive invariant is given,
with what it adds to the property and why the property alone is not inductive.

| module | theorems | argument |
|---|---|---|
| `RxRingProofs` | `TypeCorrect`, `RingCorrect`, `ZeroCopy`, `RefinesFifo` | `RingInv` is inductive with the types. `Ahead(i)` numbers the slots from `current_rx_bucket`; the lemmas say how a step of either index shifts it, so no leaf reasons about `%`. That the descriptor at the tail is never given to the card keeps head and bucket apart. |
| `TxRingProofs` | `TypeCorrect`, `RingCorrect`, `DmaSafe`, `RefinesFifo` | `TxInv`: one sender, its descriptor lies outside head..tail, and head..tail holds the submitted frames in order. `TypeCorrect` needs nothing; the others assume `NoRace` (Enter only between sends) and `CardKeepsUp` (`Backlog <= NumTx - 2`). The run `tx_irq_race` shows that the first cannot be dropped; without the second, TLC finds `TxIsFifo` violated. |
| `NetStackProofs`, the table | `TableCorrect`, `Unique`, `LookupCurrent`, `Remembered`; `StackUsesTable`, `StackLookup`, `StackRemembers` | `TableInv` adds to `NeverStale` that every active entry holds its host's last announcement. The first match is well defined by well-foundedness of `<`. `StackUsesTable`: every step of the network stack is one of the table or leaves it alone, so the results hold there too. |
| `NetStackProofs`, TCP | `SegmentsCorrect`, `AcksAreWithin`, `PagesCorrect`, `PagesOnce` | The network keeps every segment, so the invariants speak of all of `net`. `NetInv`: a request carries bytes its client had sent, an answer acknowledges just the request that caused it. `PageInv` adds where the numbers come from: each request goes back to a SYN of its own connection, and the SYNs of one port are `Apart`, so that an answer a client accepts cannot be one of an earlier connection. The lemmas on `Plus` and `Minus` do the arithmetic modulo `SeqMod` once; `NetAssumption` (two exchanges are shorter than half the number space) is what they need. |
| `BootProofs`, audio | `AudioCorrect`, `VerbsAreInOrder`, `StreamsPlay` | `HdaInv`: entry *i* of the CORB is verb *i* up to the write pointer, what the codec executed is what lies before its read pointer, and the stream's registers are set by the time it runs. It needs `NumVerbs < CorbSize`: no index wraps. |
| `BootProofs`, storage | `StorageCorrect`, `NoWrongSector`, `PagesAreHonest`, `PagesAreFound`, `PanicsExplained` | `NvmeInv`: a command, wherever it is (in the queue, stale in an old entry, in flight), points to the buffer of the read that asked for its block, and a half of a buffer is empty or that block's. A timed-out read's data therefore lands where nobody else looks. `StorageInv` adds, for each stage of the boot, which reads were made and from which blocks (`Stage`). `StorageAssumption` lays a volume out as FAT32 does, and `PagesAreFound` is that `fat32.rs` computes those places. |
| `BootProofs`, completions | `FirstRoundCorrect`, `SeenIsDone` | `SeenInv`: while no more reads were issued than the queue has entries, completions occupy a prefix of the queue, the driver looks at entry *n - 1* for read *n*, and each completion posted uses up one whole sector. The counting argument is the reason a set bit means this read: fetched, posted and in-flight commands are numbered (`Round`). After the first round this fails, as the phase tag (section 3) says. |
| `DesktopProofs`, the turn | `LoopCorrect`, `CursorStaysOn`, `WindowStaysOn`, `DragsHold` | `LoopInv` adds what each local is known to satisfy at each step of a turn: the clamped coordinate is right although a report may overwrite the atomic it was stored to. |
| `DesktopProofs`, the mouse | `WholeReports`, `RefinesPointer` | `InStep`: until a stray byte comes, the driver's packet is the part of the report sent so far. `WholeReports` holds with stray bytes, for the time before the first; `RefinesPointer` (`Mouse` implements what `Desktop` is built on) assumes that none comes, `MaxStrays = 0`. After one, the property is `Resyncs`, which is liveness. |
| `ConsoleProofs` | `AlwaysConfined`, `CursorStaysInside` | `Confined` says how far past an edge the cursor may be at each step of a print, with the handler's prints in between (`LineFeedStays`, `GlyphStays`, `BannerStays`), and what the thread's register may hold when it stores it over them. |
| `BringUpProofs`, frames | `AllocatorCorrect`, `Exclusive`, `CountExact`, `RefusalHonest` | `AllocInv` adds that no bit lies beyond `highest_frame` (why the end of the search is right) and that a refusal leaves no bit. Counting uses the library's facts on unions of finite sets, and the assumption that UEFI's descriptors are disjoint. |
| `BringUpProofs`, processors | `BringUpCorrect`, `CountIsHonest`, `EveryReturnHome` | `SmpInv`: all APs are on one stack, and what lies on it at each depth is the return address of the one call site that writes there, whoever wrote it (`OneSite`). That is why sharing the stack does no harm, for any number of APs. |
| `Ring3Proofs`, the gate | `GateCorrect`, `GateIsTransparent` | `GateInv`: the stack holds the task's registers while the kernel works, in the order they are popped, `rax` holds the call's result on the way out, and interrupts stay masked. |
| `Ring3Proofs`, the tables | `TablesCorrect`, `TranslationsExact`, `TlbIsCoherent` | `PageInv`: the tables are a tree (`Shape`: each is referred to from one place), so an edit changes the walk of the addresses below it and of no other; the trampoline's tables are the ones it installed (`Injected`); the walk gives the intended page (`Exact`); the TLB is behind only inside an operation that ends in a flush (`Coherent`). |
| `Ring3Proofs`, the task | `TaskCorrect`, `FaultsExplained` | The safety half of `TaskCompletes`. `TaskInv`: during `unlock_mmu_for_ring3` every entry on the way to a mapped page is open or still to be visited, so at its end all are open; a frame pushed by an interrupt holds the kernel's stack segment. So the only fault of the task is the null sector pointer where page 0 is not mapped. |

What the proofs rest on:

* The named `ASSUME`s of the modules; TLC evaluates them on every run. They are
  facts about what surrounds the code (UEFI's descriptors are disjoint, FAT32's
  layout, bit 3 of a mouse report's first byte is set) or about sizes the code
  fixes (a queue has two entries or more, the window fits on the screen, the ring
  is longer than the tone).
* `TxRingProofs` and `RefinesPointer` have hypotheses of their own, named above.
* `Ring3Proofs` is about tables of two entries, as `PageTables` is: every shape the
  firmware may hand over, every watched set and every new frame, not 512 entries.
* A client chooses its initial number so that it leaves all its earlier connections
  behind (`Reconnect`). The attempt to prove `PagesOnce` showed that leaving only
  the last one behind, as the model first had it, is not enough with three.

The type invariants, `Partition`, `OneEntryPerHost` and `FaultExplained` are parts of
these results and not of a run.

Only model-checked, because the prover has neither fairness nor `ENABLED`:
`AllDelivered`, `RingReopens`, `AllTransmitted`, `BootEnds`, `Served`, `Resyncs`,
`DragEnds`, `Parks`, `LoopLives` and `TaskCompletes` (but for its safety half). The two
statements the code does not keep, `LoggedIsTransmitted` and `StacksApart`, are
refuted by their runs.

## 5. Not modelled

The bootloader, device discovery and the early text writer are straight-line code
without shared state; what they find or hand over is chosen in the initial states.
Of the modelled parts: checksums, header layout and frame lengths; requests cut
inside "GET"; drawing; the register writes of IDT and APIC set-up; the heap's free
list (an external crate); what system calls 2 and 3, which the task does not make,
do to canvases; what a page fault does beyond stopping the kernel. The driver
actions of a system call are modelled where their device is (`SysRead`, `TxRing`),
not once more in `Ring3`.

## 6. Plan

1. Done: the rings and their abstract queue, ARP, network stack with port reuse,
   NVMe, FAT32 and audio as one boot, mouse and main loop, terminal, heap and
   keyboard, frame allocator, SMP, page tables, system call gate and ring 3.
2. Done: every safety property of a run proved, and the refinements.
3. Left: the safety half of `LoopLives` (the thread holds the lock, or a handler
   found it held) as a theorem; `Ring3Proofs` for tables of any size, which needs
   addresses as sequences of indices in `PageTables`; the transmit ring with
   `Backlog` replaced by a condition on each sender.

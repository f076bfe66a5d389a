# Storage, emergency access and Ethernet: models, checks and proofs

A verification project for three parts of this OpenWrt/ImmortalWrt tree for
MediaTek mt798x routers, each with logic that is easy to get wrong and hard to
test:

* **NMBM**, the *NAND mapped-block management* in
  `target/linux/generic/files-5.4/drivers/mtd/nmbm/`. It sits between the raw
  NAND driver and UBI or squashfs, hides bad blocks by remapping logic blocks to
  spare ones, keeps the map in two info tables on the same chip, and rebuilds
  everything at boot. When it is wrong the router loses its firmware, its
  configuration or its calibration data, usually after a power cut or once
  blocks have worn out.
* **ead**, the emergency access daemon in `package/network/services/ead/src/`:
  a login and one command over broadcast datagrams, served below the IP
  configuration by processes that a supervisor replaces as bridges change.
* **mtk_eth_soc**, the Ethernet driver in
  `target/linux/mediatek/files-5.4/drivers/net/ethernet/mediatek/`: several
  netdevs on one transmit ring that is filled under a lock, emptied by the
  hardware, cleaned without a lock, and freed and allocated again by a reset.

NMBM is the core of the project and has most of the modules; all three have
proofs. Line
references without a file name are to `nmbm-core.c`, in the parts on ead to
`ead.c`, in those on Ethernet to `mtk_eth_soc.c`.

## 1. Inventory

### Parts of the repository

| part | where | here |
|---|---|---|
| NMBM core | `nmbm-core.c`, `nmbm-private.h`, `include/nmbm/nmbm.h` | `NmbmFlash`, `Nmbm`, `NmbmDevice`, `NmbmRefines`, `NmbmGeometry`, `NmbmProofs`, `NmbmLayoutProofs`, `NmbmCountProofs`, `NmbmDataProofs` |
| NMBM MTD layer | `nmbm-mtd.c` | `NmbmMtd`, `NmbmMtdProofs` |
| NMBM debug statistics | `nmbm-debug.h`, empty `nmbm-debug.inl` | no behaviour depends on it |
| ead | `ead.c`, `ead-client.c`, `ead-crypt.c` | `EadSupervisor`, `Ead`, `EadProofs` |
| mtk_eth_soc | `mtk_eth_soc.c`, `mtk_eth_reset.c`, `mtk_eth_dbg.c` | `MtkEth`, `MtkEthProofs`: transmission, opening and closing, reset |
| mtk-snand | `mediatek/files-5.4/drivers/mtd/mtk-snand` | the chip below NMBM; its results are choices of the model |
| mtk_hnat | beside mtk_eth_soc | not modelled (flow table of the hardware) |
| shortcut-fe, 8021xd | `package/...` | not modelled (vendored) |
| swconfig, gpio-button-hotplug | kernel glue | not modelled |
| sysupgrade, mtwifi scripts, build system | shell and make | not modelled |

The tree is mostly a build system with thousands of package recipes, patches and
vendored sources: register headers and switch SDKs, file systems and drivers
copied from elsewhere. What is modelled is code that runs on the device, belongs
to this tree, and has state that several actors or failures can spoil.

### NMBM

* **On the chip.** The chip is cut at `mgmt_start_ba`: below it are data blocks,
  above it the management area. There, from the bottom up, lie the main info
  table, spare blocks, the backup info table, unmapped spare blocks, remapped
  blocks, and the signature as high as possible. Tables grow upwards
  (`mapping_blocks_ba`), remapped blocks grow downwards
  (`mapping_blocks_top_ba`), and they meet when the chip is worn out.
* **In memory** (`struct nmbm_instance`): a state for each physical block (good,
  bad, need-remap), the mapping, two counters of changes not yet saved, the
  write count, the addresses above, `data_block_count`, and `protected`.
* **Operations.** `nmbm_attach` finds the signature, or creates it and the
  tables; then it loads the newer table and repairs the other one.
  `nmbm_erase_block_range` erases, and remaps a block that is bad or fails.
  `nmbm_write_*` programs pages and notes a failure. `nmbm_read_*` reads.
  `nmbm_mark_bad_block` gives a block up. `nmbm_detach` saves.
  Underneath, `nmbm_update_info_table` rewrites the backup table, then the main
  one, and falls into `nmbm_rescue_main_info_table` or
  `nmbm_rebuild_info_table` when blocks fail on the way.
* **The MTD layer** turns MTD calls of any number of tasks into calls of the
  core, one at a time: `nmbm_get_device` and `nmbm_release_device` are a lock
  made of a state word, a spin lock and a wait queue. All calls stage pages in
  one `page_cache`. Shutdown takes the lock and keeps it.

### ead

* **Supervisor** (the main process): per interface a pid, the name of the bridge
  the interface is in, and a mark used while bridges are listed. Once a second
  it lists the bridges, stops the servers whose interface has moved, and starts
  the missing ones. A server opens its capture handles once, on the bridge its
  record names when it is forked.
* **Server** (one process for each interface): the protocol state, one SRP
  session (`ts`, `B`), the key and message counters of the encrypted channel,
  and `child_pending`. `parse_message` runs the handler of a request if it fits
  the state, sends the answer, and moves on with `set_state`. `handle_send_cmd`
  forks the command and stays in a loop that streams its output.
* **Client**: one run of `ead-client` sends six requests, each once, and gives up
  when the answer does not come in time.
* They share nothing but broadcast datagrams, which are lost, doubled and late;
  the supervisor kills servers at any point; the signal of a child's end arrives
  anywhere in the stream loop.

### mtk_eth_soc, transmission and reset

* **Ring** (`struct mtk_tx_ring`): a circle of descriptors with `next_free`,
  `last_free`, `free_count` and a buffer each. `mtk_start_xmit` fills it under
  `page_lock` and tells the engine; the engine sends and raises its interrupt;
  `mtk_napi_tx` frees what is sent, without a lock, and wakes the queues.
* **Users**: `mtk_open` and `mtk_stop` count users in `dma_refcnt`; the first
  starts the engine, the last frees the ring.
* **Reset**: a timer looks at the engine every second and asks for a reset at the
  third bad look; so do the transmit timeout and a debugfs file.
  `mtk_pending_work` stops every netdev, resets the hardware, and opens them
  again, with `MTK_RESETTING`, `reset_lock`, `force` and the RTNL between it and
  the others.

### What is hard

Power may fail at any erase or program, including those of the repairs after an
earlier power cut; any block may fail, including those that hold the tables;
bad marks may fail to be written; spares run out; the same table is found,
moved, rebuilt and rescued in many orders; tasks race for the lock and for the
page buffer. Requests of two clients interleave on one session; datagrams come
twice or late; servers die and are replaced while a command runs. The ring is
used from both ends while it may be freed; interrupts, masks and positions are
read one after the other; a request to reset may fall into another reset.
`PROJECT.json` lists each of these hazards at its line, with the property that
would catch it. A hazard without one has a note; for several of them the code is
known to do what one would not want, no text promises otherwise, and the property
nearest to it leaves that case out by name (`foreign`, `missed`, section 4).

### What makes the parts correct

* NMBM core: acknowledged data survives (`DataRecoverable`, `DataIntact`); a
  mapping is always recoverable and is the old or the new one (`Durable`); all in
  all it is a block device whose operations touch the block they are about and
  no other (`ImplementsDevice`); equal write counts mean equal tables
  (`WriteCountIdentifies`); what is used is saved (`MappingSaved`); no physical
  block serves two logic blocks (`NoSharing`); the areas do not run into each
  other (`Layout`, `TableWritesInside`, `SignatureSafe`); blocks are given up
  only for failures of their own (`BadMeansMarked`); calls end (`Terminates`);
  the signature is found where it was put (`NmbmGeometry`).
* MTD layer: one task at a time (`Exclusive`); reads are snapshots, writes carry
  their own data (`ReadIsSnapshot`, `WritesOwnData`); sleepers are woken
  (`WaiterWakes`); nothing touches the flash after a shutdown
  (`SuspendedIsFinal`).
* ead: a command runs at most once, for one who knows the password (`RunsOnce`);
  success is reported only when it is true (`SuccessIsTrue`); handlers never
  meet a closed session (`SessionOpen`); the end of a command is reported after
  it (`DoneAfterExit`); a new client succeeds whatever the last one left
  (`Recovers`); servers follow their interfaces (`RecordsTrue`,
  `FollowsBridge`).
* Ethernet: the two ends of the ring agree (`RingConsistent`); nobody uses a
  freed ring (`RingInUse`, `UsersHaveDma`); no completion is missed
  (`RungIsFreed`); stopped queues are woken (`QueueWakes`); a hang is reset
  (`HangIsReset`).

## 2. Modules

### `NmbmFlash`: the chip and the pure functions

A physical block holds one abstract content: blank, torn, the signature, the
data of a logic block, or one chunk of an info table (a record of write count,
block states and mapping). Magic numbers, sizes and CRCs appear as the fact that
torn or foreign content never passes as a table. The walks over good blocks,
`nmbm_try_reserve_blocks`, `nmbm_build_mapping_table`, `nmbm_find_signature` and
`nmbm_check_info_table` are operators with the names of the code. A walk returns
a set with the block found, empty where the code returns false.

### `Nmbm`: the core as a small-step machine

One step is at most one erase or one program of one physical block. `pc` names
the point reached, `w` is the frame of the innermost loop over blocks
(`nmbm_write_mgmt_range`, `nmbm_erase_range`), `loc` holds the locals and return
points of the functions around it. `cell` and `oob` are the chip and survive;
`ni`, `w` and `loc` are RAM and do not.

| actions | code |
|---|---|
| `WriteErase`, `WriteProgram`, `WriteReturn`, `nmbm_erase_range` | 645-723, 892-1004 |
| `RebuildMain`, `RebuildBackup` | `nmbm_rebuild_info_table`, 1103-1171 |
| `nmbm_update_info_table`, `UpdateBackup`, `UpdateMain` | 1466-1585 |
| `RescueTmp`, `RescueMain` | `nmbm_rescue_main_info_table`, 1317-1455 |
| `nmbm_map_block`, `MapFailed` | 1592-1619 |
| `nmbm_attach`, `nmbm_write_signature`, `SignatureProgram` | 789-828, 1672-1726, 2324-2381 |
| `nmbm_create_info_table`, `CreateMap`, `CreateMapped`, `CreateDone` | 1627-1666 |
| `SearchFirst`, `SearchSecond`, `nmbm_load_info_table`, `LoadDone` | 1801-2041 |
| `UpdateSingle`, `RescueFront`, `RescueNext` | the repairs at load, 1180-1308 |
| `EraseBegin`, `nmbm_erase_logic_block`, `EraseMapped` | 2409-2518 |
| `WriteBegin`, `nmbm_write_logic_page` | 2690-2836 |
| `nmbm_mark_bad_block`, `BadDone` | 2874-2906 |
| `nmbm_detach`, `Detached` | 2387-2398 |
| `PowerFails`, `FailBlock`, `Retired` | the environment |

Abstractions, and why they keep what matters:

* `dirty` stands for `block_state_changed` and `block_mapping_changed`, which
  the code always tests together and clears together.
* A block is programmed in one step. A power cut leaves it torn; for the
  signature, which is written to every page, it may leave a readable copy.
* A block in `Weak` may fail any erase or program, at any time, and may succeed
  the next time. The driver then marks it bad on the chip; with `MarkMayFail`
  that may fail as well, and the old content may then still be readable.
* A torn block may or may not give an ECC error when the load reads it.
* Users of a NAND program a block once after an erase. `expect` records what the
  user of each logic block was last told; it is forgotten while an operation on
  that block is under way, and when no table can be found and the chip is
  created anew (`Durable` says when that cannot happen).
* Calls do not overlap: `nmbm-mtd.c` holds the device lock around each
  (`Exclusive` of `NmbmMtd`). An erase of a range is a sequence of erases.

Two parts of the code are unreachable and so have no action: the rest of
`nmbm_rescue_main_info_table` from line 1408 on, because the main table is
written with the start of the temporary table as its limit; and the wish to
rebuild when `main_table_ba` is 0 in an update, because every attached instance
has a main table (`WriteMain` keeps the test, no state meets it).

### `NmbmMtd`: tasks, lock, page buffer

A step is one section under the spin lock, or one page of one call. `state`,
`wq` and `asleep` are the lock word, the wait queue and the tasks in
`TASK_UNINTERRUPTIBLE`. A task that prepared to sleep and is woken before
`schedule()` does not sleep. Contents are named after the task that wrote them,
so that a mix-up shows. Reads without OOB go straight to the caller's buffer
(`nmbm_read_range`); they are treated like the others, which use the shared
buffer and are the harder case.

### `NmbmDevice`, `NmbmRefines`: what the core promises

`NmbmDevice` is a block device without tables, mappings or spare blocks: what
each block stores, what a read returns, what the users were told, and the block
under work. `NmbmRefines` maps the core to it. `store` is read off the chip the
way the next attach would read it: the table that would be adopted, its mapping,
and the cells behind it. So a table write, however many steps it takes, must
switch the block under work in one step and leave the others, and when an
operation returns, its result must already be what a power cut would leave. A
device that protects itself refuses reads (2033), which the abstract device
allows.

### `NmbmGeometry`: where the management area begins

`nmbm_create_new` (1677) and `nmbm_find_signature` (2114) compute the boundary of
the management area in 32-bit arithmetic and round at different places. The
module has both and proves how they relate. It has no state and no run.

### `EadSupervisor` and `Ead`

`EadSupervisor` is the main process: `inst` are its records, `proc` the real
processes, `port` the bridge each interface really is in. Bridges are listed one
per step (`check_bridge`), so that a port may move in between; `Sweep` is the
rest of `check_all_interfaces`, `StartServer` one round of `start_servers`.
`Ead` extends it with a server on the first interface, clients, their commands
and the network.

| actions | code |
|---|---|
| `parse_message` with its handlers, `Discard` | `ead.c` 374-470, 584-678 |
| `handle_send_cmd`, `StreamSelect`, `StreamCheck`, `StreamEnds` | 472-580 |
| `ChildExits` | `instance_handle_sigchld`, 757-763 |
| `Start`, `ClientReceives`, `GiveUp` | `ead-client.c` 77-433 |
| `Decrypts`, `Counted`, `Result` | `ead-crypt.c` 72-179 |
| `SupervisorStep`, `ForkFails`, `Interrupt`, `Crash` | 739-970 |
| `Lose`, `Unheard`, `Tick`, `PortMoves`, `ChildWrites` | the environment |

Abstractions: SRP is symbolic, two keys agree iff A, B and the verifier do; a
message under a foreign key fails to decrypt. (In the code the counter is stored
before the hash is compared, so that such a message would have to carry, by
chance, one of 128 counters out of 2^32 to have an effect.) Message counters are
relative to the one the key defines. The identity of the interface in `sid` is
the one that clients send, that of the first interface. A tick is 200 ms, long
compared with what a process does: a datagram that is receivable when a tick
passes counts as delayed, which is a fault. `ead-client` only asks for normal
commands or for none; the others, which the server also takes, come from other
clients. The server reads the eight bits of a command's type with `ntohs` (491):
`EAD_CMD_NORMAL` is zero and stays so, `EAD_CMD_BACKGROUND` is recognised on a
big-endian server and becomes 256 on a little-endian one. So `Kinds` has
"background", the request as a big-endian server sees it, and "other", the same
request elsewhere and every unknown type, which the `default` branch drops after
the counter is stored. `pipe` fails before `child_pending` is set, `fork` after
it, and a copy of every request may be left in the network.

The stream loop has three steps, between which the signal of a child, an
interrupt or a datagram may come: `select` with `read` (`StreamSelect`), the test
at 564 with the answer and the test of the time (`StreamCheck`), and what follows
the loop, from the test of `child_pending` at 571 on (`StreamEnds`).

### `MtkEth`: transmission, users, reset

Only distances on the circle of descriptors matter, so the ring is the sequence
of buffers in use, from `last_free` on, and the positions of the engine and the
poll are counted from there. A step ends where another processor can come between
and see it: `mtk_start_xmit` tests `free_count`, `mtk_tx_map` fills, `XmitStops`
stops the queue after either test; the poll reads the position (`PollBegins`),
unmaps a descriptor and moves `last_free` to it (`mtk_poll_tx_qdma`), counts it as
free (`CountFreed`; until then the two ends differ by one, `Uncounted`), wakes the
queues and looks at the status again (`mtk_napi_tx`), and enables the interrupt in
a step of its own. Two things are joined that the code does one after the other:
what `mtk_tx_map` writes under `page_lock`, of which the poll sees nothing before
the engine is told, and the test and waking of the queues at the end of a poll.

The poll also stops at a descriptor that the engine has not given back (1569).
That the engine gives back what lies before the position it reports is taken as
its promise, so this break is not in the model: `RungIsFreed` would not hold for
an engine that breaks it. `mtk_check_reset_event` finds a reset due when `force`
is set or when the interrupt status of the frame engine shows an error; the latter
may be at any time, as an event of the bound, since `FQ_EMPTY` is not an enabled
interrupt and nobody clears it before the work reads it.

| actions | code |
|---|---|
| `mtk_start_xmit`, `mtk_tx_map`, `XmitStops` | 996-1329 |
| `mtk_handle_irq_tx`, `mtk_poll_tx_qdma`, `CountFreed`, `mtk_napi_tx`, `mtk_tx_irq_enable` | 662, 1247-1270, 1551-1705, 2528 |
| `mtk_stop`, `mtk_dma_free`, `dev_close` | 2461-2499, 2703-2780 |
| `mtk_open`, `dev_open` | 1744-1831, 2643-2701 |
| `mtk_dma_monitor`, `mtk_tx_timeout`, `mtketh_debugfs_reset` | `mtk_eth_reset.c` 189-302, 2501, `mtk_eth_dbg.c` 318 |
| `WorkBegins` to `WorkEnds` | `mtk_pending_work`, 3048-3172 |
| `HwSends`, `HwHangs` | the engine |

`missed` and `events` are history: `missed` says that a request to reset was
swallowed, see section 4. The three hangs that the monitor tells apart have the
same code and are one. Receiving shares the engine's switch and nothing else with
this side.

### `NmbmProofs`, `NmbmLayoutProofs`, `NmbmCountProofs`, `NmbmDataProofs`, `NmbmMtdProofs`, `EadProofs`, `MtkEthProofs`

Theorems and proofs, see section 5. Operators introduced by a comment
`Mutant:` are not part of the specification. Each is a plausible slip in the
definition that follows it, kept to show that a property notices it; the pairs
are listed in `PROJECT.json`.

## 3. Runs

| run | module, constants | properties |
|---|---|---|
| `power_cut` | `NmbmRefines`: 13 blocks, 1 factory bad, 1 weak data block, power cuts, 3 boots | `TypeOK` `WriteCountIdentifies` `DataRecoverable` `NoSharing` `Durable` `ImplementsDevice` |
| `wear` | `Nmbm`: 13 blocks, weak: a data block and the 5 lowest management blocks, 2 boots | `DataIntact` `NoSharing` `Layout` `MappingSaved` `BadMeansMarked` |
| `repairs` | `Nmbm`: 12 blocks, weak: 6 management blocks, power cuts, 2 boots, weak fairness of the driver | `DataRecoverable` `DataIntact` `Layout` `MainTableReadable` `MappingSaved` `Terminates` |
| `worn_out` | `Nmbm`: 8 blocks, weak data, table and signature blocks, failing bad marks, users that mark bad, attach with and without `NMBM_F_CREATE`, power cuts | `TableWritesInside` `SignatureSafe` |
| `mtd_lock` | `NmbmMtd`: 3 tasks, one may shut down, 2 pages, weak fairness of each task | `TypeOK` `Exclusive` `ReadIsSnapshot` `WritesOwnData` `SuspendedIsFinal` `WaiterWakes` |
| `ead` | `Ead`: 2 clients of any credentials and command, 1 fault | `TypeOK` `RunsOnce` `SuccessIsTrue` `SessionOpen` `DoneAfterExit` |
| `ead_recovers` | `Ead`: 2 clients, 2 bridges, 1 move or crash, fairness | `RecordsTrue` `FollowsBridge` `Recovers` |
| `eth` | `MtkEth`: 5 descriptors, 2 netdevs, packets of 1 or 2 descriptors, budget 1, 2 events, fairness | `TypeOK` `RingConsistent` `RingInUse` `UsersHaveDma` `RungIsFreed` `QueueWakes` `HangIsReset` |

**Bounds.** With tables of one block (`TableBlocks = 1`; two or more blocks
arise only for chips of several GiB) and the minimum of two reserved blocks, 12
or 13 blocks are enough for two or three data blocks, two tables with room
between them, a run of spare blocks, remapped blocks and the signature; so every
path of the update, the rescues and the repairs is taken, and between them the
runs fire every action. `MaxBoots` bounds how often the chip is attached: two
boots show the effect of one interruption, three that of an interrupted repair.
Weak blocks are chosen per run so that a different part fails in each: data
blocks (`power_cut`), the table area without power cuts (`wear`), tables and
power together (`repairs`), everything on a chip without room (`worn_out`).
Operations per boot are not bounded.

For ead, two clients are what it takes to interleave logins on one session and to
have the child of one command end during another; a third adds no new meeting of
two. One fault (a lost, doubled or late datagram, or a pipe or fork that fails) with any
interleaving of the rest reaches every replay the counters have to stop; the
timeouts are short so that every wait can run out. In `ead_recovers` one move or
death of a server, with two bridges, gives every way a port can be seen in two
bridges or none. The clients are symmetric; liveness is checked without symmetry.

For the ring, five descriptors leave three to use, so that one packet of two
descriptors and one more fill it to the last and both thresholds are met with
descriptors outstanding and without; a budget of one makes the poll repeat. Two
events allow a hang and a second one, a failing open, a netdev that is closed, an
error that the reset work finds, or a request to reset during the reset. In `eth` it is the first netdev that may
fail to open after a reset, in `eth_users` the second.

**Why not every property in every run.** `Durable` is not in `wear`, `repairs`
and `worn_out`: once so many table blocks have failed that one table is left, it
is rewritten in place, and a power cut in that write loses it; the code has no
answer to that, nor claims one. `ImplementsDevice` is in `power_cut` only, for the
same reason: its `store` is what a power cut would leave. `BadMeansMarked` is not in the runs with power
cuts, where it fails (see "Only mark bad in memory" in section 4). `NoSharing` needs spare blocks without a hole
(finding 1). `worn_out` contains states in which both fail, so it checks only
what must hold whatever happens.

**Fairness.** `WF_vars(DriverStep)`: a call into the driver is executed by its
caller's thread, and the kernel schedules it; users and the power supply get no
fairness. `WF_vars(TaskStep(t))` for each task: a task that can run is scheduled
in the end; that a task ever calls is not assumed. `WaiterWakes` says that a
sleeper is woken, not that it gets the device: waiters race after a wake-up, and
the lock is not fair.

In `Ead` the server, the clients, the supervisor and the delivery of datagrams
are weakly fair, and time passes: processes are scheduled, and nothing else is
waited for. No client has to start, no command has to end, no fault has to
happen. `Recovers` begins when the faults of the bound are used up, with the
server on the client's bridge, and with no other client left.

In `MtkEth` the engine, the transmission of a packet under way, the interrupt,
the poll, calls of `mtk_stop` under way and the monitor's timer are weakly fair.
The steps of the reset work are strongly fair: they wait for the RTNL and the
transmit locks, which are given up again and again and are handed on in order (a
mutex with a queue, ticket spin locks). Packets, users, hangs and timeouts are
owed nothing; that netdevs are closed only as often as `MaxEvents` allows matters for
`QueueWakes`, since closing and opening another one for ever would keep the poll
disabled.

Deadlock is not checked for `NmbmMtd`: after a shutdown
everyone waits for ever, and is meant to.

## 4. Where code and comments disagree

Each of the first four has a run that expects a violation; TLC's trace shows the
case.

1. **`shared_block`: `NoSharing`.** `nmbm_map_block` searches down from
   `mapping_blocks_top_ba` for a good block and then lowers the top by one
   (1612), not to below the block it took. With a bad block in between, the next
   remap takes the same block for another logic block. The comment (1588) says
   "Map a bad block to a unused spare block". It takes one bad spare block and
   two remaps.
2. **`unusable_returns`: `UnusableStays`.** "Mark logic block unusable, and
   update info table" (2448): the mapping is changed without counting the
   change, and the update does nothing if the counters are zero. After a reboot
   the block is mapped again. `nmbm_mark_bad_block` (2900) has the same gap for
   a block already bad.
3. **`unreadable_table`: `MainTableReadable`.** With tables of two blocks, a
   table written around a bad block is "successfully written" (1126), and cannot
   be loaded, because the read loop stops after as many blocks as the table has
   (1808).
4. **`eth_users`: `UsersHaveDma`.** "only shutdown DMA if this is the last user"
   (`mtk_eth_soc.c:2756`): when a netdev cannot be opened again after a reset,
   `mtk_pending_work` calls `dev_close` (3124) and so `mtk_stop` for a netdev
   that `mtk_open` has not counted. If the first netdev was opened and the second
   fails, the count falls to zero and the ring of the first is freed under it.

Further disagreements, without a run of their own:

* NMBM: the comment at 1566 promises to update "repeatedly until no new bad block
  found during updating", but `nmbm_mark_tables_clean` after a write (1133, 1550)
  also clears the changes made by the write itself. "Only mark bad in memory"
  (1850): the mark is in the next table written, and a block torn by a power cut
  is then given up for good. "Device is now read-only" (2033): reads are refused
  too (2578, 2616).
* ead: "send keepalive packets every 200 ms so that the client doesn't timeout"
  (`ead.c:549`): `send_packet` sets its timeout once, and on Linux `select`
  counts it down whatever arrives, so a command that takes longer than two
  seconds fails on the client while it goes on. `tv` is not set again in the loop
  of the server either; after the first timeout it no longer waits.
  `server_handle_sigchld` compares the status from `wait` with a pid (749), so a
  server that dies is not started again until its interface moves
  (`FollowsBridge` has that exception). `instance_handle_sigchld` (762) resets
  `child_pending` for any child, so the end of an earlier command, killed or in
  the background, ends the stream of the current one (`foreign` in
  `DoneAfterExit`). `pfd[0]` is never closed. Clients send
  instance 0 in `sid`, so only the first interface answers beyond a ping.

Noted, but promised by no text: a power cut in the first create before the lost
logic blocks are mapped makes the device smaller for good, as does marking the
last logic block bad (1986-1992); a repair at load may leave the two tables with
different block states and clean counters, so the next update erases the newer
one first, which is why `Durable` is about mappings; `nmbm_remove`
(`nmbm-mtd.c:743`) adds the device to the list again instead of deleting it. A
hang is not reset (`missed` in `HangIsReset`) when the third bad look falls
between the beginning of another work and its check, when a second debugfs
request has left `force` at one with no work to come, and when the engine hangs
again before the monitor has seen it well, with the count past three. A queue
that `mtk_start_xmit` stops after the poll has freed the last descriptor is woken
by no poll; `QueueWakes` is therefore about a queue with something left to free.
Packets that wait for `netdev_xmit_more` when the next one is dropped are told to
the engine only with the next packet; `RungIsFreed` is about those it was told of.

## 5. Proofs

For every geometry, every set of bad and weak blocks and every pattern of
failures and power cuts (`NmbmProofs`); for any number of tasks and pages
(`NmbmMtdProofs`); for any number of clients, faults, moves and crashes
(`EadProofs`); for any ring, any number of netdevs and of events
(`MtkEthProofs`):

| theorem | statement |
|---|---|
| `NmbmProofs!Invariance` | `Spec => []IndInv` |
| `NmbmProofs!TypeCorrect` | `Spec => []TypeOK` |
| `NmbmProofs!ManagementStaysInside` | `Spec => []TableWritesInside` |
| `NmbmProofs!SignatureNeverTouched` | `Spec => SignatureSafe` |
| `NmbmLayoutProofs!LayoutKept` | `Spec /\ []WriteCountIdentifies /\ []TopIsGood => []Layout` |
| `NmbmLayoutProofs!NothingShared` | `Spec /\ []WriteCountIdentifies /\ []TopIsGood => []NoSharing` |
| `NmbmLayoutProofs!GivenUpIsMarked` | `Spec /\ []TornSeen => []BadMeansMarked`, if bad marks can be written |
| `NmbmLayoutProofs!GivenUpWithoutCuts` | `Spec => []BadMeansMarked`, if moreover only data blocks wear and power stays on |
| `NmbmLayoutProofs!WornDataIsHarmless` | `Spec /\ []WriteCountIdentifies => [](NoSharing /\ Layout)`, if moreover only data blocks are bad from the factory and users mark none |
| `NmbmCountProofs!WriteCountsIdentify` | `Spec /\ []TopIsGood => []WriteCountIdentifies`, if tables are one block and bad marks can be written |
| `NmbmCountProofs!OneWayToLoseLayout` | `Spec /\ []TopIsGood => [](Layout /\ NoSharing)`, under the same condition |
| `NmbmCountProofs!SafeWithoutCuts` | `Spec => [](WriteCountIdentifies /\ NoSharing /\ Layout)`, if moreover only data blocks are bad or wear, users mark none and power stays on |
| `NmbmDataProofs!DataIsRecoverable` | `Spec /\ []TopIsGood => []DataRecoverable`, if tables are one block and bad marks can be written |
| `NmbmDataProofs!DataStaysIntact` | `Spec /\ []TopIsGood => []DataIntact`, under the same condition |
| `NmbmDataProofs!MappingIsSaved` | `Spec /\ []TopIsGood => []MappingSaved`, under the same condition |
| `NmbmDataProofs!MainTableStands` | `Spec /\ []TopIsGood => []MainTableReadable`, under the same condition |
| `NmbmDataProofs!DataSafeWithoutCuts` | `Spec => []` of these four, if moreover only data blocks are bad or wear, users mark none and power stays on |
| `NmbmDataProofs!MappingIsDurable` | `Spec /\ []TopIsGood /\ []SoleKept => Durable`, if tables are one block and bad marks can be written |
| `NmbmMtdProofs!Invariance` | `Spec => []IndInv` |
| `NmbmMtdProofs!TypeCorrect` | `Spec => []TypeOK` |
| `NmbmMtdProofs!MutualExclusion` | `Spec => []Exclusive` |
| `NmbmMtdProofs!ReadsAreSnapshots` | `Spec => []ReadIsSnapshot` |
| `NmbmMtdProofs!WritesCarryOwnData` | `Spec => []WritesOwnData` |
| `NmbmMtdProofs!NothingAfterShutdown` | `Spec => SuspendedIsFinal` |
| `NmbmGeometry!SearchCoversManagement` | the search for the signature reaches the whole management area, for every size, ratio and reserve whose products fit into 32 bits |
| `NmbmGeometry!SearchIsExact` | it ends where that area begins if 16 divides the number of blocks |
| `NmbmGeometry!SearchEnds` | its limit is not zero from 16 blocks on, so the unsigned loop variable passes it |
| `EadProofs!TypeCorrect` | `Spec => []TypeOK` |
| `EadProofs!RecordsStayTrue` | `Spec => []RecordsTrue` |
| `EadProofs!RunsAtMostOnce` | `Spec => []RunsOnce` |
| `EadProofs!SuccessReported` | `Spec => []SuccessIsTrue` |
| `EadProofs!SessionsOpen` | `Spec => []SessionOpen` |
| `EadProofs!DoneFollowsExit` | `Spec => DoneAfterExit` |
| `MtkEthProofs!TypeCorrect` | `Spec => []TypeOK` |
| `MtkEthProofs!RingStaysConsistent` | `Spec => []RingConsistent` |
| `MtkEthProofs!RingStaysInUse` | `Spec => []RingInUse`, if only the first netdev may fail to open after a reset |
| `MtkEthProofs!UsersKeepDma` | `Spec => []UsersHaveDma`, under the same condition |

**Assumptions on constants.** `GeometryAssumption`: a table has at least one
block and fewer than the data area, and the management area has room for a table
and two more blocks; the factory layout (a sixteenth of the chip or more for
management) gives far more. `EnvironmentAssumption`: types of the other
constants. `TasksAssumption`: stoppers are tasks, a request has at least one
page. `EadAssumption`: the first interface is one, the command timeout and the bursts
are positive.
`EthAssumption`: at least one MAC, packets of at least one descriptor,
a positive budget, a ring of more than two descriptors with room for the wake
threshold and one batch. TLC
evaluates them on the constants of each run.

**Conditions of single theorems.** They are there because the property is false
without them, and a run or a line of the code shows how.

* `ReopenFails \subseteq {0}` for the users of the ring: `eth_users` is the
  counterexample when the second netdev fails (finding 4). The run `eth` meets
  the condition.
* `TopIsGood`: the block at `mapping_blocks_top_ba` is good when a block is
  mapped to a spare one. It is what `nmbm_map_block` takes for granted when it
  lowers the top by one; `shared_block` shows what happens otherwise (finding
  1). It holds in `wear`, `repairs` and `power_cut`. It follows from the
  constants when the management area neither wears nor has factory bad blocks
  (`WornDataIsHarmless`).
* `WriteCountIdentifies`: at load the code compares two tables by write count
  only. Run `power_cut` checks it; TLC also finds it true with the constants of
  `wear` and of `repairs`, where bad marks can be written. For such chips it is a
  theorem for tables of one block (`WriteCountsIdentify`), and no condition any
  more (`OneWayToLoseLayout`). It fails when a bad mark cannot be written
  (`MarkMayFail`) and the chip is attached a third time: if the block of the
  backup table fails so and the power is cut, the next attach finds that old
  table before the newer one, and a write count is used twice. TLC finds this on
  10 blocks with block 1 bad from the factory and blocks 0 and 3 weak, and with
  the constants of `worn_out` if `MaxBoots` is 3; with the two boots that
  `worn_out` has, no behaviour gets there.
* `SoleKept`: `nmbm_update_info_table_once` does not rewrite the main table while
  there is no backup table. It does so when the management area has no room for a
  second table; a power cut between the erase and the write then leaves no table
  at all. TLC finds this within seconds on 8 blocks of which the first data block
  and the block after the main table are weak. It holds in `power_cut`.
* `TornSeen`: the search at load passes no block that is torn and not marked on
  the chip; "Only mark bad in memory" (1850) gives such a block up otherwise. It
  holds in `wear`, not with power cuts.
* `~MarkMayFail`: a bad block whose mark cannot be written is bad in memory only.
* `TableBlocks = 1`: a table of `n` blocks takes a header, two bits of state per
  block and four bytes of mapping per data block, so one erase block of 128 KB
  holds it for chips of up to about 30000 blocks. The proof rests on it: a table is
  on the chip whole or not at all. With two blocks the main table can be left in
  pieces (`unreadable_table`, finding 3).

**The argument for the core.** `TableWritesInside` is not inductive: the loop
runs where its caller told it to, and the caller computes the range from
addresses that earlier loops returned. `IndInv` adds

* `SigInv`: signatures lie above `MgmtStart`, and no logic block is mapped to
  the one in use. This is what makes erasing a logic block safe for it, and it
  is why `nmbm_check_info_table` must refuse a table that maps to it;
* `TableInv`: table addresses are 0 or in the management area, spare blocks lie
  in it, once the instance is past its start;
* `SearchInv`: the addresses kept while searching at load, in particular that
  the spare area ends below the signature (`MappingTop`);
* `FrameInv`: the frame of the running loop is inside the area, with a start
  address that is one once the first chunk is written;
* `MappedInv`: a logic block being erased or written is mapped;
* `ReturnInv`: the return points of nested calls are ones that keep
  `MappedInv`.

There is one lemma per action, two general ones for steps that call a loop and
steps that go on elsewhere, and lemmas on the operators (minimum and maximum of
a set of naturals, the initial mapping, the walks, `MappingTop`).

**The argument for layout and sharing.** A mapping that is loaded must have been
consistent when it was written, so the invariant is about every table on the
chip, not only about memory. `LayInv` has `ChipInv` (the map in every table has
no two logic blocks on one block, and its spare blocks lie above that table and
the room of the other), `MapInv` and `CacheInv` (the same for the map in memory
and the table being written), `LoadInv` (what the search has found so far, with
the top it computes), `PlaceInv` (main table, backup table and spare blocks lie
in that order) and `WriterInv` (the loops stay below the spare blocks in use).
`WriteCountIdentifies` is used where the load takes the two tables for equal,
`TopIsGood` where a new spare block is taken.

**The argument for marks.** `MarkInv`: a block state that says bad is backed by
a mark on the chip, one that says need-remap by a block that really fails, in
memory, in the table being written and in every table on the chip; the block
being replaced is not good. `WeakInv`: a torn block is a weak one when power
stays on, and without users that mark blocks the marks are on factory bad or
weak blocks.

**The argument for write counts.** `nmbm_load_info_table` takes two tables with
one write count for copies. Why a count is never used for two different tables is
spread over the whole driver. `TabInv` says: at most two tables are on the chip,
each calls the blocks of both good, the newer one calls no block good that the
older one does not, and no usable block lies in front of both (`ChipTables`); so
the search at the next attach passes nothing that would stop it and comes to all of
them (`SightInv`), and what it has adopted at each point is the newer of the tables
passed (`SeekInv`). From then on no table is newer than memory, and one as new is
the table last prepared (`NewestInv`), which differs from memory in blocks that
failed since (`CopyInv`). Each of the loops that write keeps some tables, begins by
destroying one, and adds one (`HomeInv`, with `Kept` and `Old` for each caller);
the loops that write the first usable block leave none in front of it (`FrontInv`).
`ReachInv` and `UserInv` have the limits of the loops and that the block being
replaced is not good. The proof goes together with `LayInv`: each needs the other
in the state before the step.

**The argument for data.** The four properties say what an idle device, or the
next attach, finds; in between, an operation has the mapping in memory, the one in
the table being written and one or two on the chip, of which any may be the one
that counts after a power cut. `DataInv` follows them through every step:

* `PledgeInv`: for each logic block whose user was told what it holds, every table
  on the chip and the mapping in memory lead to one and the same block, which
  holds just that and which neither they nor the table being written call bad. An operation
  withdraws the promise with its first step (the user of a block being erased knows
  that), so a block that is on its way elsewhere has no such promise;
* `SyncInv`: between operations every table has the mapping that is in memory;
  after `nmbm_map_block` an update is due (`dirty`), and within the update all
  tables have the new mapping but the ones that its loop is to replace (`Old`),
  and the main table while the backup is being replaced. Blocks that are given up
  are exempt: unmapping one is not counted as a change (finding 2);
* `CallerInv`: nothing is promised about the logic block that an operation is
  about, nor about any while the device is set up;
* `StandInv`: the tables that memory knows are on the chip, and a loop does not
  touch those that its caller keeps (`Kept`).

The data of a logic block is safe from the loops because they stay below the spare
blocks in use (`LayInv`), and from other logic blocks because none shares its block
(`NoSharing`); that the adopted table is one of those `DataInv` speaks of is
`TabInv`. So the data theorems rest on all of the former ones, and inherit their
condition.

`Durable` is about two states and needs one thing more, `TwinInv`: at every point,
also in the middle of an update, the tables on the chip have one mapping, except
for the one that a loop is to replace. A step then leaves the tables alone, loses
an old one while another is kept, or adds one with the mapping being written
(`ChipEffect`), and in each case the newest table of the state after it has the
mapping found before or the one being written.

**The argument for ead.** The deep properties relate one client to a server that
has served others in between and to datagrams of sessions long over. `IndInv`
says what every datagram in the air asserts and that it is still true (`NetInv`),
what a client that has come this far knows (`ClientInv`), what the server's
session and key stand for (`SessionInv`, `StreamInv`), which process a command
is (`ChildInv`, `StartedInv`), and that there is one command datagram per client,
whose counter is used up once the command has run (`CmdInv`). `RunsOnce` then
rests on the counter, which a duplicate cannot pass twice under one key, and on
the key, which no second session of the same client can have.

**The argument for the ring.** `LockInv` says who holds the RTNL,
`MTK_RESETTING` and `reset_lock` at each point of the reset work; `DmaInv` that
the ring is there iff somebody uses it or the last user still waits for the
poll to end; `XmitInv` that a packet in hand belongs to a user; `OrderInv` that
the work opens the netdevs in order; `CountInv` that `dma_refcnt` is at most the
number of users, and equal to it if only the first netdev may fail. The last
part is what finding 4 breaks.

**The argument for the lock.** `Exclusive`, `ReadIsSnapshot` and `WritesOwnData`
are inductive together with `CallInv` (where a task is fits the call it is in).
`NothingAfterShutdown` follows because a task that has the device forces `state`
to be the state of its call, which is not `FL_PM_SUSPENDED`.

**The argument for the geometry.** The widths are removed first (`Products`),
then rounding before the product is compared with rounding after it
(`Rounding`); the cap by `max_reserved_blocks` is the same on both sides. Below
16 blocks the limit is zero and the loop would not end; no NAND is that small.

**Only model-checked**, on the bounds above: the refinement `ImplementsDevice` and the liveness
properties `Terminates`, `WaiterWakes`, `Recovers`, `FollowsBridge`,
`RungIsFreed`, `QueueWakes` and `HangIsReset`, which are beyond this proof system.
`WriteCountIdentifies` is neither proved nor checked for tables of more than one
block.

## 6. Not modelled

* NMBM: table sizes (`nmbm_calc_structure_size`); the model takes `MgmtStart` and
  `TableBlocks` as given. `NMBM_F_READ_ONLY`, which `nmbm-mtd.c` never sets.
  Pages, columns, OOB modes and bit flips within a block. `nmbm_probe` and
  `nmbm_remove`. A configuration or version mismatch at attach, which only
  refuses to attach. Block colours and log output.
* ead: SRP, SHA-1, AES and MD5 themselves; packet headers and checksums; the
  nonforking mode; capture handles that fail and are opened again; the contents of
  a command's output, which are counted and not compared.
* Ethernet: receiving, LRO and RSS; the PDMA variant for MT7628; PHY and MAC
  configuration; ioctl and ethtool; the WiFi drivers and `mtk_hnat`, which are
  notified of a reset and are external here; probing and removal.
* The rest of the tree, part by part, under "components" in `PROJECT.json`. Most
  of it is vendored from elsewhere (switch SDKs and their register headers, file
  systems, Intel and other drivers, kconfig), or build recipes and shell.

## 7. Plan

Done: NMBM with its MTD layer, its abstract device, its geometry; ead; the
transmit side and reset of mtk_eth_soc; the theorems above. Next, in this order:

1. the refinement `ImplementsDevice` as a theorem: `DataInv` and `TwinInv` give
   all but what the device shows of blocks that nobody was told about;
2. the receive ring of mtk_eth_soc and its refill, beside the same reset;
3. the composition of `NmbmMtd` with the core's operations in place of plain
   pages, and the life cycle of probe and remove;
4. `gpio-button-hotplug` (debouncing against repeated interrupts) and the flow
   table bookkeeping of `mtk_hnat`.

## 8. Use

    tlc -workers 2 -config power_cut.cfg NmbmRefines
    tlc -workers 2 -config wear.cfg Nmbm             # repairs, worn_out, shared_block,
                                                     # unusable_returns, unreadable_table
    tlc -workers 2 -config mtd_lock.cfg NmbmMtd
    tlc -workers 2 -config ead.cfg Ead               # ead_recovers
    tlc -workers 2 -config eth.cfg MtkEth            # eth_users
    tlapm NmbmProofs.tla ; tlapm NmbmLayoutProofs.tla ; tlapm NmbmCountProofs.tla
    tlapm NmbmDataProofs.tla
    tlapm NmbmMtdProofs.tla ; tlapm NmbmGeometry.tla
    tlapm EadProofs.tla ; tlapm MtkEthProofs.tla

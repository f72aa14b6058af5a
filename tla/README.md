# TLA+ models of PIFO-NetFPGA

A packet scheduler for the NetFPGA SUME board: packets wait in a RAM, small
records of a rank and two pointers wait in a *push-in-first-out* queue (PIFO),
and whenever the output is free the record of the smallest rank leaves and its
pointers fetch the packet. The design is Verilog under
`src/simple_sume_switch/hw/hdl`; under `src/sw/python_sims` the same scheduler is
simulated in Python, most of it with SimPy. This directory models both.

* **Verilog.** One TLA+ step is one clock cycle, in which every machine of the
  modelled part steps on the values the registers had before the edge.
* **Python with SimPy.** One step is one event of SimPy's agenda: a process runs
  from the `yield` it waits at to the next one. `SimPy` is that agenda.
* **Python without SimPy.** One step is one call.

Paths below are relative to `src/simple_sume_switch/hw/hdl` for Verilog and to
`src/sw/python_sims` for Python (`.py`).

## 1. The system

### Parts, their state and their operations

| part | state | operations | what makes it correct |
|---|---|---|---|
| `pifo_reg` | up to REG_WIDTH slots, a latch for an insert that comes with a remove, `valid_out`, `full`, `empty` | insert, remove, both in one cycle; two trees of comparators find minimum and maximum | a bounded priority queue; the announcements, one cycle late, may still be relied on |
| `det_skip_list` | nodes in six block RAMs, a free list, a `pifo_reg` at the tail, four state machines | insert (search, promotion, linking), move of the last node to the register, remove | sorted, doubly linked, evenly spread; machines never write the RAMs at the same time; nothing lost |
| `pifo_top` | a `pifo_reg` over several skip lists, insertion machine, refill machine, two pipelined trees that select a skip list | insert into register or list, push-out from a full register, refill | every entry in exactly one place; one insert port shared by two machines without loss or starvation |
| `pifo_pkt_storage`, `free_list_fifo`, `simple_dp_bram` | segment RAM and meta data RAM, a free list of each, insertion and removal machines | take a packet in and hand out its pointers, give a packet back for its pointers | no pointer lost, shared or given back twice; packets come out as they went in |
| `simple_tm_sl_drop` | the two above, queue sizes and their two counters, a register for pointers the PIFO cannot take yet | accept or drop on the first word, hand pointers to the PIFO, ask for the next packet | queue sizes exact, accepted packets always find room, every stored packet reaches the PIFO |
| `simple_tm_sl_bp`, `simple_tm_reg` | as above | back pressure instead of drops; a register instead of skip lists | the same |
| `port_tm`, `port_tm_bp`, `req_arbiter` | one storage, a PIFO per queue, counters | admission per queue, arbitration of read requests | at most one request per packet; fair arbitration |
| `port_selector`, `traffic_manager` | a buffer per output port, a tree that picks the port of least rank, multiplexers | ask a port for its next packet, route words | a port that is asked has a packet; words of packets are not mixed or dropped |
| `axi_stream_fifo`, `rate_limiter`, `simple_output_queues`, `trim_ts`, `axi_stream_pipeline` | a FIFO of words, one of meta data, an insertion and a removal machine | buffer, cut, delay, drop, trim | framing is kept, FIFOs do not overflow, nobody waits for ever |
| `rank_pipe`, `simple_rank_tm` | registers of the rank functions (strict, round robin, weighted) | compute the rank in front of the PIFO | the rank belongs to the packet it travels with |
| `input_arbiter_drr` | five FIFOs, deficit counters | deficit round robin over the inputs | bandwidth shared by quantum, no input starves |
| `demo_datapath`, `nf_datapath`, `top` | none of their own | wiring, reset, clocks | - |
| `out_reg`, `BRAM`, `Fifo` (`hwsim_utils.py`) | entries, `next`, `next_valid`, `busy`; cells; a queue | insert, remove; read, write after a latency; push, pop | what is announced is the least entry; nobody writes when full |
| `SkipList` (`pifo_skip_list.py`, `det_skip_list_simpy.py`) | nodes in a BRAM, a free list, a FIFO before and an `out_reg` behind, `num_entries`, `busy`; six processes | enqueue, insertion behind the FIFO, search, refill of the register, dequeue | linked both ways, counts exact, nothing used while `busy` protects it |
| `SkipListWrapper`, `Pifo_top`, `Pifo_tb` (`pifo_wrapper.py`, `pifo_top.py`, `pifo_tb.py`) | counters, packets under way, measurements | choose a list, choose the least, store and fetch packets, generate and receive them | smallest rank first, packets intact, the simulation ends |
| `Pkt_storage` (`packet_storage.py`) | two BRAMs, two free lists | insertion and removal machine | no place lost, shared or overtaken |
| lists without SimPy (`det_skip_list.py`, `pifo_node.py`, `pifo_bram.py`) | nodes, a queue of free nodes, `currMaxLevel`, `numEntries` | enqueue, dequeue | a priority queue; free nodes are not in use; the deterministic one is evenly spread |

### How they interact

    input -> (rank) -> simple_tm_sl_drop -+-> pifo_pkt_storage  (words)
                                          |        | pointers back in the
                                          |        v cycle of the first word
                                          +-> pifo_top  (rank, pointers)
                                                |  pifo_reg      : leaves next
                                                |  det_skip_list : the rest, each
                                                |     with a pifo_reg at its tail
                                                v
                              valid_out, pointers -> request to the storage -> output

    Python:  Pifo_tb -> Pifo_top -+-> Pkt_storage     (pipes = SimPy stores)
                                  +-> SkipListWrapper -> SkipList 1..n
                                         enqueue -> out_reg, what it gives back
                                           -> enq_fifo -> enq_sl -> search -> nodes
                                         nodes -> deq_sl -> out_reg -> dequeue

In the Verilog calls are ports that are read and driven in one cycle; there are no
acknowledgements. `busy`, `full`, `valid_out` and `tready` are the whole
protocol, and most of them are registers: they speak about the cycle before.

### What is hard here

* **Announcements that are late.** `valid_out` follows the contents of a
  register by a cycle, `full` of a skip list by two, a selection by
  NUM_LEVELS + 1 cycles. Whoever uses one must either be sure nothing changed
  in between or test again.
* **Ports with two drivers.** Insertion and refill machine share the insert
  port of `pifo_reg`; insert, search and remove machines of the skip list share
  RAM ports; queue counters are changed from both sides in one cycle.
* **Nothing protects itself.** FIFOs overflow silently, `pifo_reg` loses an
  insert that follows another at once, the storage accepts any pointer.
* **Decisions on the first word.** A packet is accepted before its length is
  known, and its pointers are on their way to the PIFO a cycle later: it may be
  asked for, read and sent while it still arrives, and nothing compares reader
  and writer.
* **Processes that share without locks** (Python). SimPy runs one process at a
  time, but every `yield` lets the others in. `busy` of a list and `busy` of its
  register are looked at, believed and set in different places; counts read
  before a `yield` are used after it; copies of nodes are written back.
* **Operations of many cycles**: an insert into a skip list takes tens of cycles and
  rebalances on its way, while removals go on.

The hazards, each at the line where it bites and with the properties that would
notice it, are the list `hazards` of `PROJECT.json`.

## 2. Modules

| module | what it is |
|---|---|
| `Pifo` | abstract specification: a bounded push-in-first-out queue |
| `PifoRegCore` | the clocked blocks of `pifo_reg.v` as functions from the record of its registers to the next one; used by every module that contains a register |
| `PifoReg` | a register and its client; inductive invariant; refinement of `Pifo` |
| `ComparatorTree` | the two trees of `pifo_reg.v` level by level; shown to name the slots that `PifoRegCore` defines by "a least" and "a greatest" |
| `PifoRegCore_proofs` | lemmas on one clock edge of a register, used by the two modules of proofs below |
| `PifoReg_proofs` | proofs about the register and its client, and about its trees of comparators |
| `SkipListPort` | what a skip list shows at its ports, lag included |
| `PifoTop` | `pifo_top.v`: both machines, busy and full logic, over `PifoRegCore` and `SkipListPort` |
| `PifoTop_proofs` | proofs about the register's two drivers and about conservation |
| `SelTree` | the two selection pipelines of `pifo_top.v` level by level; `PifoTop` uses them as delay lines of finished selections |
| `SelTree_proofs` | proof that both pipelines select as of the cycle of entry |
| `DetSkipList` | `det_skip_list.v` in full, shown to behave as `SkipListPort` |
| `DetSkipList_proofs` | proofs that insertion and removal never overlap, that the RAMs hold a deterministic skip list whenever the machines rest, and that the list shows at its ports what `SkipListPort` allows |
| `PktStorage` | `pifo_pkt_storage.v` with `free_list_fifo.v` and `simple_dp_bram.v` |
| `PktStorage_proofs` | proofs that slots and segments are conserved and packets delivered intact, a reader behind its writer included |
| `SimpleTmDrop` | `simple_tm_sl_drop.v` over the storage and the PIFO as their ports show them |
| `SimpleTmDrop_proofs` | proofs that no word is lost, counts are exact, no packet is forgotten or overtaken, and that storage and PIFO get the client they assume |
| `StreamBuffers` | the five stream buffers; one removal machine, one insertion machine for each kind |
| `StreamBuffers_proofs` | proofs of framing, room and pace for all five, for `trim_ts` before a receiver that never stalls |
| `SimPy` | the agenda: events in the order SimPy takes them, stores, timeouts, memory accesses |
| `OutReg` | `out_reg` of `hwsim_utils.py`, its two processes |
| `SimLists` | the two SimPy skip lists as operations on their nodes: searches, promotion, insertion, removal, levels given up |
| `SimSkipList` | their processes: `initSkipList`, `enqueue`, `dequeue`, `enq_sl`, `search`, `deq_sl`, over `OutReg` and `SimLists` |
| `SimStorage` | `packet_storage.py` over two `BRAM`s |
| `SimPifo` | wrapper, top and test bench over all of these: the whole simulation |
| `SyncLists` | the three lists without SimPy; refinement of `Pifo` |
| `MC*` | the instances for TLC: constants and symmetry, nothing else |

Composition goes through interfaces: `SimpleTmDrop` sees the PIFO as a set with
an offer and `busy`; `PifoTop` contains the register itself and sees the lists
as `SkipListPort`; `DetSkipList` contains the register itself and is checked
against `SkipListPort`, for all sizes by the theorem `ListImplementsPort`. `SimPifo` contains every process of the
simulation, nothing is replaced by an interface. Hardware register and
sequential Python lists implement the same abstract `Pifo`. What one level *assumes* of its client is a *property*
of the level above: `PifoReg` assumes no insert in two cycles in a row, and
`PifoTop!RegisterSafe` shows that its two machines keep every announcement of
the register true; `PifoReg` and `PifoTop` assume no remove in two cycles in a
row, and `SimpleTmDrop!RemovesApart` shows it; `PktStorage` assumes that a packet
is accepted only with room for the longest one and requested `LEAD` cycles after its
first word at the earliest, and `SimpleTmDrop!StorageClient` shows both, for
`LEAD` = 3. In the other direction `SimpleTmDrop` assumes that the PIFO does
not offer an entry in the cycle after its insert. `PifoTop` bears that out: an entry
just accepted is for one cycle in the latch of the insertion machine
(`pifo_top.v:388-400`), `Conserved` says that it is nowhere else, and
`RegisterSafe` that what is offered is in the register.

### Correspondence of state and actions

Variables carry the names of the registers in the code (`ifsm_state` is `ifsm`,
`rfsm_state` is `rfsm`); a pair of registers such as `rank_in_r`, `meta_in_r`
is one record. Actions of a module are the choices of its environment in one
cycle (`Insert(e)`, `Remove`, `RemoveInsert(e)`, `Idle`, or the word and
`tready` on a bus); below them one operator per `always` block says what the
edge does to each register. Non-blocking assignments are primed variables,
combinational signals are operators over unprimed ones. The variables that
are not registers record the environment: who is inside, what was promised, what
left last.

Conventions that need a word:

* **An entry** is a rank and a meta data value; `NoEntry` stands for a low valid
  bit. Meta data are unique among the entries inside (in the system they hold
  pointers into the storage, and no pointer is handed out twice:
  `PktStorage!FreeOrTaken`).
* **`DetSkipList`**: the least free address stands for the head of the free list
  FIFO (addresses are interchangeable); a RAM write happens with the machine's
  step although it reaches the RAM a cycle later, for every read of it comes
  later still; registers that are dead take a fixed value. The filling of the
  RAMs after reset is the initial state. `node_lvl` is never read and left out.
  The threshold `prog_full` of the free list is external: it is high exactly
  while NUM_LVLS + 1 nodes or more are free.
* **`PktStorage`**: a word is the packet it belongs to and its number, so that a
  word at the wrong place is noticed whatever its bytes.
* **`StreamBuffers`**: `fallthrough_small_fifo` of the NetFPGA library is
  external: a bounded sequence with `nearly_full` one word below its depth,
  `prog_full` at a threshold.
* **`SimPy`** is external, modelled from how the simulations use it: of the
  events due at one time the one scheduled first is processed first, a store
  hands its oldest item to the process that waits, and what wakes a process is
  an event of its own, behind those already scheduled. `yield
  self.wait_clock()` starts a process for each period, so its wake-up comes one event
  later than that of a timeout. `env` keeps the agenda relative to now; time is
  not a variable.
* **`SimSkipList`**: a stretch of memory accesses that a process makes while
  `busy` protects the list is one change, and then as many accesses are waited
  for as the code makes (`Accesses`), each with its chain of events. That nobody
  else is at the nodes meanwhile is what `NoErrors` checks (`"overlap"`).
  `initSkipList` runs access by access, for it clears `busy` early in the deterministic
  list and shares the memory's ports, which serve one request at a time.
* **`SimPifo`**: what `random` draws is chosen freely: ranks from `setup.ranks`,
  heights from all that are possible. `setup` holds the arguments of the
  constructors, the latencies of registers (`latency`) and packet memory
  (`mem_latency`) and the segments of a packet (`segs`) among them. A behaviour
  ends with the first exception or error message.
* **`SyncLists`**: `get()` of an empty `Queue` never returns; the list then counts as
  `crashed`. `pifo_node.py` and `pifo_bram.py` keep the smallest value left, the
  other way round than the rest; their values are kept negated.

The step functions of the Python models were compared with the Python code
itself, run on a small stand-in for the SimPy library: event by event for the
simulation, and for whole setups by the sets of sequences of packets that come out
over all draws of `random`; and for `SyncLists` in 400 histories of some
4,000 calls with the memory compared after each.

## 3. Environments

The code leaves much to its clients. What the models let a client do:

* `PifoReg`, `DetSkipList`: insert while the ports allow it and not twice in a
  row (for the list: as `pifo_top` does, with the choice of the list
  SEL_LATENCY cycles old); remove while `valid_out` is high, not twice in a row.
* `PifoTop`: as `simple_tm_sl_drop.v`: inserts while neither busy nor full.
  Claims about it end at the first *misfiled* insert, the situation of finding
  `top_kick` below (`SpecUntilMisfiled`): after it the old maximum is both in
  the register and in a list, and nothing more is claimed.
* `PktStorage`: its constants say what the code leaves open. `MAX_STALL` is how
  long the output may be stalled in a row; finding `storage_stall` shows what a
  longer stall does. `CUT_THROUGH` is the set of its clients, and `cut_through`
  the one that a behaviour begins with. `TRUE` is
  `simple_tm_sl_drop.v`: a packet is accepted only with room for the longest one
  (`RoomForLongest`), its words come with `MAX_PAUSE` cycles of pause in all, and it
  is requested from `LEAD` cycles after its first word on, whether it has arrived or not.
  Nothing in the storage keeps the reader behind the writer: with a pause of two
  cycles the reader passes it (`PktStorageOvertaken.cfg`, section 4). `FALSE` is the storage
  by itself: a source that waits for `tready` and a client that
  requests what has arrived; here the storage must get a half received packet in.
  `EARLY_TRAFFIC = FALSE`: packets arrive after the free lists
  are filled (2047 cycles after reset for the parameters in the code). The comments
  at `pkt_storage/pifo_pkt_storage.v:306` and `:452` call earlier traffic an error of
  the simulation, but nothing holds it back: a packet that comes and leaves in this time gives
  its pointers back in a cycle in which the filling overwrites them.
* `SimpleTmDrop`: packets have at least two words, as Ethernet frames on a 32
  byte bus have; the output stalls as it likes; the source pauses MAX_PAUSE cycles within
  a packet in all. The PIFO offers any packet whose pointers it has held for a
  cycle, those of the packet that still arrives included.
* `StreamBuffers`: packets of at least two words, except before
  `axi_stream_fifo`, which expects single words; no packet longer than
  MAX_PKT_WORDS where the code keeps room for that many. `trim_ts` never asserts
  back pressure, so words are lost once its receiver stalls for as long as its FIFO
  is deep. `TRIM_STALLS = FALSE` says that its receiver never stalls, and what is
  claimed of `trim_ts` is claimed under that assumption; the other four get any stalls.
* `SimPifo`: there is no environment but the arguments. Two ways of using the
  simulation are run. *Drains*: all packets in, then all out, as `run_pifo_sim.py`
  does, for both kinds of list and without a fill level. *Fills*: packets go in and
  out around a fill level, with 3 to 60 periods between them (the code's drivers wait 100 and
  more, for lists of thousands). The code does not do what it should for every
  argument, and what `py_sim` claims stays clear of five combinations. One is the
  violation run `py_promoting`, the others are instances kept beside the runs
  (section 4).
  *Promotions among different ranks*: an up pointer can be lost, after which a node stays
  behind. Two drains of `py_sim` promote with two ranks (one is the very setup of
  `py_promoting`), so of the deterministic list `ListsSound` asks for
  connected levels (`NodesStacked`) only in the setups of one rank; all other properties are asked of
  all setups.
  *A deterministic list that is used while it is still being initialised*, which
  `run_pifo_sim.py` does not prevent: with its register of latency 1 and no fill level
  `NoErrors` does not hold. The drains of `py_sim` have a register of latency 6, or
  17 packets, so that the list is ready when the first packet is read.
  *A packet read before all its segments are written*: three segments at latency 1 and
  two at latency 2 are run, three at latency 2 are too many.
  *An entry passed over while it waits in the FIFO*: `SmallestWhenPaced` is asked of the
  fills. *A test bench faster than the refill.*
* `SyncLists`: the programs at the end of `pifo_node.py` and `pifo_bram.py` fill a list
  and then drain it, and so does the model for these two; the deterministic list is
  used in any order. None is asked for an entry when empty.

## 4. Runs

| run | instance | distinct states | what it shows |
|---|---|---|---|
| `reg` | 4 slots, 3 ranks, 6 meta data (symmetric) | 1,135 | every history of a register: full, refill, ties, insert with remove at every fill level. The announcements hold when used, the trees agree with the definitions, the register is a bounded PIFO. |
| `top` | register of 2, one list of 2, 2 ranks, 3 entries | 60,000 | conservation, the register's rules kept by two machines, `INSERT_SEARCH` unreachable, neither machine starves the other. |
| `top_kick` | register of 2, one list | 20,000 to the violation | finding, see below |
| `sel` | 3 lists (not a power of two), counts to 2, 3 offers, new keys every cycle | 56,000 | a selection never mixes two cycles, ties as in the code. |
| `storage` | 3 usable addresses, 2 packets of 2 to 5 words, stalls to 4; both clients, the one requesting 3 cycles after a first word and pausing once | 493,102 | pointers conserved and packets intact, also while a packet is read as it arrives; a half received packet gets its room. |
| `storage_stall` | the same, stalls to 6 | 300 to the violation | finding, see below |
| `tm` | 2 queues, 3 packets of up to 4 segments, 11 segments, PIFO of 2, one pause in a packet | TMSTATES | queue sizes exact, room to the last word, no pointers overwritten, the reader of a packet stays behind its writer. |
| `skip_list` | 3 levels, 16 addresses, 7 inserts of 2 ranks, register of 2 | 284,987 | list sound at rest, gaps bounded, one writer, and every cycle is one `SkipListPort` allows. |
| `buffers` | FIFOs of 6 words and 3 packets, packets to 8 words, pauses to 2 | 14,516 | framing, no overflow, pacing, no deadlock on a packet longer than the buffer. |
| `py_sim` | 11 setups: both lists, one to three of them, registers of 1 to 3, 2 to 18 packets of 1 to 3 segments, 1 or 2 ranks | PYSTATES | the whole simulation, event by event: lists and counts sound, places conserved, packets intact, smallest rank first where it is paced, no error message, and the end is reached. |
| `py_promoting` | one deterministic list, 6 packets of 2 ranks, in and out | 28,000 to the violation | finding, see below |
| `py_lists` | deterministic list with 10 enqueues in any order, the other two with 6; two values; 12 nodes and more | LSTATES | each is a `Pifo`; nodes in use are never free; no gap of four in the deterministic list. |

Instances kept beside the runs, each of which TLC finds to violate the property named.
They show where the assumptions of section 3 end; no line of the repository
promises more, or another run shows the same kind of fault.

| cfg | of | property | instance | states |
|---|---|---|---|---|
| `PktStorageOvertaken` | `MCPktStorage` | `DeliveredIntact` | a packet that pauses two cycles and is requested three after its first word | 400 |
| `SimPifoEarly` | `MCSimPifo` | `NodesToItself` | the setup of `py_promoting` with the register latency of `run_pifo_sim.py` | 13,000 |
| `SimPifoOvertaken` | `MCSimPifo` | `WrittenWhenRead` | packets of three segments in a memory of latency 2 | 3,600 |
| `SimPifoOrder` | `MCSimPifo` | `SmallestFirst` | the setup of `py_promoting` | 34,000 |
| `SimPifoHurried` | `MCSimPifo` | `RoomWhenRefilled` | one list kept at 3 entries, delays of 5 periods | 5,600 |

### Why the bounds are enough

* `reg`: the code distinguishes empty, one entry (the last one leaves), full,
  and in between; 4 slots have all of them and a comparator tree of two levels.
  Three ranks tell less, equal and greater apart for two entries at a time. More
  meta data than slots plus latch, so that one is always fresh. In any case the
  properties of this run but the trees' are proved for every size.
* `top`: the register fills, pushes out, is drained and refilled; the list
  fills. Three entries occupy register, search and refill at once. Time stamps
  are left out: where they break a tie the model leaves the choice open.
* `storage`: two packets compete for three segments and one of five words takes
  all of them, so both free lists run empty in the middle of a packet. A packet of three segments,
  requested while it arrives, is read with its last segment unwritten. `MAX_STALL`
  and `LEAD` against `MAX_PAUSE` are at the values where the proofs need them to be:
  one more and `DeliveredIntact` is violated.
* `tm`: eleven segments for two queues leave the margin of MAX_PKT_SIZE exactly
  once; the counters reach their limit, the PIFO of two is full with a third packet
  waiting, and packets of four segments leave while they arrive. The margin needs two
  queues at least: with one, QUEUE_LIMIT is the whole storage.
* `skip_list`: seven inserts fill the register and the list, promote nodes at
  every place of level 0, remove such stacks again, empty the list and start over, and leave
  fewer free nodes than an insert may need, so that `full` is seen. To promote
  on level 1 takes three nodes there and six below, more than TLC can exhaust; the
  invariants are proved for every number of levels. Two ranks make ties on every side of a place.
* `py_sim`: without a fill level the packets come at once, all interleavings of
  their insertions and of the refills of the register happen, and the drain at the end takes
  everything out again; with one, insertions and removals alternate. Two
  lists make the wrapper choose, three leave one out. Four entries of one rank make the probabilistic list give up
  a level with nodes in it, five make the deterministic list promote a node. Packets of three
  segments back the write queue of the packet memory up while the first is read.
* `py_lists`: ten enqueues with removals in between promote to level 2, remove
  such stacks and run through the free nodes; six in a random list reach height
  2 and give two levels up.
* `buffers`: a packet longer than the buffer, packets of two words so that the
  FIFO of meta data fills first, and long ones so that the FIFO of words does.
  Packet numbers run modulo 4, more than can be inside.

### Fairness

Only two things are assumed fair. *The clock does not stop* (`WF_vars(Next)`):
nothing in the code gates it. *The outside goes on* where a liveness property
depends on it: for `ArrivesEntirely` the source goes on sending the packet it has
begun and packets inside are requested again and again (the traffic manager asks
whenever the storage is idle and the PIFO offers); in `StreamBuffers` the
receiver is ready again and again. `PktStorage` bounds stalls by MAX_STALL. No machine of the design needs an assumption
of its own: each steps in every cycle. In `SimPifo`, `WF_vars(Next)` says that
`env.run()` goes on while the agenda holds an event; no process is favoured, for the
agenda fixes the order. `SyncLists` states no liveness.

### Findings

* `py_promoting` (`det_skip_list_simpy.py:272`): the left neighbour of a new node is
  written back from the copy the search took. If the search has promoted that very node, its new
  up pointer is lost ("Connect node below to new node", line 223, is undone), and
  the node above stays behind when the entry leaves. Six packets of two ranks are enough.
* `top_kick` (`pifo_top/pifo_top.v:434`): an entry decided for the register while the
  lists were empty may find the register filled with smaller ranks by a refill;
  it is discarded, and the old maximum is copied to a list though it stays. The
  comments at lines 365-367 say otherwise.
* `storage_stall` (`pkt_storage/pifo_pkt_storage.v:474`): a segment is given back in
  the first cycle its word is on the bus. If the receiver stalls while it is
  handed out again, the word on the bus changes, which the comment on the
  registered addresses rules out.

### Seen while modelling, not a run of its own

* `pifo_pkt_storage.v:451`: a request is served whether the packet has arrived or
  not, and `simple_tm_sl_drop.v` may make it three cycles after the first word. If the
  source pauses for two cycles before the packet's second segment is written, the reader follows
  what the RAM held before (`PktStorageOvertaken.cfg`). No line of the repository
  says how the source has to send.
* `pifo_skip_list.py:297`: `deq_sl` sees room in the register,
  then waits for two memory accesses. An entry already sent to `enqueue`, which looks at
  the busy flag of the register only, takes the room. The register gives the
  refill back, "Dequeue Error!" is printed and the entry is unlinked and lost,
  though the comment says there was room (`SimPifoHurried.cfg`). `det_skip_list_simpy.py:327` is the same.
* `det_skip_list_simpy.py:157`: `busy` is cleared after the first level of
  `initSkipList`. When entries come at once, as `run_pifo_sim.py` lets them, the list is
  searched before its levels exist (`SimPifoEarly.cfg`).
* `packet_storage.py:110`: segments are put into the write queue of the memory, which nobody waits
  for. Three of them at latency 2, and the reader of the packet gets there first: it finds
  nothing and the simulation ends with an exception (`SimPifoOvertaken.cfg`).
* `pifo_skip_list.py:281`: the register is refilled from the list without a look at
  `enq_fifo`, in which a smaller entry may wait for its way into the list
  (`SimPifoOrder.cfg`).
* `det_skip_list.py:141`, `pifo_node.py:110`, `pifo_bram.py:131`: "Exit if free list does not have
  enough elements to add nodes at all levels" compares with the old
  `currMaxLevel`; an enqueue that raises it may still wait for ever for a node.
  `ImplementsPifo` holds all the same: an entry half inserted from above is not yet at level 0.
* `pifo_bram.py:192` and `pifo_node.py:164`: the levels given up by `dequeue` are
  freed in part twice, in part never (the head in place of the last node). A program that only drains
  afterwards never notices (`NodesSound` looks at level 0 of these two, and `ImplementsPifo` holds); one that goes on to enqueue would.
* `det_skip_list/det_skip_list.v:407`: `full` is a register behind the count of free
  nodes and `busy` falls a cycle before it rises; an insert in that cycle would
  be dropped. `pifo_top` does not hit it because it picks a list from selections
  several cycles old and looks again; `DetSkipList` is checked with that delay.
* `traffic_manager/port_selector.v:319-358` gives every level of comparators the
  index of the input that won, `i` or `i + 1`, in place of the port carried there.
  With four ports the last level names 0 if the packet of least rank is at port 0
  or 1, and 1 if it is at port 2 or 3: ports 2 and 3 are never asked, and a port
  that has no packet may be. `traffic_manager.v` is instantiated only by its own
  cocotb test; no run models the selection.
* `pifo_top/pifo_top.v:307` compares 32 bit timestamps without regard to wrap-around, and
  nothing bounds how much later a smaller rank may leave when larger ones were
  refilled first (`:435`); `trim_ts/trim_ts.v:192` is always ready before a FIFO
  of 64 words, which a receiver that stalls overflows (`TRIM_STALLS`). No line of the repository promises otherwise.

## 5. Proofs

All proofs assume only the named assumptions of the modules:

* `PifoRegCore`, `PifoTop`: `RegWidthAssumption` (REG_WIDTH >= 2),
  `MaxRankAssumption`, `NoEntryAssumption`; the trees of comparators also
  `PowerOfTwoAssumption` (REG_WIDTH = 2**L2_REG_WIDTH, as in the code).
* `SelTree`: at least one list; counts are naturals, offers pairs of naturals;
  `None` is not one of the things it stands for the absence of.
* `DetSkipList`: those of the register; `LvlsAssumption` (at least one level),
  `SizeAssumption` (the memory holds the ends of all levels and one insert: in the code
  2**L > 3 * L + 1, for L2_MAX_SIZE from 4 on), `ConsAssumption` (MAX_CONS_NODES is 3,
  `det_skip_list.v:31`), `LvlsSuffice` (MAX_SIZE <= 2**NUM_LVLS + 3 * NUM_LVLS + 1; the code has
  MAX_SIZE = 2**NUM_LVLS), `MetasAssumption` (the meta data are numbered), `FillAssumption` (the range
  of an empty list in `pr_fill_levels` demands nothing of the register), `LatencyAssumption` (a
  choice of `pifo_top.v` is one to six cycles old when it is used).
* `PktStorage`: `MaxPktsAssumption` (MAX_PKTS >= 2), `MaxWordsAssumption`,
  `NoPktAssumption`, `ClientAssumption`.
* `SimpleTmDrop`: `SizesAssumption` (the sizes are naturals, the longest packet has
  a segment), `WidthAssumption` (a counter can count to the limit of its queue), `NoPktAssumption`, `NumQueuesAssumption`.
* `StreamBuffers`: `DepthAssumption` (the FIFO is deeper than the longest packet that
  room is kept for; `TRIM_STALLS` is Boolean).

The sizes, the number of skip lists, the ranks, the meta data, the packets and
their lengths are arbitrary. Some theorems have hypotheses on constants, and need them:

* `~EARLY_TRAFFIC` for the storage: traffic waits until the free lists are filled.
* `PausesFit` for segments and contents: `TRUE \in CUT_THROUGH => MAX_PAUSE + 2 <= LEAD`.
  A client that requests a packet while it arrives does so at least two cycles more after its first
  word than the source pauses within it. `simple_tm_sl_drop.v` requests three
  cycles after the first word at the earliest (`TrafficIsStorageClient`), so its
  source may pause one cycle in a packet: with two TLC finds
  `DeliveredIntact` violated (`PktStorageOvertaken.cfg`). A client that waits for the last word needs no such condition.
* `MAX_STALL <= 4` for segments and contents: a segment is given back in the first
  cycle its word is on the bus. It can be taken again a cycle later at the earliest, is
  written a cycle after that, and the new word needs two more to pass through the RAM to the
  output: the old word is safe for a stall of four cycles. With five TLC finds both
  `NoSegmentLeaks` and `DeliveredIntact` violated, so the bound is exact.
* `NUM_QUEUES >= 2` for the traffic manager (the code has four): with one queue
  its limit is the whole storage and TLC finds a lost word. And `MAX_PAUSE <= 1`, so
  that it is within `PausesFit`.
* `~TRIM_STALLS` for the framing of the stream buffers: the receiver of
  `trim_ts`, which has no back pressure, does not stall. The other four need nothing.

| theorem | module | statement |
|---|---|---|
| `RegisterInvariant` | `PifoReg_proofs` | `Spec => []IInv` |
| `RegisterTypeOK`, `RegisterFullExact`, `RegisterLatchSafe`, `RegisterValidMeansEntry`, `RegisterNeverStuck` | `PifoReg_proofs` | the invariants of run `reg` |
| `RegisterTreesFindExtremes` | `PifoReg_proofs` | `Spec => []TreesFindExtremes` |
| `RegisterImplementsPifo` | `PifoReg_proofs` | `Spec => Abstract!Spec`: with the latched insert counted as inside, every cycle is a step of `Pifo` or a stutter |
| `TopRegisterSafe`, `TopNeverSearching`, `TopLossOnlyByMisfiling` | `PifoTop_proofs` | the invariants of run `top` |
| `TreesSelectAsOfEntry` | `SelTree_proofs` | `Spec => []SelectsAsOfEntry` |
| `ListOneAtATime` | `DetSkipList_proofs` | `Spec => []OneAtATime` |
| `ListStaysSound`, `ListStaysDeterministic` | `DetSkipList_proofs` | `Spec => []ListSound`, `Spec => []GapsBounded`: the other invariants of run `skip_list` |
| `ListImplementsPort` | `DetSkipList_proofs` | `Spec => ImplementsPort`: every cycle is one that `SkipListPort` allows |
| `StorageMetaSlotsExact` | `PktStorage_proofs` | `~EARLY_TRAFFIC => (Spec => []MetaSlotsExact)`, for every stall of the reader and for either client |
| `StorageFreeOrTaken`, `StorageNoSegmentLeaks`, `StorageDeliveredIntact` | `PktStorage_proofs` | `~EARLY_TRAFFIC /\ PausesFit /\ MAX_STALL <= 4 => (Spec => []P)` for the other invariants of run `storage` |
| `TrafficRemovesApart` | `SimpleTmDrop_proofs` | `Spec => RemovesApart`, what the PIFO assumes of its client |
| `TrafficLosesNoWord`, `TrafficCountsExactly`, `TrafficPointersInTime`, `TrafficForgetsNoPacket`, `TrafficIsStorageClient` | `SimpleTmDrop_proofs` | `NUM_QUEUES >= 2` and `MAX_PAUSE <= 1` prove `Spec => []P` for the invariants of run `tm` |
| `BuffersFramesIntact` | `StreamBuffers_proofs` | `~TRIM_STALLS => (Spec => []FramesIntact)` |
| `BuffersPacingKept` | `StreamBuffers_proofs` | `Spec => []PacingKept` |

### One clock edge

`PifoRegCore_proofs` says what an edge does to the contents of a register,
independent of who drives it. `SlotsOK` (the valid bits mark exactly the first
`num_entries` slots, no meta data twice) is kept by every edge, and:
`RemoveEffect`: a remove takes exactly the minimum out; `InsertEffect`: an insert
adds its entry, and into a full register replaces a greatest one or is discarded;
`IdleEffect`: nothing changes. They rest on `CloseGapShape` and `StoredShape`
(which slot holds what after the shift) and on `NatHasLeast`/`NatHasGreatest`,
which make the CHOOSE of `MinIdx` and `MaxIdx` meaningful.

### The register and its client

The invariants of the run are not inductive. `IInv` adds:

* `Packed`: the valid bits mark exactly the first `num_entries` slots. Without
  it neither the place of an insert nor the effect of closing the gap is known.
* `Distinct`: no meta data twice among the slots and the latch. The refinement
  maps slots to a *set*, and removing a slot must remove its entry.
* `ValidSteady`: if `valid_out` is high while the extremes are being recomputed
  and nobody has just removed, there are two entries. This is what makes
  `ValidMeansEntry` inductive: `valid_out` is set from a cycle-old flag, and the
  remove it invites must leave another entry behind it or the flag low.
* `EmptyMeansNone`: `empty`, which reset leaves low, is never high over an entry.
  The other parts do not need it; it is the one fact about that port.

The argument: one lemma per kind of edge (`RemovePreserves`, `InsertPreserves`,
`IdlePreserves`) preserves `IInv` conjunct by conjunct, and one per kind of edge
(`InsertRefines`, `RemoveRefines`, `IdleRefines`) that maps it to `Push`,
`PushFull`, `Pop`, `PopPush` or `Quiet`.

`MinIdx` and `MaxIdx` are defined by CHOOSE among the least and the greatest
slots. That the trees of comparators name these slots (`TreesAgreeAlways`) is an
induction over the levels: node j of level i is reached by the slot that wins
among the 2**i slots under it (`NodeWins`), because a comparator lets the winner of
both halves through (`ComparatorWins`), valid slots before the others and ties to
the left for the minimum, to the right for the maximum.

`Induction` and `Recursion` in `PifoRegCore_proofs` are about sets and functions,
not about operators: a set that holds 0 and with n also n + 1 contains Nat, and
a first value with a function from each value to the next has an iteration. So
recursive functions such as `pow2` and `Levels` can be shown to be what their
definitions say (`Pow2Def`, `LevelsDef`).

### pifo_top

Every action is an edge of all machines with inputs the client may give
(`NextIsEdge`), so there is one lemma per kind of fact about that edge.

* `TopNeverSearching`: by induction over `IfsmReachable`; a client that obeys
  `busy` never inserts while the maximum is unknown.
* `TopRegisterSafe`: `RegisterSafe` with the count bounded and `ValidSteady`, as
  above. What `PifoReg` assumes of its client is here derived from the two
  machines: `InsertsApart` (the cycle between inserts) and the guard of a refill.
* `TopLossOnlyByMisfiling`: the invariant is `~misfiled => LossInv`. `LossInv` has
  the two above, `SlotsOK`, that a list offers only what it holds, and `Apart`: an
  entry is inside exactly when it is in one of register, insertion machine,
  refill machine and lists, and never in two. `RegisterMoves`, `FlightMoves`,
  `RefillMoves` and `ListMoves` say what each place gives and takes in one edge;
  that these moves match is `MovesFrom`, and `MovesKeepApart` is the
  set theory of it. `ConservedApart` relates `Apart` to the property of the run. The
  one edge where the moves do not match is the misfiled insert, finding `top_kick`.

The two selection trees (`SelTree_proofs`) move one level per cycle, so every level
holds a selection about other signals. The invariant says that there is a
history of signals, one for each level, such that every node is the best of the
leaves under it in the signals of its level (`LevelsBest`) and the expected list of
each level is the best of all (`ExpectedBest`). A cycle prepends the new signals:
`JoinBest` is the step from one level to the next, `BestOfAll` compares the root with the
definition that knows no tree. `EnoughLevels` is the termination of `log2`.

### det_skip_list

The search machine works only between the start pulse and `search_done`, while the
insert machine waits for it (`SearchWithinInsert`); a machine at work is busy from its first
cycle on (`BusyWhenAtWork`). With that, `OneAtATime` is kept: the remove machine
begins only when no insert is at work or on its way, and `busy` keeps the client
from inserting until it is done.

`ListSound` and `GapsBounded` speak of the list at rest; for tens of cycles in between
the pointers are half written. `WholeInv` therefore speaks of a list that the memory
stands for: there is a set `on` of linked addresses with a level `lv` and a place `at`
for each, a number that grows along a level and is that of the node below. Places are only
compared. Where a node goes between two neighbours all places are doubled first
(`ScaleShape`), so a new one fits. For these

* `Shape`: the pointers follow the places (`Rights`, `Lefts`, `Downs`, `Ups`), ranks
  fall along a level (`Sorted`), no four nodes in a row have nothing on them
  (`Gaps`), and left of a node on which something stands is one with nothing on it (`Spread`).
  While the remove machine climbs, the node it takes next stands on nothing (`Torn`).
* `Books`: the free list, with the read and the write under way, is what is not
  linked; the topmost level in use, the copies of the ends and the counter are right.
* `Removing`: the node of the remove machine is the last of its level.
* `Searching`: what the search knows in each of its states. `Along` counts
  the nodes passed with nothing on them and keeps in `d` the last one not smaller than the
  new rank; `Third` is a promotion decided on; `Beyond` is the rest of the walk on the level
  after it, where the counter of the code no longer counts from the node entered;
  `Found` is the place, with `Slack` for one more node. It also says that enough
  nodes are free (`Room`): one for every level below and one for the entry.
* `Flags`, `RegisterHolds`, `RegsTyped`: the handshake of the machines, the register
  in front, types.

Most cycles write nothing (`StepQuiet`, with `SearchQuiet` and one lemma per step of a
search: `GoesDown`, `GoesRight`, `LeavesLevel`, `MeetsThird`, `WalksOn`). Two states fill the new
node in (`StepConnNew`, `StepInsertNew`), two link it (`StepConnNear`, `StepInsertNear`, both
by `LinkShape`), one step unlinks the last node of a level (`StepUnlink`, by `UnlinkShape`).

Two facts were not obvious. *The levels suffice*: a promotion on the topmost level
would write above it, and no line of the code tests for it. By `Spread` a level has at
most half as many nodes as the one below (`Halved`, an injection to the left
neighbours), so two nodes on the topmost one would need 2**NUM_LVLS entries
beside the nodes that are free (`TopLevel`). This is where MAX_CONS_NODES = 3 matters: with 2
a promoted node may stand beside another, and levels need not halve. *A promotion leaves room*:
three nodes are passed before one is promoted, the middle one, so neither side of
it gets four in a row whatever the insert adds below it (`RaiseReady`, `Raise`).

`Walk`, which the invariants of the run are stated with, is an iteration that ends
at the tail before MAX_SIZE steps and meets the whole level (`WalkEnds`, `WalkLevel`).

**The ports.** `ListImplementsPort` closes the gap between the two levels of the PIFO:
`PifoTop` is checked, and proved about, with `SkipListPort` in place of the lists,
and every cycle of `det_skip_list.v` is a step of `SkipListPort`. `View` maps one to the other:
held is what is in the register, its latch, on its port, in a node or with the main
machine. `PortInv`, on top of `WholeInv`, follows an entry through the four places
it can be in (`InReg`, `ToReg`, `ToNode`, `ListEntries`):

* `Apart`, `AllNumbered`, `CarriedOK`: no entry is in two places or two nodes, and
  `sl_num_entries` counts the nodes that carry one, but for one that is being linked or unlinked.
  `PortFlow` is one cycle: the register takes what is on its port, passes its
  maximum on when it is full, the remove machine empties the last node, the insert
  machine fills one in; nothing is lost or doubled (`RegFlow`, `MainFlow`, `ListFlow`, `Flow`).
* `Ordered`: the register holds the smallest ranks, and what comes to it is not
  larger than what stays behind. An entry on the port is compared with the register's maximum as it
  is that cycle (`Compared`), and what leaves the nodes is the last node's, a least one
  (`LeastLeaves`). With it what is offered is a smallest of all that is settled (`OfferedLeast`).
* `PortFlags`, `RegFlags`: what moves keeps `busy` high, two things never move at
  once, and a register without entries stands before nodes without entries.
  They decide what may be missing from the count (`Missing`, `HowMany`) and that an offer
  stays while the list is not busy (`HeadAllowed`).
* `Lately`: `full` is a register behind the count of free nodes, and `pifo_top.v`
  inserts by a choice that is several cycles old. A choice is still good when it is used, for
  an insert that takes the last nodes keeps the list busy longer than that:
  in each state of an insert at work it is known for how many cycles the list has
  not said it was available (`Unavailable`). This is where `LatencyAssumption` is needed: five lists, as in `pifo_top.v`,
  make five cycles, the eleven of the traffic manager's tests six.

The theorem says nothing of the port's own `full`: the bound of `SkipListPort` is put
above the number of entries, and the client of `DetSkipList` obeys the list's.

### pifo_pkt_storage

`MetaSlotsExact` says that the slots in the free list are different and that with
those of the packets inside they are all that were filled in. Alone it is not
inductive: a slot given back must not be in the list already. `MetaInv` adds

* `FillingIsQuiet`: while the lists are being filled nobody is inside. This is
  where `~EARLY_TRAFFIC` is needed.
* `ListSound`, `WaitingApart`, `HeldApart`: the slots in the list, of the packets
  that wait and of the one that leaves are below `cur_val`, different within each
  and from each other.

`Arrivals` and `Removals` say what the two machines do with a slot in one cycle,
`ListMoves` and `WaitingMoves` what that does to the list and to the packets that
wait; `MetaStep` counts: what is taken from the list is what a packet gets, what
is appended is what the leaving packet gives or what is filled in.

Segments are the harder half, for a packet is a chain of them, written at one end
and read at the other, and a segment is given back while its word is still being
read. `StorageInv` adds to `MetaInv`

* `InputShape`, `InputSound`: what the insertion machine knows of the packet that
  comes in: its segments so far, the one it fills and the one it has taken ahead.
* `FreeSound`, `SegmentsSound`, `NumbersApart`: the segments in the free list, in
  each packet that waits, and in the packets in the two machines are different and
  together are all; the words in them are the packet's in order, linked by the
  addresses in the RAM (`Holds`, `Written`).
* `OutputSound`: the removal machine state by state: which word it waits for, how old
  the reading is (`ReadingSound`), and for how many cycles the word on the bus has
  been stalled, against which the segment given back has moved towards being
  written over (`FirstSound`, `FirstMetaSound`, `SecondSound`). Here `MAX_STALL <= 4` is used.
* `LeadSound`: of a packet that leaves while it arrives, how far the writer is ahead of
  the reader. The words that have come and the pauses of the source make up the cycles since
  its first word (`PauseMoves`), the client lets `LEAD` of them pass, and a word that is read
  takes a cycle at least (`LeadStep`). With `PausesFit` (`ClientFits`) the segment that is
  read, and the pointer in it to the next, are in the RAM (`Ahead`).

`InsertionEffect` and `RemovalEffect` say what each machine does in a cycle,
`OwnersMove` and `SegListMoves` what that does to the owners of segments,
`KeepHolds`, `KeepWritten` and `Fresh` that a write touches only the packet that
comes in. `SegmentStep`, `WaitingStep`, `InputStep` and one lemma for each state of the
removal machine (`RequestStep`, `WaitBramStep`, `FirstStallStep`, `FirstTakenStep`,
`SecondWordStep`) keep the parts.

### simple_tm_sl_drop

Three facts depend on each other: the storage has room because the queues are
within their limits, the limits hold because the sizes are exact, and the sizes are exact
because no word is lost, for a lost word leaves traffic manager and storage at different
places of a packet. `TrafficInv` has all of them, so that each may use the others
of the state before:

* `TmInv`: the machines hold a packet when their states say so (`MachinesHold`), no
  packet is in two places (`PlacesApart`), both sides are at the same place of a
  packet. `WaitingMoves`, `RequestMoves` and `TmStep` show how slots and
  packets change together.
* `PacketsWhole`, `InputInStep`, `OutputInStep`: the words that came in of each packet, and those
  that have left, on both sides of the storage's port.
* `SegmentsCounted`: the segments in the storage are those of the packets inside, and a queue's size is
  the sum over its packets that have arrived and have not begun to leave. A
  packet adds a segment to its queue with every second word and takes all of them out
  when it begins to leave (`SegmentsMove`, `QueueMoves`, `CountMoves`).
* `Limited`: a queue that is not empty is below its limit, and the queue of the
  packet that comes in has room for the rest of the longest packet.
* `LeadSound`: the same lead as in the storage, from the other side. The pointers of a packet
  are a cycle on their way to the PIFO, one in it and one on their way to the
  storage (`LeadStep`); with one pause at most the reader of a packet that
  arrives stays behind its writer (`ReaderBehind`). With `RoomForOneMore` this is
  what the storage assumes of its client, `TrafficIsStorageClient`.

Room follows by counting: `AllSegmentsBounded` maps the segments one to one into places,
QUEUE_LIMIT - 1 of them for every queue, so that no sum over the queues is needed;
`RoomForAll` and `SlotsWithSegments` leave a segment and a slot over.

### Stream buffers

`FramesInv` adds to `FramesIntact` what the insertion machine knows of the word
stored last (`WriterInv`: between packets, within one, or passing over the rest of
one; a formula per buffer) and that there is room for the rest of a packet
that was let in (`RoomKept`). The FIFOs are treated once for all buffers:
`ChainTail`, `ChainAppend`, `OrderTail` and `OrderAppend` are about sequences of
words and the meta data of those that start a packet, `FramesMove` is one cycle
of both. Per buffer remain one lemma that the word it stores follows (`WordStored`)
and one that its machine moves with the source (`AxiMoves`, `RateMoves`,
`QueueMoves`, `TrimMoves`, `SelectorMoves`). `RoomStays` shows that each
of the five conditions for letting a word in is enough: the FIFOs always
keep one place free. `PacingInv` counts a pause.

### Model-checked only

* Liveness (`RefillNotStarved`, `InsertNotStarved`, `ArrivesEntirely`,
  `InputNotBlocked`) is out of the prover's reach.
* The Python lists are defined by recursive operators along pointers as the code is by loops,
  which the provers cannot use: `SimPifo` and `SyncLists` stay with TLC.

## 6. Not modelled

* Bytes, `tkeep` (but for its role as end mark in the storage), simulation
  dumps, resets in the middle of operation (nothing in the design resets a part
  alone).
* Wiring and clocks (`demo_datapath`, `nf_datapath`, `top`, `axi_clocking`): no
  state of their own.
* P4 programs, embedded C, host tools, test benches: parsing, board bring-up and
  stimuli; read for what they say of the design.
* `pipe_skip_list.py` is unfinished and does not compile (the `else` at line 271 has no
  statement). The AXI stream endpoints of `hwsim_utils.py` are used by their own
  tests only. Measurements, plots, printing and the drivers that choose
  parameters (`pifo_sim.py`, `run_pifo_sim.py`, `test_*.py`).
* The remaining hardware of section 1, which the plan below takes up.

## 7. Plan

Done, in this order: `PifoReg` with its proofs; `PifoTop` with `SkipListPort`
and `SelTree`; `PktStorage`; `SimpleTmDrop`; `DetSkipList`; `StreamBuffers`; the Python simulations (`SimPy` to `SimPifo`) and
`SyncLists`.

Next:

1. `ReqArbiter`, `PortTm` (with the difference of `port_tm_bp`), `PortSelector`,
   `TrafficManager`: one queue PIFO as in `SimpleTmDrop`. Abstract
   specification: every port that is asked has a packet, and asked ports answer
   in order. The selection of a port as described in section 4 will
   break the first part; to look at besides: `traffic_manager.v:387` sets `tready` inside the loop that other
   iterations rely on.
2. Variants of `SimpleTmDrop`: `simple_tm_sl_bp` (the removal also waits for
   `m_axis_tready`), `simple_tm_reg`; filling of the free lists while traffic
   flows (`EARLY_TRAFFIC = TRUE`).
3. `RankPipe` with `simple_rank_tm`; `InputArbiterDrr` (deficit bounded, no
   input starves while others send).
4. Liveness of `DetSkipList`: `busy` ends if entries leave.
5. Proofs: an abstract PIFO of rank order for `PifoTop` over `SkipListPort`, with the entries
   that are still moving counted apart.

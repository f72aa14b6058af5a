------------------------------ MODULE SimPifo ------------------------------
(***************************************************************************)
(* The simulated PIFO with its test bench: Pifo_tb generates packets and   *)
(* reads them back, Pifo_top stores them and puts their pointers into      *)
(* SkipListWrapper, which spreads them over the skip lists.                *)
(*                                                                         *)
(* With a fill level of 0 (None in the code) the test bench writes all its *)
(* packets, then reads them; otherwise it writes when the PIFO holds fewer *)
(* entries and reads when it holds as many.                                *)
(*                                                                         *)
(* A behaviour is followed up to the first error message or exception.     *)
(***************************************************************************)
EXTENDS SimSkipList, SimStorage

CONSTANT SETUPS   \* arguments of the simulations; see SetupAssumption.  `ranks' is
                  \* a bound: what random.randint(0, MAX_RANK) draws from

SetupAssumption ==
  \A s \in SETUPS :
    /\ s.impl \in {"det", "prob"}
    /\ {s.width, s.fifo, s.lists, s.latency, s.samples, s.mem_latency, s.segs}
         \subseteq Nat \ {0}
    /\ {s.fill, s.write_delay, s.read_delay} \subseteq Nat
    /\ s.ranks \subseteq 0..(POS_INF - 1)
ASSUME SetupAssumption

VARIABLES num_entries,   \* of SkipListWrapper
          tb             \* of Pifo_tb: [pkt_id, start_deq, sim_complete,
                         \*   active_pkts, measured, received]

vars == <<env, pc, setup, reg, errors, list, store, num_entries, tb>>

Lists == 1..setup.lists

WrapperEnq == <<"wrapper.enqueue", 0>>
WrapperDeq == <<"wrapper.dequeue", 0>>
TopWrite == <<"write_pkt", 0>>
TopRead == <<"read_pkt", 0>>
Generator == <<"generate_pkts", 0>>
Receiver == <<"receive_pkts", 0>>

TopIn == <<"top_pkt_in_pipe", 0>>
SlEnqIn == <<"sl_enq_in_pipe", 0>>
SlEnqOut == <<"sl_enq_out_pipe", 0>>
TopDeqIn == <<"top_deq_in_pipe", 0>>
SlDeqOut == <<"sl_deq_out_pipe", 0>>

---------------------------------------------------------------------------
(* SkipListWrapper *)

Ready == {i \in Lists : ~list[i].busy /\ ~reg[i].busy}

\* The first of the ready lists with the fewest entries.
Selected == CHOOSE i \in Ready : \A j \in Ready :
  /\ list[i].num_entries <= list[j].num_entries
  /\ list[i].num_entries = list[j].num_entries => i <= j

WrapperEnqueues(request) ==
  /\ IF Ready = {}
     THEN /\ env' = Timeout(Popped, 1, WrapperEnq)
          /\ Yields(WrapperEnq, [at |-> "waiting", request |-> request])
     ELSE /\ env' = Timeout(Put(Popped, EnqIn(Selected), request), 1, WrapperEnq)
          /\ Yields(WrapperEnq, At("sent"))
  /\ UNCHANGED <<listVars, store, num_entries, tb>>

WrapperEnqueueTakes == Runs(WrapperEnq, "idle") /\ WrapperEnqueues(Got)
WrapperEnqueueRetries ==
  Runs(WrapperEnq, "waiting") /\ WrapperEnqueues(pc[WrapperEnq].request)

WrapperEnqueueEnds ==
  /\ Runs(WrapperEnq, "sent")
  /\ num_entries' = num_entries + 1
  /\ env' = Get(Put(Popped, SlEnqOut, Signal), SlEnqIn, WrapperEnq)
  /\ Yields(WrapperEnq, At("idle"))
  /\ UNCHANGED <<listVars, store, tb>>

\* Mutant: goes past a list with nothing valid to show.
RECURSIVE ScanHasty(_, _, _)
ScanHasty(i, sel, least) ==
  IF i > setup.lists THEN [i |-> i, sel |-> sel, least |-> least]
  ELSE IF reg[i].next_valid /\ (sel = 0 \/ reg[i].next < least)
  THEN ScanHasty(i + 1, i, reg[i].next)
  ELSE ScanHasty(i + 1, sel, least)

\* The loop over the lists from i on: the list with the smallest next value so
\* far and that value, up to a list whose register has nothing valid to show.
RECURSIVE Scan(_, _, _)
Scan(i, sel, least) ==
  IF i > setup.lists \/ (list[i].num_entries > 0 /\ ~reg[i].next_valid)
  THEN [i |-> i, sel |-> sel, least |-> least]
  ELSE IF reg[i].next_valid /\ (sel = 0 \/ reg[i].next < least)
  THEN Scan(i + 1, i, reg[i].next)
  ELSE Scan(i + 1, sel, least)

WrapperScans(i, sel, least) ==
  LET s == Scan(i, sel, least)
  IN IF s.i <= setup.lists \/ s.sel = 0
     THEN /\ env' = Timeout(Popped, 1, WrapperDeq)
          /\ Yields(WrapperDeq,
                    [at |-> "scanning", i |-> IF s.i <= setup.lists THEN s.i ELSE 1,
                     sel |-> s.sel, least |-> s.least])
     ELSE /\ env' = Get(Put(Popped, DeqIn(s.sel), Signal), DeqOut(s.sel), WrapperDeq)
          /\ Yields(WrapperDeq, At("removing"))

\* A request to an empty PIFO is refused: "ERROR: Dequeue from empty PIFO!"
WrapperDequeueTakes ==
  /\ Runs(WrapperDeq, "idle")
  /\ IF num_entries > 0
     THEN /\ num_entries' = num_entries - 1
          /\ WrapperScans(1, 0, 0)
          /\ UNCHANGED errors
     ELSE /\ errors' = errors \cup {"empty"}
          /\ env' = Get(Popped, TopDeqIn, WrapperDeq)
          /\ UNCHANGED <<pc, num_entries>>
  /\ UNCHANGED <<setup, reg, list, store, tb>>

WrapperDequeueScans ==
  LET me == pc[WrapperDeq]
  IN /\ Runs(WrapperDeq, "scanning")
     /\ WrapperScans(me.i, me.sel, me.least)
     /\ UNCHANGED <<listVars, store, num_entries, tb>>

WrapperDequeueEnds ==
  /\ Runs(WrapperDeq, "removing")
  /\ env' = Get(Put(Popped, SlDeqOut, Got), TopDeqIn, WrapperDeq)
  /\ Yields(WrapperDeq, At("idle"))
  /\ UNCHANGED <<listVars, store, num_entries, tb>>

WrapperNext ==
  \/ WrapperEnqueueTakes \/ WrapperEnqueueRetries \/ WrapperEnqueueEnds
  \/ WrapperDequeueTakes \/ WrapperDequeueScans \/ WrapperDequeueEnds

---------------------------------------------------------------------------
(* Pifo_top *)

TopStores ==
  /\ Runs(TopWrite, "idle")
  /\ env' = Get(Put(Popped, PktIn, Got), PtrOut, TopWrite)
  /\ Yields(TopWrite, [at |-> "stored", rank |-> Got.rank])
  /\ UNCHANGED <<listVars, store, num_entries, tb>>

TopEnqueues ==
  /\ Runs(TopWrite, "stored")
  /\ env' = Get(Put(Popped, SlEnqIn, [val |-> pc[TopWrite].rank, ptrs |-> Got]),
                TopIn, TopWrite)
  /\ Yields(TopWrite, At("idle"))
  /\ UNCHANGED <<listVars, store, num_entries, tb>>

TopReads ==
  /\ Runs(TopRead, "idle")
  /\ env' = Get(Put(Popped, PtrIn, Got.ptrs), SlDeqOut, TopRead)
  /\ UNCHANGED <<pc, listVars, store, num_entries, tb>>

TopNext == TopStores \/ TopEnqueues \/ TopReads

---------------------------------------------------------------------------
(* Pifo_tb *)

Draining == setup.fill = 0

\* The top of the loop of generate_pkts.
GeneratorLoops ==
  IF tb'.sim_complete
  THEN env' = Popped /\ Yields(Generator, At("ended"))
  ELSE env' = WaitClocks(Popped, 1, Generator) /\ Yields(Generator, At("clock"))

\* `level' is the number of entries when it was decided to send.
Sends(level) ==
  \E rank \in setup.ranks :
    /\ env' = Get(Put(Popped, TopIn, [id |-> tb.pkt_id, rank |-> rank]),
                  SlEnqOut, Generator)
    /\ tb' = [tb EXCEPT !.pkt_id = @ + 1]
    /\ Yields(Generator, [at |-> "sent", id |-> tb.pkt_id, level |-> level])

WARM_UP_PKTS == 1
MayDrain == Draining /\ tb.pkt_id < setup.samples + WARM_UP_PKTS
MayFill == ~Draining /\ num_entries < setup.fill

GeneratorDrains ==
  Runs(Generator, "clock") /\ MayDrain /\ Sends(num_entries)

GeneratorDelays ==
  /\ Runs(Generator, "clock")
  /\ MayFill
  /\ env' = Timeout(Popped, setup.write_delay, Generator)
  /\ Yields(Generator, [at |-> "delay", level |-> num_entries])
  /\ UNCHANGED tb

GeneratorFills == Runs(Generator, "delay") /\ Sends(pc[Generator].level)

GeneratorIdles ==
  Runs(Generator, "clock") /\ ~MayDrain /\ ~MayFill /\ UNCHANGED tb /\ GeneratorLoops

\* The enqueue is acknowledged: which packets are measured, when to start reading.
GeneratorNotes ==
  LET me == pc[Generator]
      measured == IF Draining THEN me.id # 0 ELSE me.level = setup.fill - 1
  IN /\ Runs(Generator, "sent")
     /\ tb' = [tb EXCEPT
          !.active_pkts = IF measured THEN @ \cup {me.id} ELSE @,
          !.start_deq = @ \/ (Draining /\ tb.pkt_id >= setup.samples + WARM_UP_PKTS)]
     /\ GeneratorLoops

\* After the loop of receive_pkts: for each list from i on, wait until it is not
\* busy and interrupt its two processes, which wait for the clock then.
Closes(e, i) ==
  LET busy == {k \in i..setup.lists : list[k].busy}
      next == CHOOSE k \in busy \cup {setup.lists + 1} :
                \A j \in busy : k <= j
      stopped == {EnqSl(k) : k \in i..(next - 1)} \cup {DeqSl(k) : k \in i..(next - 1)}
      interrupted == FoldLeftDomain(
        LAMBDA x, k : IF k < i THEN x
                      ELSE Interrupted(Interrupted(x, EnqSl(k)), DeqSl(k)),
        e, [k \in 1..(next - 1) |-> k])
      me == IF next > setup.lists THEN At("ended") ELSE [at |-> "closing", i |-> next]
  IN /\ env' = IF next > setup.lists THEN interrupted
               ELSE WaitClocks(interrupted, 1, Receiver)
     /\ pc' = [p \in DOMAIN pc |-> IF p = Receiver THEN me
                                   ELSE IF p \in stopped THEN At("stopped")
                                   ELSE pc[p]]

Asks(e) ==
  /\ env' = Get(Put(e, TopDeqIn, Signal), PktOut, Receiver)
  /\ Yields(Receiver, At("asked"))

\* The top of the loop of receive_pkts.
ReceiverLoops(e) ==
  IF tb'.sim_complete THEN Closes(e, 1)
  ELSE IF Draining /\ tb'.start_deq THEN Asks(e)
  ELSE IF ~Draining /\ num_entries >= setup.fill
  THEN env' = Timeout(e, setup.read_delay, Receiver) /\ Yields(Receiver, At("delay"))
  ELSE env' = WaitClocks(e, 1, Receiver) /\ Yields(Receiver, At("clock"))

ReceiverChecks == Runs(Receiver, "clock") /\ UNCHANGED tb /\ ReceiverLoops(Popped)

ReceiverAsks == Runs(Receiver, "delay") /\ UNCHANGED tb /\ Asks(Popped)

ReceiverGets ==
  LET id == Got.tuser.id
      counted == IF id \in tb.active_pkts THEN tb.measured + 1 ELSE tb.measured
  IN /\ Runs(Receiver, "asked")
     /\ Got.tuser # None
     /\ tb' = [tb EXCEPT !.active_pkts = @ \ {id},
                         !.measured = counted,
                         !.sim_complete = counted >= setup.samples,
                         !.received = Append(@, Got)]
     /\ ReceiverLoops(Popped)

ReceiverCloses ==
  Runs(Receiver, "closing") /\ UNCHANGED tb /\ Closes(Popped, pc[Receiver].i)

TbNext ==
  /\ \/ GeneratorDrains \/ GeneratorDelays \/ GeneratorFills
     \/ GeneratorIdles \/ GeneratorNotes
     \/ ReceiverChecks \/ ReceiverAsks \/ ReceiverGets \/ ReceiverCloses
  /\ UNCHANGED <<listVars, store, num_entries>>

---------------------------------------------------------------------------
\* Where each process yields first, in the order in which they are registered.
FirstWaits(s) ==
  LET L == 1..s.lists
      stores ==
        <<<<WIn("segments"), Writer("segments")>>, <<RIn("segments"), Reader("segments")>>,
          <<WIn("metadata"), Writer("metadata")>>, <<RIn("metadata"), Reader("metadata")>>,
          <<PktIn, Insertion>>, <<PtrIn, Removal>>>>
        \o FlattenSeq([i \in L |->
             <<<<InsIn(i), Inserter(i)>>, <<RemIn(i), Remover(i)>>,
               <<SearchIn(i), Searcher(i)>>, <<EnqIn(i), Enqueuer(i)>>,
               <<DeqIn(i), Dequeuer(i)>>>>])
        \o <<<<SlEnqIn, WrapperEnq>>, <<TopDeqIn, WrapperDeq>>,
             <<TopIn, TopWrite>>, <<SlDeqOut, TopRead>>>>
      inits == {Initializer(i) : i \in L}
      clocked == {EnqSl(i) : i \in L} \cup {DeqSl(i) : i \in L}
                 \cup {Generator, Receiver}
      ticks == FoldLeft(LAMBDA e, i : Timeout(Timeout(e, 1, EnqSl(i)), 1, DeqSl(i)),
                        [queue |-> [i \in L |-> Access(<<"w">>, 1, Initializer(i))],
                         later |-> <<>>, items |-> <<>>, getters |-> stores,
                         served |-> <<>>],
                        [i \in L |-> i])
  IN /\ env = WaitClocks(WaitClocks(ticks, 1, Generator), 1, Receiver)
     /\ pc = [p \in {stores[j][2] : j \in DOMAIN stores} \cup inits \cup clocked |->
                IF p \in inits THEN [at |-> "accessing", done |-> 0]
                ELSE IF p \in clocked THEN At("clock") ELSE At("idle")]

Init ==
  /\ setup \in SETUPS
  /\ FirstWaits(setup)
  /\ reg = [i \in Lists |-> EmptyReg]
  /\ list = [i \in Lists |-> NewList(setup.impl)]
  /\ store = NewStore
  /\ errors = {}
  /\ num_entries = 0
  /\ tb = [pkt_id |-> 0, start_deq |-> FALSE, sim_complete |-> FALSE,
           active_pkts |-> {}, measured |-> 0, received |-> <<>>]

ListStep(i) == SkipListNext(i) /\ UNCHANGED <<store, num_entries, tb>>
StorageStep ==
  StorageNext /\ UNCHANGED <<setup, reg, list, num_entries, tb>>
LibraryStep ==
  (Library \/ Tick) /\ UNCHANGED <<reg, list, store, num_entries, tb>>

Next ==
  /\ errors = {}
  /\ \/ \E i \in Lists : ListStep(i)
     \/ StorageStep
     \/ WrapperNext
     \/ TopNext
     \/ TbNext
     \/ LibraryStep

\* env.run() goes on while there is something on the agenda.
Spec == Init /\ [][Next]_vars /\ WF_vars(Next)

---------------------------------------------------------------------------
(* Properties *)

Rests(i) == ~Works(EnqSl(i)) /\ ~Works(DeqSl(i))

\* Everything of list i that has been started has also been finished: nothing is
\* due now and each of its processes waits for work.
Settled(i) ==
  /\ env.queue = <<>>
  /\ Rests(i)
  /\ \A p \in {Inserter(i), Remover(i), Enqueuer(i), Dequeuer(i)} : pc[p].at = "idle"

Held(i) == reg[i].entries \o list[i].enq_fifo \o Entries(list[i].nodes)

\* In a list that nobody works on, every node above level 0 stands on the node
\* that knows it as the one above: "Connect node below to new node"
\* (det_skip_list_simpy.py:223).  A node that is not known below stays behind
\* when its entry leaves.
NodesStacked ==
  errors = {} => \A i \in Lists : Rests(i) => Stacked(setup.impl, list[i].nodes)

\* A list that nobody works on is in order and linked in both directions, and its
\* levels are connected: of the deterministic one while all ranks are equal, for
\* with different ones NodesStacked does not hold.
ListsSound ==
  /\ errors = {} => \A i \in Lists : Rests(i) => Linked(list[i].nodes)
  /\ setup.impl = "prob" \/ Cardinality(setup.ranks) = 1 => NodesStacked

\* Register, FIFO and nodes together hold as many entries as the list counts,
\* each once: deq_sl and the wrapper decide by these counts.
EntriesCounted ==
  errors = {} => \A i \in Lists : Settled(i) =>
    /\ Len(Held(i)) = list[i].num_entries
    /\ Cardinality({Held(i)[j].ptrs : j \in DOMAIN Held(i)}) = Len(Held(i))

\* The places of the packet memories are free or belong to one packet that is in
\* the PIFO, whenever no packet is on its way.
PlacesExact ==
  LET taken == UNION {{Held(i)[j].ptrs.meta : j \in DOMAIN Held(i)} : i \in Lists}
      free(b) == {store[b].free[j] : j \in DOMAIN store[b].free}
  IN ( /\ errors = {}
       /\ \A i \in Lists : Settled(i)
       /\ \A p \in {WrapperEnq, WrapperDeq, TopWrite, Insertion, Removal} :
            pc[p].at = "idle" ) =>
     /\ free("metadata") = (0..(MAX_PKTS - 1)) \ taken
     /\ Cardinality(free("segments")) = MAX_SEGMENTS - setup.segs * Cardinality(taken)
     /\ \A b \in Brams : Cardinality(free(b)) = Len(store[b].free)

\* What is read back is a packet as it was written, once: the reader of the
\* memories never overtakes their writer, and no place is used twice.
DeliveredIntact ==
  /\ \A j \in DOMAIN tb.received : LET x == tb.received[j] IN
       /\ x.tuser # None
       /\ DOMAIN x.pkt = 1..setup.segs
       /\ \A k \in DOMAIN x.pkt : x.pkt[k].id = x.tuser.id /\ x.pkt[k].part = k
  /\ Cardinality({tb.received[j].tuser.id : j \in DOMAIN tb.received})
       = Len(tb.received)

\* No process dies; no FIFO is written when full; no request comes to an empty
\* PIFO; nobody searches or empties a list before initSkipList is done with it;
\* no entry that refills the register is given back.
NoErrors == errors = {}

\* "tmpVal should be -1 because there was room available in out reg": the room in
\* the register that deq_sl saw is still there when its entry comes.
RoomWhenRefilled == "dequeue" \notin errors

\* "If there's room in out reg and there are entries in skip list and it's not busy"
\* (det_skip_list_simpy.py:311): deq_sl and enq_sl never work on the nodes at once,
\* and neither works on levels that initSkipList has not left.
NodesToItself == "overlap" \notin errors

\* "Read out any available packets" (pifo_top.py:65): a place that is read has been
\* written.
WrittenWhenRead == Runs(Removal, "collected") => Got # None

\* A removal takes the smallest of all the entries of the PIFO: "From non-empty
\* skip lists/regs, select the one with the min value" (pifo_wrapper.py:78).
TakesSmallest ==
  \A i \in Lists : RemoveEnds(i) =>
    \A k \in Lists : \A j \in DOMAIN Held(k) :
      reg[i].entries[MinIdx(reg[i].entries)].val <= Held(k)[j].val
SmallestFirst == [][TakesSmallest]_vars

\* So it does where the fill level and the delays of the test bench give the lists
\* time to take what waits in their FIFOs.
SmallestWhenPaced == [][~Draining => TakesSmallest]_vars

\* The simulation ends, with every sample measured.
Ends == <>(NothingLeft /\ tb.sim_complete)
=============================================================================

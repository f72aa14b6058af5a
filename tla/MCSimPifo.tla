----------------------------- MODULE MCSimPifo -----------------------------
EXTENDS SimPifo

\* Arguments: implementation, fill level, lists, width of the register, depth of
\* the FIFO, delay of the test bench, samples, ranks.  Packets have one segment
\* (the 64 bytes of run_pifo_sim.py) unless said otherwise.
Setup(impl, fill, lists, width, fifo, delay, samples, ranks) ==
  [impl |-> impl, fill |-> fill, lists |-> lists, width |-> width, fifo |-> fifo,
   latency |-> 1, mem_latency |-> 1, segs |-> 1, write_delay |-> delay,
   read_delay |-> delay, samples |-> samples, ranks |-> ranks]

Segments(s, segs, mem_latency) ==
  [s EXCEPT !.segs = segs, !.mem_latency = mem_latency]
Latency(s, latency) == [s EXCEPT !.latency = latency]

\* All packets in, then all out, as run_pifo_sim.py does.  The deterministic lists
\* have a slow register or get many packets, so that they have been initialised when
\* the first packet is read.  Two of them promote nodes of different ranks, and two
\* of the others have segments still to write when the reading starts.
Drains ==
  {Latency(Setup("det", 0, 1, 1, 1, 0, 5, {1, 2}), 6),
   Latency(Setup("det", 0, 2, 1, 1, 0, 5, {1, 2}), 6),
   Setup("det", 0, 3, 2, 2, 0, 17, {1}),
   Segments(Setup("prob", 0, 1, 3, 3, 0, 3, {1, 2}), 3, 1),
   Segments(Setup("prob", 0, 1, 1, 1, 0, 3, {1, 2}), 2, 2),
   Setup("prob", 0, 2, 1, 1, 0, 3, {1, 2}),
   Setup("prob", 0, 1, 1, 1, 0, 4, {1})}

\* In and out around a fill level: two lists at a pace at which the wrapper finds one
\* of them being refilled, and the last with a single rank, and a promotion.
Fills ==
  {Segments(Setup("prob", 2, 1, 1, 1, 30, 2, {1, 2}), 3, 1),
   Setup("prob", 3, 2, 1, 1, 3, 2, {1, 2}),
   Setup("det", 3, 1, 1, 1, 35, 2, {1, 2}), Setup("det", 5, 1, 1, 1, 60, 2, {1})}

Setups == Drains \cup Fills

\* The test bench writes and reads faster than the list is refilled.
Hurried == {Setup("prob", 3, 1, 1, 2, 5, 3, {1, 2})}

\* A deterministic list that promotes nodes of different ranks.
Promoting == {Latency(Setup("det", 0, 1, 1, 1, 0, 5, {1, 2}), 6)}

\* The same, read while it is still being initialised.
Early == {Setup("det", 0, 1, 1, 1, 0, 5, {1, 2})}

\* Packets of three segments in a memory that takes two periods for each.
Long == {Segments(Setup("prob", 0, 1, 3, 3, 0, 3, {1, 2}), 3, 2)}
=============================================================================

---------------------------- MODULE SimSkipList -----------------------------
(***************************************************************************)
(* A skip list of the simulations, class SkipList of                       *)
(* det_skip_list_simpy.py and of pifo_skip_list.py, as its processes:      *)
(*   enqueue, dequeue   serve the wrapper from the output register         *)
(*   enq_sl             moves entries from enq_fifo into the list          *)
(*   deq_sl             refills the register from the list                 *)
(*   search             finds where enq_sl inserts                         *)
(*   initSkipList       writes the empty levels                            *)
(* enq_sl and deq_sl look once per period whether they have work, and keep *)
(* each other away with `busy'.  The two files share all but the search,   *)
(* the insertion, the levels and where the initialisation clears busy:     *)
(* setup.impl tells them apart.                                            *)
(***************************************************************************)
EXTENDS OutReg, SimLists

VARIABLE list   \* [nodes, enq_fifo, num_entries, busy] of each list

listVars == <<setup, reg, errors, list>>

Initializer(i) == <<"initSkipList", i>>
Searcher(i) == <<"search", i>>
Enqueuer(i) == <<"enqueue", i>>
Dequeuer(i) == <<"dequeue", i>>
EnqSl(i) == <<"enq_sl", i>>
DeqSl(i) == <<"deq_sl", i>>

SearchIn(i) == <<"search_in_pipe", i>>
SearchOut(i) == <<"search_out_pipe", i>>
EnqIn(i) == <<"enq_in_pipe", i>>
EnqOut(i) == <<"enq_out_pipe", i>>
DeqIn(i) == <<"deq_in_pipe", i>>
DeqOut(i) == <<"deq_out_pipe", i>>

NewList(impl) ==
  [nodes |-> Levels(impl), enq_fifo |-> <<>>, num_entries |-> 0, busy |-> TRUE]

Det == setup.impl = "det"

\* The exception of an operation on the nodes ends the simulation.
Reports(nodes, said) ==
  errors' = errors \cup said \cup (IF nodes.crashed THEN {"crash"} ELSE {})

\* One more access is done.  The deterministic list is not busy after the first
\* level already.
InitSkipList(i) ==
  LET p == Initializer(i)
      done == pc[p].done + 1
      ops == InitOps(setup.impl)
      last == done = Len(ops)
      level == \E k \in 0..Height(setup.impl) : done = LevelWritten(k)
  IN /\ Runs(p, "accessing")
     /\ list' = IF last \/ (Det /\ level) THEN [list EXCEPT ![i].busy = FALSE] ELSE list
     /\ env' = IF last THEN Popped ELSE Accesses(Popped, <<ops[done + 1]>>, p)
     /\ Yields(p, IF last THEN At("done") ELSE [at |-> "accessing", done |-> done])
     /\ UNCHANGED <<setup, reg, errors>>

\* Process p works on the nodes, or is about to.
Works(p) == pc[p].at \notin {"clock", "stopped"}

\* What p does to the nodes of the levels up to `level' overlaps with the work of
\* the other process, or of initSkipList where that has not left these levels.
\* Above them initSkipList goes on beside p: the nodes that it takes from the free
\* list there are given to it at once here.
Overlap(i, p, level) ==
  LET init == pc[Initializer(i)]
  IN IF \/ \E q \in {EnqSl(i), DeqSl(i)} \ {p} : Works(q)
        \/ init.at = "accessing" /\ init.done < LevelLeft(setup.impl, level)
     THEN {"overlap"} ELSE {}

---------------------------------------------------------------------------
(* enq_sl and search *)

HasInsertion(i) ==
  /\ list[i].enq_fifo # <<>>
  /\ Len(list[i].nodes.free) >= list[i].nodes.max + 1
  /\ ~list[i].busy

EnqSlIdles(i) ==
  /\ Runs(EnqSl(i), "clock")
  /\ ~HasInsertion(i)
  /\ env' = Timeout(Popped, 1, EnqSl(i))
  /\ UNCHANGED <<pc, listVars>>

DetEnqSlStarts(i) ==
  LET entry == Head(list[i].enq_fifo)
  IN /\ Det
     /\ Runs(EnqSl(i), "clock")
     /\ HasInsertion(i)
     /\ list' = [list EXCEPT ![i].busy = TRUE, ![i].enq_fifo = Tail(@)]
     /\ env' = Get(Put(Popped, SearchIn(i), [value |-> entry.val]), SearchOut(i), EnqSl(i))
     /\ Yields(EnqSl(i), [at |-> "found", entry |-> entry])
     /\ UNCHANGED <<setup, reg, errors>>

DetSearches(i) ==
  /\ Det
  /\ Runs(Searcher(i), "idle")
  /\ \E s \in {DetSearch(list[i].nodes, Got.value)} :
       /\ list' = [list EXCEPT ![i].nodes = s.L]
       /\ env' = Accesses(Popped, s.ops, Searcher(i))
       /\ Yields(Searcher(i), [at |-> "searching", found |-> s.d])
       /\ Reports(s.L, Overlap(i, EnqSl(i), s.L.max))
  /\ UNCHANGED <<setup, reg>>

DetInserts(i) ==
  LET nodes == DetInsert(list[i].nodes, Got, pc[EnqSl(i)].entry)
  IN /\ Det
     /\ Runs(EnqSl(i), "found")
     /\ list' = [list EXCEPT ![i].nodes = nodes]
     /\ env' = Accesses(Popped, DetInsertOps, EnqSl(i))
     /\ Yields(EnqSl(i), [at |-> "inserted", level |-> -1])
     /\ Reports(nodes, {})
     /\ UNCHANGED <<setup, reg>>

\* The top level follows the number of entries; the new one gets a random height.
ProbEnqSlStarts(i) ==
  LET top == Log2(list[i].num_entries - Len(reg[i].entries))
      entry == Head(list[i].enq_fifo)
  IN /\ ~Det
     /\ Runs(EnqSl(i), "clock")
     /\ HasInsertion(i)
     /\ list' = [list EXCEPT ![i].busy = TRUE, ![i].enq_fifo = Tail(@),
                             ![i].nodes.max = top]
     /\ \E level \in 0..top :
          /\ env' = Get(Put(Popped, SearchIn(i), 
                            [startNode |-> HeadOf(top), stopLevel |-> level,
                             value |-> entry.val]),
                        SearchOut(i), EnqSl(i))
          /\ Yields(EnqSl(i), [at |-> "found", entry |-> entry, level |-> level,
                               uNode |-> NULL])
     /\ errors' = errors \cup Overlap(i, EnqSl(i), top)
     /\ UNCHANGED <<setup, reg>>

ProbSearches(i) ==
  LET s == ProbSearch(list[i].nodes, Got.startNode, Got.stopLevel, Got.value)
  IN /\ ~Det
     /\ Runs(Searcher(i), "idle")
     /\ env' = Accesses(Popped, s.ops, Searcher(i))
     /\ Yields(Searcher(i), [at |-> "searching", found |-> [n |-> s.n, dn |-> s.dn]])
     /\ UNCHANGED listVars

SearchAnswers(i) ==
  /\ Runs(Searcher(i), "searching")
  /\ env' = Get(Put(Popped, SearchOut(i), pc[Searcher(i)].found),
                SearchIn(i), Searcher(i))
  /\ Yields(Searcher(i), At("idle"))
  /\ UNCHANGED listVars

ProbInserts(i) ==
  LET me == pc[EnqSl(i)]
      nodes == ProbInsert(list[i].nodes, me.level, Got.n, me.uNode, me.entry)
  IN /\ ~Det
     /\ Runs(EnqSl(i), "found")
     /\ list' = [list EXCEPT ![i].nodes = nodes]
     /\ env' = Accesses(Popped, ProbInsertOps(me.uNode), EnqSl(i))
     /\ Yields(EnqSl(i), [at |-> "inserted", entry |-> me.entry,
                          level |-> me.level - 1, startNode |-> Got.dn,
                          uNode |-> IF nodes.crashed THEN NULL
                                    ELSE Head(list[i].nodes.free)])
     /\ Reports(nodes, {})
     /\ UNCHANGED <<setup, reg>>

ProbNextLevel(i) ==
  LET me == pc[EnqSl(i)]
  IN /\ Runs(EnqSl(i), "inserted")
     /\ me.level >= 0
     /\ env' = Get(Put(Popped, SearchIn(i), [startNode |-> me.startNode,
                                             stopLevel |-> me.level,
                                             value |-> me.entry.val]),
                   SearchOut(i), EnqSl(i))
     /\ Yields(EnqSl(i), [at |-> "found", entry |-> me.entry, level |-> me.level,
                          uNode |-> me.uNode])
     /\ UNCHANGED listVars

EnqSlEnds(i) ==
  /\ Runs(EnqSl(i), "inserted")
  /\ pc[EnqSl(i)].level < 0
  /\ list' = [list EXCEPT ![i].busy = FALSE]
  /\ env' = Timeout(Popped, 1, EnqSl(i))
  /\ Yields(EnqSl(i), At("clock"))
  /\ UNCHANGED <<setup, reg, errors>>

---------------------------------------------------------------------------
(* deq_sl *)

\* Mutant: not for the last entry.
HasRemovalOffByOne(i) ==
  /\ Len(reg[i].entries) < setup.width
  /\ list[i].num_entries > Len(reg[i].entries) + 1
  /\ ~list[i].busy

\* Mutant: also when the register has no room.
HasRemovalWithoutRoom(i) ==
  list[i].num_entries > Len(reg[i].entries) /\ ~list[i].busy

HasRemoval(i) ==
  /\ Len(reg[i].entries) < setup.width
  /\ list[i].num_entries > Len(reg[i].entries)
  /\ ~list[i].busy

DeqSlIdles(i) ==
  /\ Runs(DeqSl(i), "clock")
  /\ ~HasRemoval(i)
  /\ env' = Timeout(Popped, 1, DeqSl(i))
  /\ UNCHANGED <<pc, listVars>>

\* Reads the tail and the node before it.
DeqSlStarts(i) ==
  /\ Runs(DeqSl(i), "clock")
  /\ HasRemoval(i)
  /\ list' = [list EXCEPT ![i].busy = TRUE]
  /\ env' = Accesses(Popped, <<"r", "r">>, DeqSl(i))
  /\ Yields(DeqSl(i), At("read"))
  /\ errors' = errors \cup Overlap(i, DeqSl(i), list[i].nodes.max)
  /\ UNCHANGED <<setup, reg>>

DeqSlSends(i) ==
  LET dq == list[i].nodes.mem[LastNode(list[i].nodes)]
  IN /\ Runs(DeqSl(i), "read")
     /\ env' = Get(Put(Popped, InsIn(i), [val |-> dq.val, ptrs |-> dq.ptrs]),
                   InsOut(i), DeqSl(i))
     /\ Yields(DeqSl(i), At("sent"))
     /\ UNCHANGED listVars

\* The register gave an entry back: "Dequeue Error!", and the entry is lost.
DeqSlUnlinks(i) ==
  LET u == Unlink(setup.impl, list[i].nodes)
  IN /\ Runs(DeqSl(i), "sent")
     /\ list' = [list EXCEPT ![i].nodes = u.L]
     /\ env' = Accesses(Popped, u.ops, DeqSl(i))
     /\ Yields(DeqSl(i), At("unlinked"))
     /\ Reports(u.L, IF Got.val # -1 THEN {"dequeue"} ELSE {})
     /\ UNCHANGED <<setup, reg>>

DetDeqSlEnds(i) ==
  /\ Det
  /\ Runs(DeqSl(i), "unlinked")
  /\ list' = [list EXCEPT ![i].busy = FALSE]
  /\ env' = Timeout(Popped, 1, DeqSl(i))
  /\ Yields(DeqSl(i), At("clock"))
  /\ UNCHANGED <<setup, reg, errors>>

ProbDeqSlAdjusts(i) ==
  LET maxLevel == Log2(list[i].num_entries - Len(reg[i].entries) + 1)
      a == AdjustMax(list[i].nodes, maxLevel)
  IN /\ ~Det
     /\ Runs(DeqSl(i), "unlinked")
     /\ list' = [list EXCEPT ![i].nodes = a.L, ![i].busy = a.ops # <<>>]
     /\ env' = IF a.ops = <<>> THEN Timeout(Popped, 1, DeqSl(i))
               ELSE Accesses(Popped, a.ops, DeqSl(i))
     /\ Yields(DeqSl(i), At(IF a.ops = <<>> THEN "clock" ELSE "adjusted"))
     /\ UNCHANGED <<setup, reg, errors>>

ProbDeqSlEnds(i) ==
  /\ Runs(DeqSl(i), "adjusted")
  /\ list' = [list EXCEPT ![i].busy = FALSE]
  /\ env' = Timeout(Popped, 1, DeqSl(i))
  /\ Yields(DeqSl(i), At("clock"))
  /\ UNCHANGED <<setup, reg, errors>>

---------------------------------------------------------------------------
(* enqueue and dequeue *)

MustWait(i) ==
  \/ Len(reg[i].entries) = setup.width /\ Len(list[i].enq_fifo) = setup.fifo
  \/ reg[i].busy

\* The loop of enqueue, with the entry it has taken from its pipe.
Enqueues(i, entry) ==
  /\ IF MustWait(i)
     THEN /\ env' = Timeout(Popped, 1, Enqueuer(i))
          /\ Yields(Enqueuer(i), [at |-> "waiting", entry |-> entry])
     ELSE /\ env' = Get(Put(Popped, InsIn(i), entry), InsOut(i), Enqueuer(i))
          /\ Yields(Enqueuer(i), At("inserting"))
  /\ UNCHANGED listVars

EnqueueTakes(i) == Runs(Enqueuer(i), "idle") /\ Enqueues(i, Got)

EnqueueRetries(i) ==
  Runs(Enqueuer(i), "waiting") /\ Enqueues(i, pc[Enqueuer(i)].entry)

\* An entry the register gave back goes to the FIFO, if it has room.
EnqueueEnds(i) ==
  LET full == Len(list[i].enq_fifo) = setup.fifo
  IN /\ Runs(Enqueuer(i), "inserting")
     /\ list' = [list EXCEPT
          ![i].num_entries = @ + 1,
          ![i].enq_fifo = IF Got.val = -1 \/ full THEN @ ELSE Append(@, Got)]
     /\ errors' = errors \cup (IF Got.val # -1 /\ full THEN {"fifo"} ELSE {})
     /\ env' = Get(Put(Popped, EnqOut(i), Signal), EnqIn(i), Enqueuer(i))
     /\ Yields(Enqueuer(i), At("idle"))
     /\ UNCHANGED <<setup, reg>>

DequeueAsks(i) ==
  /\ Runs(Dequeuer(i), "idle")
  /\ env' = Get(Put(Popped, RemIn(i), Signal), RemOut(i), Dequeuer(i))
  /\ Yields(Dequeuer(i), At("removing"))
  /\ UNCHANGED listVars

DequeueEnds(i) ==
  /\ Runs(Dequeuer(i), "removing")
  /\ list' = [list EXCEPT ![i].num_entries = @ - 1]
  /\ env' = Get(Put(Popped, DeqOut(i), Got), DeqIn(i), Dequeuer(i))
  /\ Yields(Dequeuer(i), At("idle"))
  /\ UNCHANGED <<setup, reg, errors>>

SkipListNext(i) ==
  \/ InitSkipList(i)
  \/ EnqSlIdles(i) \/ DetEnqSlStarts(i) \/ DetSearches(i) \/ DetInserts(i)
  \/ ProbEnqSlStarts(i) \/ ProbSearches(i) \/ ProbInserts(i) \/ ProbNextLevel(i)
  \/ SearchAnswers(i) \/ EnqSlEnds(i)
  \/ DeqSlIdles(i) \/ DeqSlStarts(i) \/ DeqSlSends(i) \/ DeqSlUnlinks(i)
  \/ DetDeqSlEnds(i) \/ ProbDeqSlAdjusts(i) \/ ProbDeqSlEnds(i)
  \/ EnqueueTakes(i) \/ EnqueueRetries(i) \/ EnqueueEnds(i)
  \/ DequeueAsks(i) \/ DequeueEnds(i)
  \/ OutRegNext(i) /\ UNCHANGED list
=============================================================================

------------------------------- MODULE SimPy -------------------------------
(***************************************************************************)
(* The part of the SimPy library that the simulations of                   *)
(* src/sw/python_sims use: one agenda of events, processes that run until  *)
(* they yield, stores that pass items from puts to gets.                   *)
(*                                                                         *)
(* SimPy runs one event at a time: of those due at the same time, the one  *)
(* scheduled first.  So a simulation is deterministic but for its random   *)
(* numbers, and which of two processes sees the other's change depends on  *)
(* that order.  `env' keeps it:                                            *)
(*   queue    events due now, in the order they were scheduled             *)
(*   later    events due in n periods, as <<n, event>>                     *)
(*   items    what was put into a store and not yet taken, <<store, item>> *)
(*   getters  processes waiting for an item, <<store, process>>            *)
(*   served   accesses the memories of the lists have taken or have waiting *)
(* Every delay in the simulations is a number of clock periods.            *)
(***************************************************************************)
EXTENDS Integers, Sequences, SequencesExt

VARIABLES setup,  \* the arguments of the simulation, which stay as they are
          env,
          pc,     \* for each process, where it yields and what it remembers
          errors  \* the messages and exceptions of the simulation so far

\* What an event brings when nobody looks at it.  All values are records.
Signal == [signal |-> 1]

\* Process p goes on with the value x of the event it yielded.
Resume(p, x) == [ev |-> "resume", p |-> p, x |-> x]

Due(e, event) == [e EXCEPT !.queue = Append(@, event)]

\* Store.put: the item is there at once, a waiting getter hears of it when the
\* put's own event is processed.
Put(e, store, x) ==
  Due([e EXCEPT !.items = Append(@, <<store, x>>)],
      [ev |-> "put", store |-> store])

\* The oldest item goes to the process that waits (never more than one does).
Match(e, store) ==
  LET i == SelectInSeq(e.items, LAMBDA it : it[1] = store)
      g == SelectInSeq(e.getters, LAMBDA gt : gt[1] = store)
  IN IF i = 0 \/ g = 0 THEN e
     ELSE Due([e EXCEPT !.items = RemoveAt(@, i), !.getters = RemoveAt(@, g)],
              Resume(e.getters[g][2], e.items[i][2]))

\* Store.get by process p: an item that is there is taken at once.
Get(e, store, p) ==
  Match([e EXCEPT !.getters = Append(@, <<store, p>>)], store)

\* env.timeout(n * period)
Timeout(e, n, p) == [e EXCEPT !.later = Append(@, <<n, Resume(p, Signal)>>)]

\* n times `yield self.wait_clock()': each time a process of its own waits a
\* period, and its end, one more event, wakes the caller.
Clocks(e, n, event) ==
  [e EXCEPT !.later = Append(@, <<1, [ev |-> "clk", n |-> n, then |-> event]>>)]

WaitClocks(e, n, p) == Clocks(e, n, Resume(p, Signal))

\* Accesses of process p to the node memory of its list, one after the other: ops
\* says for each whether it reads ("r") or writes ("w").  An access is a chain of
\* events: 1 the put of the request, 2 the RAM's get, its latency, 3 the RAM puts
\* the response, 4 that put, 5 the caller's get.
Access(ops, k, p) == [ev |-> "mem", ops |-> ops, k |-> k, p |-> p]

Accesses(e, ops, p) ==
  Due(e, IF ops = <<>> THEN Resume(p, Signal) ELSE Access(ops, 1, p))

\* read_sm and write_sm of a RAM serve one request at a time, in order.
OldestAt(served, a) ==
  SelectInSeq(served, LAMBDA b : b.p[2] = a.p[2] /\ Head(b.ops) = Head(a.ops))

Requested(e, a) ==
  LET asked == [e EXCEPT !.served = Append(@, a)]
  IN IF OldestAt(e.served, a) = 0 THEN Due(asked, [a EXCEPT !.k = 2]) ELSE asked

Answered(e, a) ==
  LET done == [e EXCEPT !.served = RemoveAt(@, OldestAt(@, a))]
      next == OldestAt(done.served, a)
      told == Due(done, [a EXCEPT !.k = 4])
  IN IF next = 0 THEN told ELSE Due(told, [done.served[next] EXCEPT !.k = 2])

AfterAccess(e, a) ==
  CASE a.k = 1 -> Requested(e, a)
    [] a.k = 2 -> Clocks(e, setup.mem_latency, [a EXCEPT !.k = 3])
    [] a.k = 3 -> Answered(e, a)
    [] a.k = 4 -> Due(e, IF Len(a.ops) = 1 THEN Resume(a.p, Signal)
                         ELSE [a EXCEPT !.k = 5])
    [] a.k = 5 -> Due(e, Access(Tail(a.ops), 1, a.p))

---------------------------------------------------------------------------
\* The event being processed, taken off the agenda.
Popped == [env EXCEPT !.queue = Tail(@)]

\* Process p, which yields at `label', is the one to go on; Got is the value of
\* the event it waited for.
Runs(p, label) ==
  /\ env.queue # <<>>
  /\ Head(env.queue).ev = "resume"
  /\ Head(env.queue).p = p
  /\ pc[p].at = label

Got == Head(env.queue).x

\* Where p yields next.
Yields(p, where) == pc' = [pc EXCEPT ![p] = where]
At(label) == [at |-> label]

\* Events of the library itself.
Library ==
  /\ env.queue # <<>>
  /\ LET h == Head(env.queue)
     IN /\ h.ev # "resume"
        /\ env' = CASE h.ev = "put" -> Match(Popped, h.store)
                    [] h.ev = "clk" -> Due(Popped, IF h.n = 1 THEN h.then
                         ELSE [ev |-> "again", n |-> h.n - 1, then |-> h.then])
                    [] h.ev = "again" -> Clocks(Popped, h.n, h.then)
                    [] h.ev = "mem" -> AfterAccess(Popped, h)
  /\ UNCHANGED <<setup, pc, errors>>

\* Nothing more is due now: on to the next period in which something is.
Tick ==
  /\ env.queue = <<>>
  /\ env.later # <<>>
  /\ LET n == CHOOSE t \in {env.later[j][1] : j \in DOMAIN env.later} :
                \A j \in DOMAIN env.later : t <= env.later[j][1]
         due == SelectSeq(env.later, LAMBDA d : d[1] = n)
         rest == SelectSeq(env.later, LAMBDA d : d[1] # n)
     IN env' = [env EXCEPT
          !.queue = [j \in DOMAIN due |-> due[j][2]],
          !.later = [j \in DOMAIN rest |-> <<rest[j][1] - n, rest[j][2]>>]]
  /\ UNCHANGED <<setup, pc, errors>>

\* env.run() returns.
NothingLeft == env.queue = <<>> /\ env.later = <<>>

\* Process.interrupt of a process that waits for a timeout: the timeout finds
\* nobody waiting for it any more.
Interrupted(e, p) ==
  LET other(h) == h.ev # "resume" \/ h.p # p
  IN [e EXCEPT !.queue = SelectSeq(@, other),
               !.later = SelectSeq(@, LAMBDA d : other(d[2]))]
=============================================================================

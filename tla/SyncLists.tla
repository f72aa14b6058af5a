----------------------------- MODULE SyncLists -----------------------------
(***************************************************************************)
(* The skip lists of src/sw/python_sims that run without SimPy, one call   *)
(* after the other:                                                        *)
(*   det    det_skip_list.py, the deterministic list; largest value left   *)
(*   node   pifo_node.py, random heights, nodes that are Python objects    *)
(*   bram   pifo_bram.py, the same with nodes in a memory                  *)
(* The last two keep the smallest value left; the model keeps their values *)
(* negated, so that all lists fall from left to right and dequeue takes    *)
(* the least.  The operations on nodes are those of SimLists where the     *)
(* files agree.                                                            *)
(*                                                                         *)
(* The programs at the end of the files fill a list and then drain it.     *)
(* The deterministic list is also used in any other order here; the        *)
(* dequeue of the other two leaves levels behind that only a drain         *)
(* survives (see PopNode, PopBram).                                        *)
(***************************************************************************)
EXTENDS SimLists, SequencesExt

CONSTANTS IMPLS,        \* subset of {"det", "node", "bram"}
          VALUES,       \* what is enqueued, negated for node and bram
          MAX_ENTRIES   \* bound: entries enqueued in a run, for each list

ASSUME SyncAssumption ==
  /\ IMPLS \subseteq {"det", "node", "bram"}
  /\ VALUES \subseteq (-POS_INF + 1)..(POS_INF - 1)
  /\ MAX_ENTRIES \in [IMPLS -> Nat]

VARIABLES impl,
          list,       \* of SimLists, with numEntries; `crashed' if a call never
                      \* returns: an exception, or get() of an empty free list
          enqueued,   \* entries enqueued so far; names them
          draining,   \* the program has begun to dequeue
          out,        \* what the last call returned
          contents    \* what the links of level 0 lead to; kept beside the list
                      \* only to be compared with Pifo

vars == <<impl, list, enqueued, draining, out, contents>>

NoEntry == [rank |-> POS_INF, id |-> 0]

TopLevel == Log2(SIZE) - 1

\* The nodes of pifo_bram.py share a memory with the heads and tails; those of the
\* other two are objects beside them.
NewNodes(i) ==
  LET ends == Levels("prob")
      first == TailOf(TopLevel) + 1
  IN IF i = "bram" THEN [mem |-> ends.mem, free |-> ends.free]
     ELSE [mem |-> [a \in 0..(first + SIZE - 1) |->
                      IF a < first THEN ends.mem[a] ELSE Cleared],
           free |-> [j \in 1..SIZE |-> first + j - 1]]

NewSyncList(i) ==
  [mem |-> NewNodes(i).mem, free |-> NewNodes(i).free, max |-> 0,
   crashed |-> FALSE, numEntries |-> 0]

\* The id goes where the simulations keep their pointers; the files have none.
NewEntry(v) == [val |-> v, ptrs |-> [seg |-> NULL, meta |-> enqueued + 1]]
AsEntry(n) == [rank |-> n.val, id |-> n.ptrs.meta]
Contents(L) == LET s == Entries(L) IN {AsEntry(s[j]) : j \in DOMAIN s}

---------------------------------------------------------------------------
(* det_skip_list.py *)

\* Node n and those to its right, up to one on which another node stands or
\* until k have been counted.
RECURSIVE Passed(_, _, _)
Passed(L, n, k) ==
  LET r == L.mem[n].r
  IN IF r = NULL \/ k = 0 THEN <<n>>
     ELSE IF L.mem[r].u # NULL THEN <<n, r>>
     ELSE <<n>> \o Passed(L, r, k - 1)

\* Mutant: one node too late, that is, never.
TooManyOffByOne(L, path) ==
  Len(path) > MAX_CONS_NODES + 1 /\ L.mem[Last(path)].u = NULL

TooMany(L, path) ==
  Len(path) > MAX_CONS_NODES /\ L.mem[Last(path)].u = NULL

\* A level of the search: the last of three in a row ends it and the one before
\* gets a node above.
RECURSIVE FindDet(_, _, _, _, _)
FindDet(L, level, u, n, value) ==
  LET path == Passed(L, n, MAX_CONS_NODES)
      d == path[LastLarger(L, path, value)]
      promoted == IF TooMany(L, path) THEN Promote(L, level, u, path[MAX_CONS_NODES]) ELSE L
  IN IF promoted.crashed \/ level = 0 THEN [L |-> promoted, d |-> d]
     ELSE FindDet(promoted, level - 1, d, promoted.mem[d].d, value)

PushDet(L, entry) ==
  LET s == FindDet(L, L.max, HeadOf(L.max + 1), HeadOf(L.max), entry.val)
  IN IF L.max = TopLevel \/ s.L.crashed THEN [L EXCEPT !.crashed = TRUE]
     ELSE DetInsert(s.L, Copy(s.L, s.d), entry)

\* The stack of the last entry, taken off level by level.
RECURSIVE FreeStack(_, _, _)
FreeStack(L, n, level) ==
  LET left == L.mem[n].l
      freed == [L EXCEPT
        !.mem = [@ EXCEPT ![left].r = TailOf(level), ![TailOf(level)].l = left,
                          ![n] = Cleared],
        !.free = Append(@, n)]
  IN IF L.mem[n].u # NULL THEN FreeStack(freed, L.mem[n].u, level + 1)
     ELSE IF level > 0 /\ freed.mem[TailOf(level)].l = HeadOf(level)
     THEN [freed EXCEPT !.max = @ - 1] ELSE freed

PopDet(L) == FreeStack(L, LastNode(L), 0)

---------------------------------------------------------------------------
(* pifo_node.py and pifo_bram.py: insertion *)

\* Right while the value is smaller, one back, down: from the node before.
RECURSIVE FindNode(_, _, _, _)
FindNode(L, n, stopLevel, value) ==
  LET l == L.mem[n].l
  IN IF L.mem[n].val > value THEN FindNode(L, L.mem[n].r, stopLevel, value)
     ELSE IF L.mem[l].lvl = stopLevel THEN [n |-> l, dn |-> L.mem[l].d]
     ELSE FindNode(L, L.mem[l].d, stopLevel, value)

\* pifo_bram.py goes down from the node it passed last.
FindBram(L, n, stopLevel, value) == ProbSearch(L, n, stopLevel, value)

Find(L, n, stopLevel, value) ==
  IF impl = "node" THEN FindNode(L, n, stopLevel, value)
  ELSE FindBram(L, n, stopLevel, value)

\* A node at each level from `level' down to 0, each connected to the one above.
RECURSIVE PushFrom(_, _, _, _, _)
PushFrom(L, level, start, above, entry) ==
  LET at == Find(L, start, level, entry.val)
      next == ProbInsert(L, level, at.n, above, entry)
  IN IF L.free = <<>> THEN [L EXCEPT !.crashed = TRUE]
     ELSE IF level = 0 THEN next
     ELSE PushFrom(next, level - 1, at.dn, Head(L.free), entry)

PushProb(L, level, entry) ==
  LET top == Log2(L.numEntries + 1)
  IN PushFrom([L EXCEPT !.max = top], level, HeadOf(top), NULL, entry)

---------------------------------------------------------------------------
(* pifo_node.py and pifo_bram.py: removal *)

\* What a node that is not linked any more still says: its value and level.
Unlinked(n) == [n EXCEPT !.r = NULL, !.l = NULL, !.u = NULL, !.d = NULL]

RECURSIVE FreeNodes(_, _, _)
FreeNodes(L, n, level) ==
  LET it == L.mem[n]
  IN IF n = NULL THEN L
     ELSE IF it.lvl > L.max THEN L
     ELSE FreeNodes(
            [L EXCEPT !.mem = [@ EXCEPT ![it.l].r = it.r, ![TailOf(level)].l = it.l,
                                        ![n] = Unlinked(it)],
                      !.free = Append(@, n)],
            it.u, level + 1)

\* The top level is given up from its head on: the head is freed in place of the
\* last node.
RECURSIVE FreeTopNode(_, _)
FreeTopNode(L, p) ==
  IF L.mem[p].r = TailOf(L.max) THEN L
  ELSE FreeTopNode([L EXCEPT !.mem[p] = Unlinked(@), !.free = Append(@, p)],
                   L.mem[p].r)

\* In pifo_bram.py the level that is compared is that of the left neighbour, one
\* below, so that a node of a level given up before is freed once more.
RECURSIVE FreeBram(_, _, _)
FreeBram(L, u, lvl) ==
  LET up == L.mem[u]
  IN IF u = NULL \/ lvl > L.max THEN L
     ELSE FreeBram(
            [L EXCEPT !.mem = [@ EXCEPT ![u] = Cleared, ![up.l].r = up.r,
                                        ![up.r].l = up.l],
                      !.free = Append(@, u)],
            up.u, L.mem[up.l].lvl)

\* The nodes keep what they hold, and so do their stacks.
RECURSIVE FreeTopBram(_, _)
FreeTopBram(L, r) ==
  IF r = TailOf(L.max) THEN L
  ELSE FreeTopBram([L EXCEPT !.free = Append(@, r)], L.mem[r].r)

\* numEntries has been counted down; topFreed is L with its top level given up.
Lower(L, topFreed) ==
  IF L.numEntries = 0 THEN L
  ELSE IF Log2(L.numEntries) = L.max THEN L
  ELSE [topFreed EXCEPT !.max = Log2(L.numEntries)]

PopNode(L) ==
  LET rest == [FreeNodes(L, LastNode(L), 0) EXCEPT !.numEntries = @ - 1]
  IN Lower(rest, FreeTopNode(rest, HeadOf(L.max)))

PopBram(L) ==
  LET t == TailOf(0)
      n == LastNode(L)
      dq == L.mem[n]
      cut == [L EXCEPT !.mem = [@ EXCEPT ![n] = Cleared, ![dq.l].r = t, ![t].l = dq.l],
                       !.free = Append(@, n)]
      rest == [FreeBram(cut, dq.u, dq.lvl) EXCEPT !.numEntries = @ - 1]
  IN Lower(rest, FreeTopBram(rest, rest.mem[HeadOf(L.max)].r))

---------------------------------------------------------------------------
Init ==
  /\ impl \in IMPLS
  /\ list = NewSyncList(impl)
  /\ enqueued = 0
  /\ draining = FALSE
  /\ out = NoEntry
  /\ contents = {}

\* "Free list almost empty"
Refuses(L) == Len(L.free) < L.max + 1

Counted(L) == IF L.crashed THEN L ELSE [L EXCEPT !.numEntries = @ + 1]

Enqueue(v) ==
  /\ ~list.crashed
  /\ enqueued < MAX_ENTRIES[impl]
  /\ draining => impl = "det"
  /\ IF Refuses(list) THEN UNCHANGED list
     ELSE IF impl = "det" THEN list' = Counted(PushDet(list, NewEntry(v)))
     ELSE \E level \in 0..Log2(list.numEntries + 1) :
            list' = Counted(PushProb(list, level, NewEntry(v)))
  /\ enqueued' = enqueued + 1
  /\ out' = NoEntry
  /\ contents' = Contents(list')
  /\ UNCHANGED <<impl, draining>>

Dequeue ==
  /\ ~list.crashed
  /\ list.numEntries > 0
  /\ list' = CASE impl = "det" -> [PopDet(list) EXCEPT !.numEntries = @ - 1]
               [] impl = "node" -> PopNode(list)
               [] impl = "bram" -> PopBram(list)
  /\ out' = AsEntry(list.mem[LastNode(list)])
  /\ draining' = TRUE
  /\ contents' = Contents(list')
  /\ UNCHANGED <<impl, enqueued>>

Next == Dequeue \/ \E v \in VALUES : Enqueue(v)

Spec == Init /\ [][Next]_vars

---------------------------------------------------------------------------
(* Properties *)

Names == UNION {1..MAX_ENTRIES[i] : i \in IMPLS}

Abstract == INSTANCE Pifo WITH
  Entry <- {[rank |-> v, id |-> i] : v \in VALUES, i \in Names},
  Capacity <- Cardinality(Names) + 1,
  popped <- out,
  displaced <- NoEntry

\* Seen from outside each list is the priority queue that the hardware register
\* is too: what dequeue returns is a least entry and no call loses, doubles or
\* changes another.  The searches, promotions and the levels that are given up
\* must not disturb level 0.
ImplementsPifo == Abstract!Spec

\* The nodes of a level, head and tail included.
RECURSIVE LevelFrom(_)
LevelFrom(a) == IF list.mem[a].r = NULL THEN <<a>> ELSE <<a>> \o LevelFrom(list.mem[a].r)
Level(i) == LevelFrom(HeadOf(i))

\* A node that holds an entry is not handed out again.  In the deterministic list,
\* however long and in whatever order it is used, the nodes that are not free are
\* those of the levels, in order, and each stands on one of the same entry that
\* knows it: nothing leaks and no level points into the free list.
NodesApart ==
  /\ ToSet(Level(0)) \cap ToSet(list.free) = {}
  /\ impl = "det" /\ ~list.crashed =>
       /\ Linked(list)
       /\ InUse(list) = UNION {ToSet(Level(i)) : i \in 0..TopLevel}
       /\ \A a \in InUse(list) : LET n == list.mem[a] IN
            a > TailOf(TopLevel) /\ n.lvl > 0 =>
              /\ list.mem[n.d].u = a
              /\ AsEntry(list.mem[n.d]) = AsEntry(n)

\* The promise of a deterministic skip list: nowhere do more than three nodes
\* stand in a row that no higher node interrupts.
GapsBounded ==
  impl = "det" => \A i \in 0..list.max :
    LET level == Level(i)
    IN \A j \in 2..(Len(level) - MAX_CONS_NODES - 1) :
         \E k \in j..(j + MAX_CONS_NODES) : list.mem[level[k]].u # NULL

\* After every call the nodes are what the next call takes them to be.
NodesSound == NodesApart /\ GapsBounded
=============================================================================

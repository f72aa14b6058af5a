------------------------------ MODULE SimLists ------------------------------
(***************************************************************************)
(* The two skip lists of the simulations as operations on their memory:    *)
(* det_skip_list_simpy.py, where a search that passes three nodes in a row *)
(* promotes one of them, and pifo_skip_list.py, where the height of a new  *)
(* entry is drawn at random.  Both keep larger values to the left; level i *)
(* runs from head 2i to tail 2i+1.                                         *)
(*                                                                         *)
(* Only one operation works on a list at a time (its busy flag; see        *)
(* NoErrors of SimPifo), so each is one function of the list it finds *)
(* to the list it leaves and to the memory accesses it waits for, one after *)
(* the other ("r" reads, "w" writes).  Where the code keeps a copy of a node it has *)
(* read and writes the copy back later, so does the function.              *)
(*                                                                         *)
(* A list is [mem, free, max, crashed]: node memory, free_node_list,       *)
(* currMaxLevel, and whether a process has died with an exception.         *)
(***************************************************************************)
EXTENDS Integers, Sequences, FiniteSets

CONSTANTS SIZE,          \* nodes of a list
          POS_INF        \* value of the heads; the tails hold its negative

ASSUME ListAssumption == SIZE \in 4..2048 /\ POS_INF \in Nat

MAX_CONS_NODES == 3
NULL == -1

Log2(n) == CHOOSE k \in 0..n : 2^k <= n /\ n < 2^(k + 1)

Node(val, ptrs, lvl, r, l, u, d) ==
  [val |-> val, ptrs |-> ptrs, lvl |-> lvl, r |-> r, l |-> l, u |-> u, d |-> d]

NoPointers == [seg |-> NULL, meta |-> NULL]
Cleared == Node(NULL, NoPointers, NULL, NULL, NULL, NULL, NULL)

HeadOf(level) == 2 * level
TailOf(level) == 2 * level + 1

Height(impl) == IF impl = "det" THEN Log2(SIZE) ELSE Log2(SIZE) - 1

\* What initSkipList leaves: empty levels, connected upwards and downwards.
Levels(impl) ==
  LET top == Height(impl)
      Up(a) == IF a + 2 > TailOf(top) THEN NULL ELSE a + 2
      Down(a) == IF a - 2 < 0 THEN NULL ELSE a - 2
      End(a) == IF a % 2 = 0
                THEN Node(POS_INF, NoPointers, a \div 2, a + 1, NULL, Up(a), Down(a))
                ELSE Node(-POS_INF, NoPointers, a \div 2, NULL, a - 1, Up(a), Down(a))
  IN [mem |-> [a \in 0..(SIZE - 1) |-> IF a <= TailOf(top) THEN End(a) ELSE Cleared],
      free |-> [j \in 1..(SIZE - 1 - TailOf(top)) |-> TailOf(top) + j],
      max |-> 0,
      crashed |-> FALSE]

\* The accesses of initSkipList: head and tail of level 0, then for each level the
\* head and the tail below read and written back with their up pointer, and its own.
InitOps(impl) ==
  <<"w", "w">>
  \o [j \in 1..(6 * Height(impl)) |-> IF j % 6 \in {1, 3} THEN "r" ELSE "w"]

\* Accesses after which the levels up to i are written, and not touched again.
LevelWritten(i) == 6 * i + 2
LevelLeft(impl, i) == IF i = Height(impl) THEN LevelWritten(i) ELSE LevelWritten(i) + 4

\* A node as a process has read it: where it is and what it held.
Copy(L, a) == [at |-> a, is |-> L.mem[a]]

Crashed(L) == [L EXCEPT !.crashed = TRUE]

---------------------------------------------------------------------------
(* det_skip_list_simpy.py *)

\* A node above l, at the right of u: free_node_list.pop() and the writes.
Promote(L, level, u, l) ==
  LET up == L.mem[u]
      m == Head(L.free)
  IN IF L.free = <<>> \/ up.r = NULL THEN Crashed(L)
     ELSE [L EXCEPT
            !.free = Tail(@),
            !.max = IF level + 1 > @ THEN @ + 1 ELSE @,
            !.mem = [@ EXCEPT
              ![m] = Node(L.mem[l].val, L.mem[l].ptrs, level + 1, up.r, u, NULL, l),
              ![up.r].l = m,
              ![u].r = m,
              ![l].u = m]]

\* Node n and those to its right, up to one on which another node stands.
RECURSIVE Rights(_, _)
Rights(L, n) ==
  LET r == L.mem[n].r
  IN IF r = NULL THEN <<n>>
     ELSE IF L.mem[r].u # NULL THEN <<n, r>>
     ELSE <<n>> \o Rights(L, r)

\* Mutant: the first of them.
FirstLarger(L, path, value) ==
  LET larger == {k \in 2..Len(path) : L.mem[path[k]].val > value}
  IN IF larger = {} THEN 1 ELSE CHOOSE k \in larger : \A j \in larger : j >= k

\* Where a walk along path goes down: at the last node larger than value.
LastLarger(L, path, value) ==
  LET larger == {k \in 2..Len(path) : L.mem[path[k]].val > value}
  IN CHOOSE k \in larger \cup {1} : \A j \in larger : j <= k

Reads(n) == [j \in 1..n |-> "r"]

\* One level of a search from node n, with u the node it came down from.  Of
\* more than three nodes in a row the third gets a node above; a new top level
\* ends the walk there.  The copy of the node to drop down at is taken when the
\* walk passes it, before the promotion.
SearchLevel(L, level, u, n, value) ==
  LET path == Rights(L, n)
      many == Len(path) > MAX_CONS_NODES /\ L.mem[path[MAX_CONS_NODES + 1]].u = NULL
      walked == IF many /\ level + 1 > L.max
                THEN SubSeq(path, 1, MAX_CONS_NODES + 1) ELSE path
  IN [L |-> IF many THEN Promote(L, level, u, path[MAX_CONS_NODES]) ELSE L,
      d |-> Copy(L, walked[LastLarger(L, walked, value)]),
      ops |-> IF many
              THEN Reads(MAX_CONS_NODES + 1) \o <<"r", "w", "r", "w", "w", "w">>
                   \o Reads(Len(walked) - MAX_CONS_NODES - 1)
              ELSE Reads(Len(walked))]

\* The levels from `level' down.  (s is bound to a value: it is used many times.)
RECURSIVE Descend(_, _, _, _, _)
Descend(L, level, u, n, value) ==
  LET GoDown(s) ==
        IF s.L.crashed \/ level = 0 THEN s
        ELSE [Descend(s.L, level - 1, s.d.at, s.d.is.d, value) EXCEPT !.ops = s.ops \o @]
  IN IF n = NULL THEN [L |-> Crashed(L), d |-> [at |-> NULL], ops |-> <<>>]
     ELSE CHOOSE x \in {GoDown(s) : s \in {SearchLevel(L, level, u, n, value)}} : TRUE

DetSearch(L, value) ==
  IF L.max + 1 > Height("det")
  THEN [L |-> Crashed(L), d |-> [at |-> NULL], ops |-> <<>>]
  ELSE Descend(L, L.max, HeadOf(L.max + 1), HeadOf(L.max), value)

\* The new node at the right of n, of which the search read a copy.
DetInsert(L, n, entry) ==
  LET m == Head(L.free)
  IN IF L.free = <<>> \/ n.is.r = NULL THEN Crashed(L)
     ELSE [L EXCEPT
            !.free = Tail(@),
            !.mem = [@ EXCEPT
              ![m] = Node(entry.val, entry.ptrs, 0, n.is.r, n.at, NULL, NULL),
              ![n.is.r].l = m,
              ![n.at] = [n.is EXCEPT !.r = m]]]

DetInsertOps == <<"w", "r", "w", "w">>

---------------------------------------------------------------------------
(* pifo_skip_list.py *)

\* From the node n: right while its value is larger, then down unless this is
\* the level asked for.  dn is the node below the last one passed.
RECURSIVE Seek(_, _, _, _, _, _)
Seek(L, n, dn, stopLevel, value, ops) ==
  IF value < L.mem[n].val
    THEN Seek(L, L.mem[n].r, L.mem[n].d, stopLevel, value, Append(ops, "r"))
  ELSE IF L.mem[n].lvl # stopLevel
    THEN Seek(L, dn, dn, stopLevel, value, Append(ops, "r"))
  ELSE [n |-> L.mem[n].l, dn |-> dn, ops |-> ops]

ProbSearch(L, startNode, stopLevel, value) ==
  Seek(L, startNode, L.mem[startNode].d, stopLevel, value, <<"r">>)

\* A node at one level, at the right of n and below uNode.
ProbInsert(L, level, n, uNode, entry) ==
  LET m == Head(L.free)
      lR == L.mem[n].r
      linked == [L.mem EXCEPT ![n].r = m, ![lR].l = m]
      below == IF uNode = NULL THEN linked ELSE [linked EXCEPT ![uNode].d = m]
  IN IF L.free = <<>> THEN Crashed(L)
     ELSE [L EXCEPT
            !.free = Tail(@),
            !.mem = [below EXCEPT
              ![m] = Node(entry.val, entry.ptrs, level, lR, n, uNode, NULL)]]

ProbInsertOps(uNode) ==
  <<"r", "w", "r", "w">> \o (IF uNode = NULL THEN <<>> ELSE <<"r", "w">>) \o <<"w">>

\* Mutant: the nodes below still point up.
RECURSIVE FreeLevelOnly(_, _, _)
FreeLevelOnly(L, r, ops) ==
  IF r = TailOf(L.max) THEN [L |-> L, ops |-> ops]
  ELSE FreeLevelOnly([L EXCEPT !.mem[r] = Cleared, !.free = Append(@, r)],
                     L.mem[r].r, ops \o <<"r", "r", "w">>)

\* The nodes of the top level from r on, when the level is given up.
RECURSIVE FreeLevel(_, _, _)
FreeLevel(L, r, ops) ==
  IF r = TailOf(L.max) THEN [L |-> L, ops |-> ops]
  ELSE FreeLevel([L EXCEPT !.mem = [@ EXCEPT ![L.mem[r].d].u = NULL, ![r] = Cleared],
                           !.free = Append(@, r)],
                 L.mem[r].r, ops \o <<"r", "r", "w">>)

\* If levels decreased, remove any nodes left in the top level.
AdjustMax(L, maxLevel) ==
  LET h == HeadOf(L.max)
      t == TailOf(L.max)
      emptied == [L EXCEPT !.mem = [@ EXCEPT
        ![h] = Node(POS_INF, NoPointers, L.max, t, NULL, NULL, HeadOf(L.max - 1)),
        ![t] = Node(-POS_INF, NoPointers, L.max, NULL, h, NULL, TailOf(L.max - 1))]]
      freed == FreeLevel(emptied, L.mem[h].r, <<"r", "w", "w">>)
  IN IF maxLevel >= L.max THEN [L |-> L, ops |-> <<>>]
     ELSE [freed EXCEPT !.L.max = maxLevel]

---------------------------------------------------------------------------
(* Both lists: the smallest entry, at the left of the tail of level 0. *)

LastNode(L) == L.mem[TailOf(0)].l

\* The nodes above an entry that leaves.  Only the deterministic list lowers
\* its top level here.
RECURSIVE FreeAbove(_, _, _, _)
FreeAbove(impl, L, u, ops) ==
  LET up == L.mem[u]
      emptied == /\ impl = "det"
                 /\ L.mem[up.r].lvl = L.max
                 /\ up.l = HeadOf(L.max)
  IN IF u = NULL THEN [L |-> L, ops |-> ops]
     ELSE IF up.r = NULL \/ up.l = NULL THEN [L |-> Crashed(L), ops |-> ops]
     ELSE FreeAbove(impl,
            [L EXCEPT !.mem = [@ EXCEPT ![up.l].r = up.r, ![up.r].l = up.l,
                                        ![u] = Cleared],
                      !.free = Append(@, u),
                      !.max = IF emptied THEN @ - 1 ELSE @],
            up.u, ops \o <<"r", "r", "r", "w", "w", "w">>)

\* What deq_sl does once the entry is in the output register.
Unlink(impl, L) ==
  LET t == TailOf(0)
      dq == L.mem[LastNode(L)]
  IN IF dq.l = NULL THEN [L |-> Crashed(L), ops |-> <<>>]
     ELSE FreeAbove(impl,
            [L EXCEPT !.mem = [@ EXCEPT ![dq.l].r = t, ![t].l = dq.l,
                                        ![LastNode(L)] = Cleared],
                      !.free = Append(@, LastNode(L))],
            dq.u, <<"r", "w", "w", "w">>)

---------------------------------------------------------------------------
(* What a list should look like between two operations. *)

InUse(L) == DOMAIN L.mem \ {L.free[j] : j \in DOMAIN L.free}

\* The entries, smallest first.
RECURSIVE EntriesFrom(_, _)
EntriesFrom(L, a) ==
  IF L.mem[a].l = NULL THEN <<>>
  ELSE <<[val |-> L.mem[a].val, ptrs |-> L.mem[a].ptrs]>>
       \o EntriesFrom(L, L.mem[a].l)
Entries(L) == EntriesFrom(L, LastNode(L))

\* Neighbours know each other and are in order.
Linked(L) ==
  \A a \in InUse(L) : LET n == L.mem[a] IN
    /\ n.r # NULL => /\ L.mem[n.r].l = a
                     /\ L.mem[n.r].lvl = n.lvl
                     /\ L.mem[n.r].val <= n.val
    /\ n.l # NULL => L.mem[n.l].r = a

\* A node that stands on another one is the one above it: "Connect node below
\* to new node".
Stacked(impl, L) ==
  \A a \in InUse(L) : a > TailOf(Height(impl)) =>
    LET n == L.mem[a] IN
      /\ n.lvl > 0 => /\ n.d \in InUse(L)
                      /\ L.mem[n.d].u = a
                      /\ L.mem[n.d].val = n.val
      /\ n.u # NULL => n.u \in InUse(L) /\ L.mem[n.u].d = a
=============================================================================

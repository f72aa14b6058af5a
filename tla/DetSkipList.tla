---------------------------- MODULE DetSkipList ----------------------------
(***************************************************************************)
(* hw/hdl/det_skip_list/det_skip_list.v, one clock cycle per step: a       *)
(* deterministic skip list of nodes in block RAMs, sorted from the largest *)
(* rank to the smallest, whose tail end moves into a small pifo_reg.       *)
(*                                                                         *)
(* Four machines run side by side: main takes inserts, search finds the    *)
(* place in the list (and puts new nodes one level up on its way), insert  *)
(* links the new node, remove moves the last node to the register.         *)
(*                                                                         *)
(* The model starts when the list is linked and the free list filled, and  *)
(* leaves out the RAM node_lvl, which is never read.  A register write     *)
(* reaches its RAM a cycle after the machine's step; every read comes      *)
(* later, so the model writes at once.  dout is the RAM outputs as they    *)
(* were when the wait for them ended.  A register nobody reads any more    *)
(* takes a fixed value.                                                    *)
(***************************************************************************)
EXTENDS PifoRegCore, Integers, FiniteSets, Sequences

CONSTANTS
  NUM_LVLS,        \* L2_MAX_SIZE
  MAX_SIZE,        \* 2**L2_MAX_SIZE, addresses of the RAMs
  MAX_CONS_NODES,  \* nodes in a row without one above: 3 in the code
  PrFillLevels,    \* pr_fill_levels: [0 .. ranges - 1 -> Nat]
  SEL_LATENCY      \* cycles between pifo_top's choice of a list and its use

ASSUME LvlsAssumption == NUM_LVLS \in Nat \ {0}
ASSUME SizeAssumption == MAX_SIZE \in Nat /\ MAX_SIZE > 3 * NUM_LVLS + 1
ASSUME MetasAssumption ==
  IsFiniteSet(Metas) /\ Metas = 1 .. Cardinality(Metas) /\ NoEntry \notin Metas
ASSUME ConsAssumption == MAX_CONS_NODES = 3
(* The levels suffice: with 2**NUM_LVLS addresses, as in the code, what is *)
(* linked beside the NUM_LVLS + 1 nodes an insert may need is no pyramid   *)
(* of halves with two nodes on its topmost level.                          *)
ASSUME LvlsSuffice == MAX_SIZE <= pow2[NUM_LVLS] + 3 * NUM_LVLS + 1
(* The range of an empty list demands nothing of the register. *)
ASSUME FillAssumption ==
  DOMAIN PrFillLevels \subseteq Nat /\ 0 \in DOMAIN PrFillLevels /\ PrFillLevels[0] = 0
(* A selection is one cycle old per level of comparators and one more: 5   *)
(* cycles with the five lists of pifo_top.v, 6 with the eleven of the      *)
(* traffic manager's tests.                                                *)
ASSUME LatencyAssumption == SEL_LATENCY \in 1 .. 6

Addr == 0 .. MAX_SIZE - 1
NULL == MAX_SIZE - 1               \* all ones
Lvls == 0 .. NUM_LVLS - 1
head(l) == 2 * l
tail(l) == 2 * l + 1
Nodes == 2 * NUM_LVLS .. MAX_SIZE - 2
dptr_head(l) == IF l = 0 THEN NULL ELSE head(l - 1)

VARIABLES
  reg,                \* the pifo_reg
  main_state,         \* RUN, INSERT
  pr_in, sl_in,       \* pr_rank_in, pr_meta_in while pr_insert; sl_rank_in, sl_meta_in
  sl_insert, sl_blk_ins_if_rmv,
  insert_d1, pr_insert_d1, ins_busy, rmv_busy,
  sl_num_entries, num_entries,
  pr_fill_thresh, pr_fill_busy, full,
  srch,               \* the registers of the search machine
  start_search, search_done, insert_done,
  ins_state,
  rmv,                \* rmv_state, deq_node or rmv_node, rmv_lvl
  curr_max_lvl, rptr_head, lptr_tail,
  mem,                \* the RAMs rank, hsp, node_rptr, node_lptr, node_uptr, node_dptr
  dout, bram_rd, bram_rd1,
  free,               \* node_free_list; the least address is its head
  get_next_node, free_list_in,
  inside, given, remove_last, was_available   \* the client

port == <<reg, pr_in, pr_insert_d1, insert_d1, num_entries>>
main == <<main_state, sl_in, sl_insert, sl_blk_ins_if_rmv, sl_num_entries>>
fill == <<pr_fill_thresh, pr_fill_busy, full>>
machines == <<srch, start_search, search_done, insert_done, ins_state, rmv,
              ins_busy, rmv_busy>>
list == <<curr_max_lvl, rptr_head, lptr_tail, mem, dout, bram_rd, bram_rd1,
          free, get_next_node, free_list_in>>
client == <<inside, given, remove_last, was_available>>
vars == <<port, main, fill, machines, list, client>>

-----------------------------------------------------------------------------
(* A node that is not linked.  Nothing of it is read before it is written. *)
NoMeta == NoEntry
Blank == [rank |-> 0, meta |-> NoMeta,
          rptr |-> NULL, lptr |-> NULL, uptr |-> NULL, dptr |-> NULL]

(* INIT_HEAD and INIT_TAIL: on every level the head points at the tail.    *)
(* Pointers they do not write are zero, as the RAMs are.                   *)
Above(l, x) == IF l < NUM_LVLS - 1 THEN x + 2 ELSE 0
Below(l, x) == IF l > 0 THEN x - 2 ELSE 0
InitMem ==
  [x \in Addr |->
     LET l == x \div 2
     IN  IF x >= 2 * NUM_LVLS THEN Blank
         ELSE IF x = head(l)
         THEN [rank |-> MAX_RANK, meta |-> NoMeta, rptr |-> tail(l), lptr |-> NULL,
               uptr |-> Above(l, x), dptr |-> Below(l, x)]
         ELSE [rank |-> 0, meta |-> NoMeta, rptr |-> NULL, lptr |-> head(l),
               uptr |-> Above(l, x), dptr |-> Below(l, x)]]

NoSearch ==
  [state |-> "SRCH_IDLE", level |-> 0, n |-> NULL, l |-> NULL, u |-> NULL,
   d |-> NULL, uR |-> NULL, dR |-> NULL, dD |-> NULL, lVal |-> 0,
   cons_nodes |-> 0, first_node |-> FALSE, store_d |-> FALSE]
NoRemoval == [state |-> "RMV_IDLE", node |-> NULL, lvl |-> 0]

Init ==
  /\ reg = RegInit
  /\ main_state = "RUN" /\ pr_in = NoEntry /\ sl_in = NoEntry
  /\ sl_insert = FALSE /\ sl_blk_ins_if_rmv = FALSE
  /\ insert_d1 = FALSE /\ pr_insert_d1 = FALSE
  /\ ins_busy = FALSE /\ rmv_busy = FALSE
  /\ sl_num_entries = 0 /\ num_entries = 0
  /\ pr_fill_thresh = 0 /\ pr_fill_busy = FALSE /\ full = FALSE
  /\ srch = NoSearch /\ ins_state = "INS_IDLE" /\ rmv = NoRemoval
  /\ start_search = FALSE /\ search_done = FALSE /\ insert_done = FALSE
  /\ curr_max_lvl = 0 /\ lptr_tail = NULL
  /\ rptr_head = [l \in Lvls |-> tail(l)]
  /\ mem = InitMem /\ dout = Blank /\ bram_rd = FALSE /\ bram_rd1 = FALSE
  /\ free = Nodes \ {MAX_SIZE - 2} /\ free_list_in = MAX_SIZE - 2
  /\ get_next_node = FALSE
  /\ inside = {} /\ remove_last = FALSE /\ given = 0
  /\ was_available = [i \in 1 .. SEL_LATENCY |-> FALSE]

-----------------------------------------------------------------------------
(* The free list.  Its least address stands for the head of the queue:     *)
(* addresses of nodes are only compared for equality.                      *)
new_node == CHOOSE x \in free : \A y \in free : x <= y
free_nodes_avail == Cardinality(free) >= NUM_LVLS + 1

FreeList ==
  free' = (free \ (IF get_next_node THEN {new_node} ELSE {}))
            \cup ({free_list_in} \ {NULL})

(* busy and its parts. *)

(* Mutant: removals do not make the list busy. *)
int_busyInserting == ins_busy \/ insert_d1 \/ pr_insert_d1
int_busy == ins_busy \/ insert_d1 \/ pr_insert_d1 \/ rmv_busy
busy == int_busy \/ pr_fill_busy

-----------------------------------------------------------------------------
(* RUN: where an entry on the port goes. *)
BeatsMax(e) == e.rank < MaxOut(reg).rank
Taken(e) ==
  main_state = "RUN" /\ e # NoEntry /\ (sl_num_entries = 0 \/ free_nodes_avail)
ToRegister(e) ==
  IF reg.full THEN BeatsMax(e)
  ELSE sl_num_entries = 0 \/ (~reg.empty /\ BeatsMax(e))

(* A full register passes its maximum on to the list, unless an entry      *)
(* leaves it at this moment.                                               *)
(* Mutant: the maximum is passed on although an entry leaves. *)
PassesMaxAnyway(e, remove) == Taken(e) /\ ToRegister(e) /\ reg.full
PassesMax(e, remove) == Taken(e) /\ ToRegister(e) /\ reg.full /\ ~remove
ToList(e, remove) ==
  IF PassesMax(e, remove) THEN MaxOut(reg)
  ELSE IF Taken(e) /\ ~ToRegister(e) THEN e
  ELSE NoEntry

Main(e, remove) ==
  /\ main_state' =
       IF main_state = "RUN"
       THEN IF ToList(e, remove) # NoEntry THEN "INSERT" ELSE "RUN"
       ELSE IF (remove /\ sl_blk_ins_if_rmv) \/ insert_done THEN "RUN" ELSE "INSERT"
  /\ sl_insert' = (ToList(e, remove) # NoEntry)
  /\ sl_in' = IF ToList(e, remove) # NoEntry THEN ToList(e, remove)
              ELSE IF main_state' = "RUN" THEN NoEntry ELSE sl_in
  /\ sl_blk_ins_if_rmv' = PassesMax(e, remove)

(* The register's insert port: an entry taken for it, or the last node. *)
Port(e, remove) ==
  /\ reg' = RegNext(reg, pr_in, remove)
  /\ pr_in' = IF rmv.state = "RMV_DEQ_NODE"
              THEN [rank |-> dout.rank, meta |-> dout.meta]
              ELSE IF Taken(e) /\ ToRegister(e) THEN e ELSE NoEntry
  /\ insert_d1' = (e # NoEntry)
  /\ pr_insert_d1' = (pr_in # NoEntry)
  /\ num_entries' = reg.num_entries + sl_num_entries

(* The throttle: the more entries the list holds, the fuller the register  *)
(* has to be before the next insert.  An upper bound of 2**L2_MAX_SIZE     *)
(* does not fit its register: above half of the size nothing changes.      *)
Throttle ==
  /\ pr_fill_thresh' \in
       LET ranges == {i \in DOMAIN PrFillLevels :
                        /\ i = 0 \/ pow2[i - 1] <= sl_num_entries
                        /\ sl_num_entries < pow2[i]}
       IN  IF ranges = {} THEN {pr_fill_thresh} ELSE {PrFillLevels[i] : i \in ranges}
  /\ pr_fill_busy' = (reg.num_entries < pr_fill_thresh)
  /\ full' = ~free_nodes_avail

-----------------------------------------------------------------------------
(* The search machine, one operator per state; s is its registers. *)
s == srch

SrchIdle ==
  IF ~start_search THEN (IF ins_state = "INS_IDLE" THEN NoSearch ELSE s)
  ELSE [s EXCEPT !.state = "GO_RIGHT1", !.level = curr_max_lvl,
                 !.n = head(curr_max_lvl), !.u = head(curr_max_lvl + 1),
                 !.d = head(curr_max_lvl), !.first_node = TRUE]

GoDown ==
  IF s.level = -1 THEN [s EXCEPT !.state = "SRCH_IDLE"]
  ELSE [s EXCEPT !.state = "WAIT_MEM_RD1", !.cons_nodes = 0, !.d = s.n,
                 !.store_d = TRUE]

(* The first step right takes the head's pointers from registers. *)
FirstRight ==
  [s EXCEPT !.state = "WAIT_MEM_RD2", !.first_node = FALSE,
            !.dR = rptr_head[curr_max_lvl], !.dD = dptr_head(curr_max_lvl),
            !.l = s.n, !.lVal = MAX_RANK, !.n = rptr_head[curr_max_lvl]]

GoRight1 ==
  LET t == IF s.store_d
           THEN [s EXCEPT !.dR = dout.rptr, !.dD = dout.dptr, !.store_d = FALSE]
           ELSE s
  IN  IF s.first_node THEN FirstRight
      ELSE IF dout.rptr # NULL
      THEN [t EXCEPT !.state = "WAIT_MEM_RD2", !.l = s.n, !.lVal = dout.rank,
                     !.n = dout.rptr]
      ELSE [t EXCEPT !.state = "GO_DOWN", !.u = s.d, !.n = dout.dptr,
                     !.level = s.level - 1]

(* The node reached is the last one larger than the new rank so far, or    *)
(* has a node above it where the level was entered, or is one too many.    *)
(* Mutant: the node that is one too many is counted wrong. *)
GoRight2OffByOne ==
  LET larger == dout.rank > sl_in.rank
      t == [s EXCEPT !.d  = IF larger THEN s.n ELSE s.d,
                     !.dR = IF larger THEN dout.rptr ELSE s.dR,
                     !.dD = IF larger THEN dout.dptr ELSE s.dD,
                     !.cons_nodes = (s.cons_nodes + 1) % 4]
  IN  IF dout.uptr # NULL
      THEN [t EXCEPT !.state = "GO_DOWN", !.u = s.d, !.n = t.dD, !.level = s.level - 1]
      ELSE IF s.cons_nodes = MAX_CONS_NODES
      THEN [t EXCEPT !.state = "WAIT_MEM_RD3"]
      ELSE [t EXCEPT !.state = "GO_RIGHT1"]

GoRight2 ==
  LET larger == dout.rank > sl_in.rank
      t == [s EXCEPT !.d  = IF larger THEN s.n ELSE s.d,
                     !.dR = IF larger THEN dout.rptr ELSE s.dR,
                     !.dD = IF larger THEN dout.dptr ELSE s.dD,
                     !.cons_nodes = (s.cons_nodes + 1) % 4]
  IN  IF dout.uptr # NULL
      THEN [t EXCEPT !.state = "GO_DOWN", !.u = s.d, !.n = t.dD, !.level = s.level - 1]
      ELSE IF s.cons_nodes = MAX_CONS_NODES - 1
      THEN [t EXCEPT !.state = "WAIT_MEM_RD3"]
      ELSE [t EXCEPT !.state = "GO_RIGHT1"]

ConnNew == [s EXCEPT !.state = "SRCH_CONN_NEAR", !.uR = dout.rptr]

(* After a node went up the search goes on to the right, with the pointer  *)
(* last read: the one of the level above.  On a new level it goes down.    *)
ConnNear ==
  IF s.level + 1 > curr_max_lvl
  THEN [s EXCEPT !.state = "GO_DOWN", !.u = s.d, !.n = s.dD, !.level = s.level - 1]
  ELSE [s EXCEPT !.state = "GO_RIGHT1"]

Wait(state) == IF bram_rd1 THEN [s EXCEPT !.state = state] ELSE s

Search ==
  /\ srch' = CASE s.state = "SRCH_IDLE"      -> SrchIdle
               [] s.state = "GO_DOWN"        -> GoDown
               [] s.state = "WAIT_MEM_RD1"   -> Wait("GO_RIGHT1")
               [] s.state = "GO_RIGHT1"      -> GoRight1
               [] s.state = "WAIT_MEM_RD2"   -> Wait("GO_RIGHT2")
               [] s.state = "GO_RIGHT2"      -> GoRight2
               [] s.state = "WAIT_MEM_RD3"   -> Wait("SRCH_CONN_NEW")
               [] s.state = "SRCH_CONN_NEW"  -> ConnNew
               [] s.state = "SRCH_CONN_NEAR" -> ConnNear
  /\ search_done' = (s.state = "GO_DOWN" /\ s.level = -1)

-----------------------------------------------------------------------------
(* The insert machine. *)
Starts(remove) == sl_insert /\ ~(sl_blk_ins_if_rmv /\ remove)

Insert_(remove) ==
  /\ ins_state' = CASE ins_state = "INS_IDLE" ->
                         IF Starts(remove) THEN "INS_CONN_NEW" ELSE "INS_IDLE"
                    [] ins_state = "INS_CONN_NEW" ->
                         IF search_done THEN "INS_CONN_NEAR" ELSE "INS_CONN_NEW"
                    [] ins_state = "INS_CONN_NEAR" -> "INS_IDLE"
  /\ ins_busy' = IF ins_state = "INS_IDLE" THEN Starts(remove) ELSE ins_busy
  /\ start_search' = (ins_state = "INS_IDLE" /\ Starts(remove))
  /\ insert_done' = (ins_state = "INS_CONN_NEW" /\ search_done)

-----------------------------------------------------------------------------
(* The remove machine. *)
Quiet(e) == e = NoEntry /\ pr_in = NoEntry /\ ~sl_insert

MayMove(e) == ~reg.full /\ sl_num_entries > 0 /\ ~int_busy /\ Quiet(e)
Moves(e) == rmv.state = "RMV_CHK_BUSY" /\ ~ins_busy /\ Quiet(e)

(* After a node the one above it, if there is one. *)
(* Mutant: only the lowest node is removed. *)
NextUpNone == NoRemoval
NextUp ==
  IF dout.uptr = NULL THEN NoRemoval
  ELSE [state |-> "RMV_WAIT_MEM_RD2", node |-> dout.uptr, lvl |-> rmv.lvl + 1]

RemoveNode(e) ==
  /\ rmv' = CASE rmv.state = "RMV_IDLE" ->
                   IF MayMove(e) THEN [rmv EXCEPT !.state = "RMV_CHK_BUSY"] ELSE rmv
              [] rmv.state = "RMV_CHK_BUSY" ->
                   IF Moves(e)
                   THEN [state |-> "RMV_WAIT_MEM_RD1", node |-> lptr_tail, lvl |-> 0]
                   ELSE NoRemoval
              [] rmv.state = "RMV_WAIT_MEM_RD1" ->
                   IF bram_rd1 THEN [rmv EXCEPT !.state = "RMV_DEQ_NODE"] ELSE rmv
              [] rmv.state = "RMV_WAIT_MEM_RD2" ->
                   IF bram_rd1 THEN [rmv EXCEPT !.state = "RMV_CONN_LEFT_TAIL"] ELSE rmv
              [] rmv.state \in {"RMV_DEQ_NODE", "RMV_CONN_LEFT_TAIL"} -> NextUp
  /\ rmv_busy' = IF rmv.state = "RMV_IDLE" THEN MayMove(e) ELSE rmv_busy

Unlinks == rmv.state \in {"RMV_DEQ_NODE", "RMV_CONN_LEFT_TAIL"}

(* sl_num_entries counts a node from its last pointer to the start of its  *)
(* removal.                                                                *)
Count(e) ==
  sl_num_entries' = sl_num_entries
                      + (IF main_state = "INSERT" /\ insert_done THEN 1 ELSE 0)
                      - (IF Moves(e) THEN 1 ELSE 0)

-----------------------------------------------------------------------------
(* What the three machines write. *)
SearchWrites(m) ==
  CASE s.state = "SRCH_CONN_NEW" ->
         [m EXCEPT ![new_node] = [@ EXCEPT !.rank = s.lVal, !.rptr = dout.rptr,
                                           !.lptr = s.u, !.uptr = NULL, !.dptr = s.l]]
    [] s.state = "SRCH_CONN_NEAR" ->
         [m EXCEPT ![s.uR].lptr = new_node, ![s.u].rptr = new_node,
                   ![s.l].uptr = new_node]
    [] OTHER -> m

InsertWrites(m) ==
  CASE ins_state = "INS_CONN_NEW" /\ search_done ->
         [m EXCEPT ![new_node] = [@ EXCEPT !.rank = sl_in.rank, !.meta = sl_in.meta,
                                           !.rptr = s.dR, !.lptr = s.d, !.uptr = NULL]]
    [] ins_state = "INS_CONN_NEAR" ->
         [m EXCEPT ![s.dR].lptr = new_node, ![s.d].rptr = new_node]
    [] OTHER -> m

RemoveWrites(m) ==
  IF Unlinks
  THEN [m EXCEPT ![dout.lptr].rptr = tail(rmv.lvl), ![tail(rmv.lvl)].lptr = dout.lptr,
                 ![rmv.node] = Blank]
  ELSE m

(* The register copies of the heads' and of the lowest tail's pointers. *)
Copies ==
  /\ rptr_head' =
       [l \in Lvls |->
          IF s.state = "SRCH_CONN_NEAR" /\ l = s.level + 1 /\ s.u = head(l) THEN new_node
          ELSE IF ins_state = "INS_CONN_NEAR" /\ l = 0 /\ s.d = head(0) THEN new_node
          ELSE IF Unlinks /\ l = rmv.lvl /\ dout.lptr = head(l) THEN tail(l)
          ELSE rptr_head[l]]
  /\ lptr_tail' = IF rmv.state = "RMV_DEQ_NODE" THEN dout.lptr
                  ELSE IF ins_state = "INS_CONN_NEAR" /\ s.dR = tail(0) THEN new_node
                  ELSE lptr_tail
  /\ curr_max_lvl' =
       IF s.state = "SRCH_CONN_NEAR" /\ s.level + 1 > curr_max_lvl THEN curr_max_lvl + 1
       ELSE IF /\ rmv.state = "RMV_CONN_LEFT_TAIL" /\ dout.uptr = NULL
               /\ dout.rptr = tail(rmv.lvl) /\ dout.lptr = head(rmv.lvl)
       THEN curr_max_lvl - 1
       ELSE curr_max_lvl

(* Reads take two cycles; the output stays until the next one. *)
Waits == {"WAIT_MEM_RD1", "WAIT_MEM_RD2", "WAIT_MEM_RD3",
          "RMV_WAIT_MEM_RD1", "RMV_WAIT_MEM_RD2"}
Reads ==
  /\ bram_rd' = \/ srch'.state \in Waits /\ s.state \notin Waits
                \/ rmv'.state \in Waits /\ rmv.state \notin Waits
  /\ bram_rd1' = bram_rd
  /\ dout' = IF bram_rd1 /\ s.state = "WAIT_MEM_RD3"
             THEN [dout EXCEPT !.rptr = mem[s.u].rptr]
             ELSE IF bram_rd1 /\ s.state \in Waits THEN mem[s.n]
             ELSE IF bram_rd1 THEN mem[rmv.node]
             ELSE IF srch'.state = "SRCH_IDLE" /\ rmv'.state = "RMV_IDLE" THEN Blank
             ELSE dout

List ==
  /\ mem' = RemoveWrites(InsertWrites(SearchWrites(mem)))
  /\ get_next_node' = (s.state = "SRCH_CONN_NEAR" \/ ins_state = "INS_CONN_NEAR")
  /\ free_list_in' = IF Unlinks THEN rmv.node ELSE NULL
  /\ FreeList /\ Copies /\ Reads

-----------------------------------------------------------------------------
(* pifo_top.v as the client: it inserts into a list that was neither busy  *)
(* nor full when it was chosen and is not now, and removes what is offered *)
(* but never in two cycles in a row.  Meta data is never compared, so the  *)
(* entries are numbered; Cardinality(Metas) bounds how many there are.     *)
Available == ~busy /\ ~full
Numbered(rank) == [rank |-> rank, meta |-> given + 1]

MayInsert ==
  /\ Available /\ given < Cardinality(Metas)
  /\ was_available[SEL_LATENCY]
MayRemove == reg.valid_out /\ ~remove_last

(* One clock cycle with the given insert and remove ports. *)
Cycle(e, remove) ==
  /\ Port(e, remove) /\ Main(e, remove) /\ Count(e) /\ Throttle
  /\ Search /\ Insert_(remove) /\ RemoveNode(e) /\ List
  /\ inside' = (inside \cup ({e} \ {NoEntry}))
                 \ (IF remove THEN {MinOut(reg)} ELSE {})
  /\ remove_last' = remove
  /\ given' = given + (IF e = NoEntry THEN 0 ELSE 1)
  /\ was_available' = SubSeq(<<Available>> \o was_available, 1, SEL_LATENCY)

Insert(rank) == MayInsert /\ Cycle(Numbered(rank), FALSE)
Remove == MayRemove /\ Cycle(NoEntry, TRUE)
RemoveInsert(rank) ==
  MayRemove /\ MayInsert /\ Cycle(Numbered(rank), TRUE)
Idle == Cycle(NoEntry, FALSE)

Next ==
  \/ Remove
  \/ Idle
  \/ \E rank \in Ranks : Insert(rank) \/ RemoveInsert(rank)

Spec == Init /\ [][Next]_vars

-----------------------------------------------------------------------------
(* No machine is at work and the free list is up to date. *)
Settled ==
  /\ s.state = "SRCH_IDLE" /\ ins_state = "INS_IDLE" /\ rmv.state = "RMV_IDLE"
  /\ ~sl_insert /\ ~get_next_node /\ free_list_in = NULL

(* The nodes of a level, met from its head to the right: one more with     *)
(* every step, until there is none.                                        *)
Grown(w) == LET x == mem[w[Len(w)]].rptr IN IF x = NULL THEN w ELSE Append(w, x)
Walks(l) ==
  LET walk[k \in Nat] == IF k = 0 THEN <<head(l)>> ELSE Grown(walk[k - 1])
  IN  walk
Walk(l) == Walks(l)[MAX_SIZE]
OnLevel(l) == {Walk(l)[i] : i \in DOMAIN Walk(l)}
Inner(l) == OnLevel(l) \ {head(l), tail(l)}

(* A level runs from its head to its tail by falling rank, and back. *)
LevelSound(l) ==
  LET w == Walk(l)
  IN  /\ w[Len(w)] = tail(l) /\ Len(w) <= MAX_SIZE
      /\ Inner(l) \subseteq Nodes \ free
      /\ \A i \in 1 .. Len(w) - 1 :
           /\ mem[w[i]].rank >= mem[w[i + 1]].rank
           /\ mem[w[i + 1]].lptr = w[i]

(* A node above another carries its rank, and the two know each other. *)
StacksSound ==
  /\ \A l \in Lvls \ {0} : \A x \in Inner(l) :
       /\ mem[x].dptr \in Inner(l - 1)
       /\ mem[mem[x].dptr].uptr = x /\ mem[mem[x].dptr].rank = mem[x].rank
  /\ \A l \in Lvls : \A x \in Inner(l) :
       mem[x].uptr # NULL => l + 1 \in Lvls /\ mem[x].uptr \in Inner(l + 1)

(* Whenever the machines rest the list is a list: sorted and doubly linked *)
(* on every level, each level standing on the one below, no node lost or   *)
(* both free and linked, the counter and the copied pointers right, and no *)
(* level above the one where searches start.                               *)
ListSound ==
  Settled =>
    /\ \A l \in Lvls : LevelSound(l) /\ rptr_head[l] = mem[head(l)].rptr
    /\ StacksSound
    /\ UNION {Inner(l) : l \in Lvls} = Nodes \ free
    /\ \A l \in Lvls : l > curr_max_lvl => Inner(l) = {}
    /\ Cardinality(Inner(0)) = sl_num_entries
    /\ sl_num_entries > 0 => lptr_tail = mem[tail(0)].lptr

(* The list is deterministic: between two nodes of a level that have one   *)
(* above them there are never more than MAX_CONS_NODES that have none.     *)
GapsBounded ==
  Settled =>
    \A l \in Lvls : LET w == Walk(l)
      IN  \A i \in 1 .. Len(w) - MAX_CONS_NODES :
            \E j \in i .. i + MAX_CONS_NODES : w[j] = head(l) \/ mem[w[j]].uptr # NULL

(* An insert, from the search to the last pointer, and the removal of a    *)
(* node never overlap: they write the same RAMs through the same port.     *)
OneAtATime ==
  rmv.state \notin {"RMV_IDLE", "RMV_CHK_BUSY"} =>
    s.state = "SRCH_IDLE" /\ ins_state = "INS_IDLE" /\ ~sl_insert /\ ~insert_d1

-----------------------------------------------------------------------------
(* What pifo_top.v sees, in the terms of module SkipListPort, which takes  *)
(* this list's place in module PifoTop.                                    *)
SL == INSTANCE SkipListPort WITH SL_SIZE <- Cardinality(Metas) + 1

ListEntries ==
  {[rank |-> mem[x].rank, meta |-> mem[x].meta] :
     x \in {y \in Nodes : mem[y].meta # NoMeta}}
Entering == IF ~insert_d1 THEN NoEntry ELSE IF pr_in # NoEntry THEN pr_in ELSE sl_in
View ==
  [held  |-> Held(reg) \cup ListEntries \cup ({pr_in, sl_in} \ {NoEntry}),
   fresh |-> Entering,
   head  |-> IF reg.valid_out THEN MinOut(reg) ELSE NoEntry,
   busy  |-> busy,
   num   |-> num_entries]

(* The entry on the insert port in this step. *)
Given == IF inside' \ inside = {} THEN NoEntry ELSE CHOOSE e \in inside' : e \notin inside

(* Every cycle of the list is one that SkipListPort allows: no entry is    *)
(* lost or doubled, one that moves or is still being placed least of all;  *)
(* what is offered is a smallest of the settled entries and stays on offer *)
(* while the list is not busy; the count lags by one at most.              *)
ImplementsPort == [][View' \in SL!SlNext(View, Given, remove_last')]_vars
=============================================================================

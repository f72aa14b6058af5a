------------------------- MODULE DetSkipList_proofs -------------------------
(***************************************************************************)
(* Proofs about det_skip_list.v, for every size of the list, every number  *)
(* of levels that suffices for it and every client that obeys busy and     *)
(* full.                                                                   *)
(*                                                                         *)
(* 1. Its four machines share the RAMs of the linked nodes and one write   *)
(*    port each; what keeps them apart is only how their busy flags, start *)
(*    pulses and states follow each other (ListOneAtATime).                *)
(* 2. The RAMs hold a deterministic skip list whenever the machines rest   *)
(*    (ListStaysSound, ListStaysDeterministic).  In between the pointers   *)
(*    are half written.  The invariant WholeInv therefore speaks of a list *)
(*    that the memory stands for: a set of linked addresses with a level   *)
(*    and a place for each.  It says what every machine knows of this list *)
(*    in each of its states, and one lemma per state that writes shows how *)
(*    the list changes: SRCH_CONN_NEW and INS_CONN_NEW fill a node in,     *)
(*    SRCH_CONN_NEAR and INS_CONN_NEAR link it, RMV_DEQ_NODE and           *)
(*    RMV_CONN_LEFT_TAIL unlink the last node of a level.                  *)
(* 3. Seen through its ports the list is the one of SkipListPort, which    *)
(*    pifo_top.v is checked with (ListImplementsPort).  The invariant      *)
(*    PortInv follows an entry through the four places it can be in, from  *)
(*    the port to the register, to a node and back to the register, and    *)
(*    says which flags keep the list busy meanwhile.  The delay between    *)
(*    the choice of a list and its use enters here: an insert that uses up *)
(*    the last nodes takes longer.                                         *)
(***************************************************************************)
EXTENDS DetSkipList, PifoRegCore_proofs, TLAPS

SearchStates ==
  {"SRCH_IDLE", "GO_DOWN", "WAIT_MEM_RD1", "GO_RIGHT1", "WAIT_MEM_RD2", "GO_RIGHT2",
   "WAIT_MEM_RD3", "SRCH_CONN_NEW", "SRCH_CONN_NEAR"}
InsertStates == {"INS_IDLE", "INS_CONN_NEW", "INS_CONN_NEAR"}
RemoveStates ==
  {"RMV_IDLE", "RMV_CHK_BUSY", "RMV_WAIT_MEM_RD1", "RMV_DEQ_NODE",
   "RMV_WAIT_MEM_RD2", "RMV_CONN_LEFT_TAIL"}

(* Every machine is in one of its states. *)
StatesOK ==
  /\ "state" \in DOMAIN srch /\ srch.state \in SearchStates
  /\ ins_state \in InsertStates
  /\ "state" \in DOMAIN rmv /\ rmv.state \in RemoveStates
  /\ ins_busy \in BOOLEAN /\ rmv_busy \in BOOLEAN
  /\ sl_insert \in BOOLEAN /\ insert_d1 \in BOOLEAN
  /\ start_search \in BOOLEAN /\ search_done \in BOOLEAN

(* A machine at work says so, from its first cycle on. *)
BusyWhenAtWork ==
  /\ ins_state # "INS_IDLE" => ins_busy
  /\ rmv.state # "RMV_IDLE" => rmv_busy

(* The search machine works for the insert machine only, which waits for   *)
(* it from the start pulse to search_done.                                 *)
SearchWithinInsert ==
  start_search \/ srch.state # "SRCH_IDLE" =>
    ins_state = "INS_CONN_NEW" /\ ~search_done

MachinesInv == StatesOK /\ BusyWhenAtWork /\ SearchWithinInsert /\ OneAtATime

-----------------------------------------------------------------------------

(* All machines rest at first.                                             *)
LEMMA MachinesInit == Init => MachinesInv
<1> SUFFICES ASSUME Init PROVE MachinesInv
  OBVIOUS
<1>1. /\ "state" \in DOMAIN srch /\ srch.state = "SRCH_IDLE"
      /\ "state" \in DOMAIN rmv /\ rmv.state = "RMV_IDLE"
  BY DEF Init, NoSearch, NoRemoval
<1>2. /\ ins_state = "INS_IDLE" /\ ins_busy = FALSE /\ rmv_busy = FALSE
      /\ sl_insert = FALSE /\ insert_d1 = FALSE
      /\ start_search = FALSE /\ search_done = FALSE
  BY DEF Init
<1> QED
  BY <1>1, <1>2 DEF MachinesInv, StatesOK, BusyWhenAtWork, SearchWithinInsert, OneAtATime,
                    SearchStates, InsertStates, RemoveStates, s

(* Nothing goes to the list in a cycle in which nothing is inserted. *)
LEMMA NothingToList ==
  ASSUME NEW remove
  PROVE  ToList(NoEntry, remove) = NoEntry
BY DEF ToList, PassesMax, Taken

(* The client puts nothing on the insert port while the list is busy. *)
LEMMA BusyKeepsOut ==
  ASSUME Next
  PROVE  \E e, remove : /\ Cycle(e, remove) /\ remove \in BOOLEAN
                        /\ e # NoEntry => ~ins_busy /\ ~rmv_busy /\ ~insert_d1
BY DEF Next, Remove, Idle, Insert, RemoveInsert, MayInsert, Available, busy, int_busy

(* One step of the search machine: it only starts with start_search, and   *)
(* says search_done in the step in which it rests again.                   *)
LEMMA SearchStep ==
  ASSUME StatesOK, Search
  PROVE  /\ "state" \in DOMAIN srch' /\ srch'.state \in SearchStates
         /\ search_done' \in BOOLEAN
         /\ srch.state = "SRCH_IDLE" /\ ~start_search => srch'.state = "SRCH_IDLE"
         /\ search_done' => srch.state # "SRCH_IDLE" /\ srch'.state = "SRCH_IDLE"
<1> USE DEF StatesOK, Search, s
<1>1. CASE srch.state = "SRCH_IDLE"
  BY <1>1 DEF SrchIdle, NoSearch, SearchStates
<1>2. CASE srch.state = "GO_DOWN"
  BY <1>2 DEF GoDown, SearchStates
<1>3. CASE srch.state \in {"WAIT_MEM_RD1", "WAIT_MEM_RD2", "WAIT_MEM_RD3"}
  BY <1>3 DEF Wait, SearchStates
<1>4. CASE srch.state = "GO_RIGHT1"
  BY <1>4 DEF GoRight1, FirstRight, SearchStates
<1>5. CASE srch.state = "GO_RIGHT2"
  BY <1>5 DEF GoRight2, SearchStates
<1>6. CASE srch.state \in {"SRCH_CONN_NEW", "SRCH_CONN_NEAR"}
  BY <1>6 DEF ConnNew, ConnNear, SearchStates
<1> QED BY <1>1, <1>2, <1>3, <1>4, <1>5, <1>6 DEF SearchStates

(* One step of the insert machine: it starts the search and then waits for *)
(* search_done.                                                            *)
LEMMA InsertStep ==
  ASSUME StatesOK, NEW remove \in BOOLEAN, Insert_(remove), BusyWhenAtWork
  PROVE  /\ ins_state' \in InsertStates /\ ins_busy' \in BOOLEAN
         /\ start_search' \in BOOLEAN
         /\ ins_state' # "INS_IDLE" => ins_busy'
         /\ ins_state = "INS_IDLE" /\ ~sl_insert => ins_state' = "INS_IDLE"
         /\ start_search' => ins_state = "INS_IDLE" /\ ins_state' = "INS_CONN_NEW"
         /\ ins_state = "INS_CONN_NEW" /\ ~search_done => ins_state' = "INS_CONN_NEW"
BY DEF Insert_, StatesOK, InsertStates, Starts, BusyWhenAtWork

(* One step of the remove machine: it starts only through RMV_CHK_BUSY, in *)
(* a cycle in which nothing is inserted.                                   *)
LEMMA RemoveStep ==
  ASSUME StatesOK, NEW e, RemoveNode(e), BusyWhenAtWork
  PROVE  /\ "state" \in DOMAIN rmv' /\ rmv'.state \in RemoveStates
         /\ rmv_busy' \in BOOLEAN
         /\ rmv'.state # "RMV_IDLE" => rmv_busy'
         /\ rmv'.state \notin {"RMV_IDLE", "RMV_CHK_BUSY"} =>
              \/ rmv.state \notin {"RMV_IDLE", "RMV_CHK_BUSY"}
              \/ rmv.state = "RMV_CHK_BUSY" /\ Moves(e)
<1> USE DEF StatesOK, RemoveNode, BusyWhenAtWork
<1>1. CASE rmv.state = "RMV_IDLE"
  BY <1>1 DEF RemoveStates, MayMove, Quiet, int_busy
<1>2. CASE rmv.state = "RMV_CHK_BUSY"
  BY <1>2 DEF RemoveStates, Moves, NoRemoval
<1>3. CASE rmv.state \in {"RMV_WAIT_MEM_RD1", "RMV_WAIT_MEM_RD2"}
  BY <1>3 DEF RemoveStates
<1>4. CASE rmv.state \in {"RMV_DEQ_NODE", "RMV_CONN_LEFT_TAIL"}
  BY <1>4 DEF RemoveStates, NextUp, NoRemoval
<1> QED BY <1>1, <1>2, <1>3, <1>4 DEF RemoveStates

(* Every cycle keeps the machines apart.                                   *)
LEMMA MachinesStep == MachinesInv /\ [Next]_vars => MachinesInv'
<1> SUFFICES ASSUME MachinesInv, [Next]_vars PROVE MachinesInv'
  OBVIOUS
<1>1. CASE UNCHANGED vars
  BY <1>1 DEF MachinesInv, StatesOK, BusyWhenAtWork, SearchWithinInsert, OneAtATime, s,
              vars, port, main, machines
<1>2. CASE Next
  <2>1. PICK e, remove : /\ Cycle(e, remove) /\ remove \in BOOLEAN
                         /\ e # NoEntry => ~ins_busy /\ ~rmv_busy /\ ~insert_d1
    BY <1>2, BusyKeepsOut
  <2>2. /\ Search /\ Insert_(remove) /\ RemoveNode(e)
        /\ sl_insert' = (ToList(e, remove) # NoEntry) /\ insert_d1' = (e # NoEntry)
    BY <2>1 DEF Cycle, Main, Port
  <2>3. /\ "state" \in DOMAIN srch' /\ srch'.state \in SearchStates
        /\ search_done' \in BOOLEAN
        /\ srch.state = "SRCH_IDLE" /\ ~start_search => srch'.state = "SRCH_IDLE"
        /\ search_done' => srch.state # "SRCH_IDLE" /\ srch'.state = "SRCH_IDLE"
    BY <2>2, SearchStep DEF MachinesInv
  <2>4. /\ ins_state' \in InsertStates /\ ins_busy' \in BOOLEAN
        /\ start_search' \in BOOLEAN
        /\ ins_state' # "INS_IDLE" => ins_busy'
        /\ ins_state = "INS_IDLE" /\ ~sl_insert => ins_state' = "INS_IDLE"
        /\ start_search' => ins_state = "INS_IDLE" /\ ins_state' = "INS_CONN_NEW"
        /\ ins_state = "INS_CONN_NEW" /\ ~search_done => ins_state' = "INS_CONN_NEW"
    BY <2>1, <2>2, InsertStep DEF MachinesInv
  <2>5. /\ "state" \in DOMAIN rmv' /\ rmv'.state \in RemoveStates
        /\ rmv_busy' \in BOOLEAN
        /\ rmv'.state # "RMV_IDLE" => rmv_busy'
        /\ rmv'.state \notin {"RMV_IDLE", "RMV_CHK_BUSY"} =>
             \/ rmv.state \notin {"RMV_IDLE", "RMV_CHK_BUSY"}
             \/ rmv.state = "RMV_CHK_BUSY" /\ Moves(e)
    BY <2>2, RemoveStep DEF MachinesInv
  <2>6. StatesOK' /\ BusyWhenAtWork'
    BY <2>2, <2>3, <2>4, <2>5 DEF StatesOK, BusyWhenAtWork
  <2>7. SearchWithinInsert'
    BY <2>3, <2>4 DEF MachinesInv, SearchWithinInsert, StatesOK
  <2>8. OneAtATime'
    <3>1. SUFFICES ASSUME rmv'.state \notin {"RMV_IDLE", "RMV_CHK_BUSY"}
                   PROVE  /\ srch'.state = "SRCH_IDLE" /\ ins_state' = "INS_IDLE"
                          /\ ~sl_insert' /\ ~insert_d1'
      BY DEF OneAtATime, s
    <3>2. e = NoEntry
      BY <2>1, <2>5, <3>1 DEF MachinesInv, BusyWhenAtWork, Moves, Quiet
    <3>3. ~sl_insert' /\ ~insert_d1'
      BY <2>2, <3>2, NothingToList
    <3>4. ins_state = "INS_IDLE" /\ ~sl_insert
      BY <2>5, <3>1 DEF MachinesInv, BusyWhenAtWork, OneAtATime, Moves, Quiet, s
    <3> QED
      BY <2>3, <2>4, <3>3, <3>4 DEF MachinesInv, SearchWithinInsert
  <2> QED BY <2>6, <2>7, <2>8 DEF MachinesInv
<1> QED BY <1>1, <1>2

(* The four machines never write a RAM in the same cycle for two different *)
(* purposes: the removal of a node begins only when no insert is at work   *)
(* or on its way, and while it lasts none comes in.                        *)
THEOREM ListOneAtATime == Spec => []OneAtATime
<1>1. MachinesInv => OneAtATime
  BY DEF MachinesInv
<1> QED BY <1>1, MachinesInit, MachinesStep, PTL DEF Spec

-----------------------------------------------------------------------------
(* What the memory stands for, and what each machine knows of it.          *)

(* A node: one word of every RAM of det_skip_list.v. What is linked is     *)
(* described by three parameters: the set on of linked addresses, the      *)
(* level lv and the place at of each along its level. m is the memory, z   *)
(* the node whose lower part is gone, or NULL.                             *)
Node == [rank : Ranks, meta : Metas \cup {NoMeta},
         rptr : Addr, lptr : Addr, uptr : Addr, dptr : Addr]

(* Nothing stands on x. *)
Un(m, x) == m[x].uptr = NULL
Un3(m, x) == Un(m, x) /\ Un(m, m[x].rptr) /\ Un(m, m[m[x].rptr].rptr)

(* Linked nodes are addresses, and have levels.                            *)
Typed(on, lv, at, m) ==
  /\ on \subseteq 0 .. MAX_SIZE - 2
  /\ lv \in [Addr -> Nat] /\ at \in [Addr -> Nat] /\ m \in [Addr -> Node]
  /\ \A x \in on : lv[x] \in Lvls /\ (x \in Nodes \/ x = head(lv[x]) \/ x = tail(lv[x]))

(* Every level runs from its head to its tail.                             *)
Ends(on, lv, at, m) ==
  /\ \A l \in Lvls :
       /\ head(l) \in on /\ lv[head(l)] = l /\ at[head(l)] = 0
       /\ m[head(l)].rank = MAX_RANK /\ m[head(l)].uptr # NULL
       /\ tail(l) \in on /\ lv[tail(l)] = l /\ at[tail(l)] = at[tail(0)]
       /\ m[tail(l)].rank = 0 /\ m[tail(l)].uptr # NULL /\ m[tail(l)].rptr = NULL
  /\ 0 < at[tail(0)]
  /\ \A x \in on \cap Nodes : 0 < at[x] /\ at[x] < at[tail(0)]

(* The right pointers visit the places of a level in order.                *)
Rights(on, lv, at, m) ==
  \A x \in on : x # tail(lv[x]) =>
    /\ m[x].rptr \in on /\ lv[m[x].rptr] = lv[x] /\ at[x] < at[m[x].rptr]
    /\ m[m[x].rptr].lptr = x
    /\ \A w \in on : lv[w] = lv[x] => at[w] <= at[x] \/ at[m[x].rptr] <= at[w]

(* The left pointers are the right ones reversed.                          *)
Lefts(on, lv, m) ==
  \A x \in on : x # head(lv[x]) =>
    /\ m[x].lptr \in on /\ lv[m[x].lptr] = lv[x] /\ m[m[x].lptr].rptr = x
    /\ m[x].lptr # tail(lv[x])

(* No two nodes of a level have the same place.                            *)
Alone(on, lv, at) == \A x, y \in on : lv[x] = lv[y] /\ at[x] = at[y] => x = y

(* What is above level 0 stands on a node of the same rank and place.      *)
Downs(on, lv, at, m, z) ==
  \A x \in on : lv[x] > 0 /\ x # z =>
    /\ m[x].dptr \in on /\ lv[m[x].dptr] = lv[x] - 1 /\ at[m[x].dptr] = at[x]
    /\ m[m[x].dptr].rank = m[x].rank /\ m[m[x].dptr].uptr = x
    /\ x \in Nodes <=> m[x].dptr \in Nodes

(* The up pointers are the down ones reversed.                             *)
Ups(on, lv, m, z) ==
  \A x \in on \cap Nodes : m[x].uptr # NULL =>
    /\ m[x].uptr \in on \cap Nodes /\ m[x].uptr # z
    /\ lv[m[x].uptr] = lv[x] + 1 /\ m[m[x].uptr].dptr = x

(* Larger ranks come first: the smallest is the last of its level.         *)
Sorted(on, lv, at, m) ==
  \A x, y \in on : lv[x] = lv[y] /\ at[x] < at[y] => m[x].rank >= m[y].rank

(* No four nodes in a row have nothing on them.                            *)
Gaps(on, m) == \A x \in on : ~ (Un3(m, x) /\ Un(m, m[m[m[x].rptr].rptr].rptr))

(* Left of a node on which something stands is one without: a level has at *)
(* most half the nodes of the one below.                                   *)
Spread(on, m) ==
  \A x \in on \cap Nodes : m[x].uptr # NULL => m[x].lptr \in Nodes /\ Un(m, m[x].lptr)

(* The nodes of the lowest level carry what was inserted.                  *)
Labels(on, lv, m) == \A x \in on \cap Nodes : lv[x] = 0 => m[x].meta \in Metas

(* The memory is a deterministic skip list.                                *)
Shape(on, lv, at, m, z) ==
  /\ Typed(on, lv, at, m) /\ Ends(on, lv, at, m)
  /\ Rights(on, lv, at, m) /\ Lefts(on, lv, m) /\ Alone(on, lv, at)
  /\ Downs(on, lv, at, m, z) /\ Ups(on, lv, m, z)
  /\ Sorted(on, lv, at, m) /\ Gaps(on, m) /\ Spread(on, m) /\ Labels(on, lv, m)

-----------------------------------------------------------------------------

(* What the free list holds once the read and the write under way are      *)
(* done.                                                                   *)
FreeNow == (free \ (IF get_next_node THEN {new_node} ELSE {}))
             \cup ({free_list_in} \ {NULL})

(* The remove machine works above level 0, or on it.                       *)
Upper == rmv.state \in {"RMV_WAIT_MEM_RD2", "RMV_CONN_LEFT_TAIL"}
Lower == rmv.state \in {"RMV_WAIT_MEM_RD1", "RMV_DEQ_NODE"}

(* The node that is still to be unlinked, while the one below it is gone.  *)
Torn == IF Upper THEN rmv.node ELSE NULL

(* The nodes of the lowest level, which sl_num_entries counts.             *)
Lowest(on, lv) == {x \in on \cap Nodes : lv[x] = 0}

(* The registers beside the RAMs: the free list, the topmost level in use, *)
(* the copies of the ends and the number of entries.                       *)
Books(on, lv) ==
  /\ free \subseteq Nodes /\ FreeNow = Nodes \ on
  /\ curr_max_lvl \in Lvls /\ \A x \in on \cap Nodes : lv[x] <= curr_max_lvl
  /\ rptr_head \in [Lvls -> Addr] /\ \A l \in Lvls : rptr_head[l] = mem[head(l)].rptr
  /\ lptr_tail = mem[tail(0)].lptr \/ mem[tail(0)].lptr = head(0)
  /\ sl_num_entries \in Nat
  /\ Cardinality(Lowest(on, lv)) = sl_num_entries + (IF Lower THEN 1 ELSE 0)

(* What the remove machine knows: its node is the last of its level.       *)
Removing(on, lv) ==
  /\ rmv.state = "RMV_CHK_BUSY" => sl_num_entries > 0
  /\ Lower => /\ rmv.node \in on \cap Nodes /\ rmv.lvl = 0 /\ lv[rmv.node] = 0
              /\ mem[rmv.node].rptr = tail(0)
  /\ Upper => /\ rmv.node \in on \cap Nodes /\ rmv.lvl > 0 /\ lv[rmv.node] = rmv.lvl
              /\ mem[rmv.node].rptr = tail(rmv.lvl)
  /\ rmv.state \in {"RMV_DEQ_NODE", "RMV_CONN_LEFT_TAIL"} => dout = mem[rmv.node]

-----------------------------------------------------------------------------

(* At least k nodes are free.                                              *)
Room(on, k) == Cardinality(Nodes \ on) >= k

(* A node put to the right of u makes no four in a row with nothing on     *)
(* them.                                                                   *)
Slack(on, m, u) ==
  /\ ~Un3(m, m[u].rptr)
  /\ \A x \in on : Un3(m, x) => x # u /\ m[x].rptr # u /\ m[m[x].rptr].rptr # u

(* In what follows K is the new rank, M is curr_max_lvl, q the registers   *)
(* of the search machine and o the RAM outputs.                            *)
Last(on, lv, m, K, l, d) ==
  /\ d \in on /\ lv[d] = l /\ d # tail(l)
  /\ m[d].rank >= K /\ m[m[d].rptr].rank <= K

(* Right of u is the place of rank K on level l, with room for it.         *)
Placed(on, lv, m, K, l, u) == Last(on, lv, m, K, l, u) /\ Slack(on, m, u)

(* The walk along level l, k nodes behind the one it started from. *)
Run(on, lv, m, l, n, k, d) ==
  /\ n \in on /\ lv[n] = l /\ n # tail(l)
  /\ \/ k = 0 /\ ~Un(m, n) /\ d = n
     \/ k = 1 /\ Un(m, n) /\ ~Un(m, m[n].lptr) /\ d \in {n, m[n].lptr}
     \/ /\ k = 2 /\ Un(m, n) /\ Un(m, m[n].lptr) /\ ~Un(m, m[m[n].lptr].lptr)
        /\ d \in {n, m[n].lptr, m[m[n].lptr].lptr}

(* Node n is below the stretch of the level above that was left at u.      *)
Under(on, lv, at, m, K, l, u, n) ==
  l + 1 < NUM_LVLS =>
    Placed(on, lv, m, K, l + 1, u) /\ at[u] <= at[n] /\ at[n] < at[m[u].rptr]

(* The copies of the pointers of d are true.                               *)
Kept(m, q, l) == q.dR = m[q.d].rptr /\ (l > 0 => q.dD = m[q.d].dptr)

(* The search is at node n of a level, and keeps the last one that is not  *)
(* smaller than the new rank in d.                                         *)
Along(on, lv, at, m, q, K, M, n) ==
  /\ q.level \in 0 .. M
  /\ Run(on, lv, m, q.level, n, q.cons_nodes, q.d)
  /\ m[q.d].rank >= K /\ (q.d = n \/ m[m[q.d].rptr].rank <= K)
  /\ Under(on, lv, at, m, K, q.level, q.u, n)
  /\ IF q.store_d THEN q.d = n ELSE Kept(m, q, q.level)
  /\ Room(on, q.level + 2)

(* Three nodes in a row have nothing on them: the middle one, q.l, is      *)
(* about to be promoted, and a level above it exists.                      *)
Third(on, lv, at, m, q, K, M) ==
  /\ q.level \in 0 .. M /\ q.level + 1 < NUM_LVLS
  /\ q.l \in on /\ lv[q.l] = q.level /\ q.n = m[q.l].rptr
  /\ Un(m, q.n) /\ Un(m, q.l) /\ Un(m, m[q.l].lptr) /\ ~Un(m, m[m[q.l].lptr].lptr)
  /\ q.d \in {q.n, q.l, m[q.l].lptr, m[m[q.l].lptr].lptr}
  /\ Last(on, lv, m, K, q.level, q.d)
  /\ Under(on, lv, at, m, K, q.level, q.u, q.n) /\ at[q.u] < at[q.l]
  /\ q.lVal = m[q.l].rank /\ q.cons_nodes = 3 /\ ~q.store_d /\ Kept(m, q, q.level)
  /\ Room(on, q.level + 2)

(* After a promotion the search walks on, on the level above. *)
Beyond(on, lv, m, q, K, M) ==
  /\ q.level \in 0 .. M - 1
  /\ Placed(on, lv, m, K, q.level, q.d) /\ ~q.store_d /\ Kept(m, q, q.level)
  /\ Room(on, q.level + 1)

(* Node x of the level above is not larger than the new rank.              *)
Small(on, lv, m, q, K, x) ==
  x \in on /\ lv[x] = q.level + 1 /\ x # head(q.level + 1) /\ m[x].rank <= K

(* Left of x are as many nodes with nothing on them as were counted.       *)
Behind(m, q, x) ==
  /\ q.cons_nodes \in 0 .. 2 /\ Un(m, x)
  /\ q.cons_nodes >= 1 => Un(m, m[x].lptr)
  /\ q.cons_nodes = 2 => Un(m, m[m[x].lptr].lptr)

(* The registers before the first step of a search.                        *)
Start(on, q, M) ==
  /\ q.level = M /\ q.cons_nodes = 0 /\ ~q.store_d
  /\ q.n = head(M) /\ q.d = q.n /\ q.u = head(M + 1)
  /\ Room(on, M + 2)

(* What the search knows when it is about to go down from level l + 1, and *)
(* with l = -1 when it has found the place.                                *)
Found(on, lv, m, q, K, M, l) ==
  /\ l \in -1 .. M - 1
  /\ Placed(on, lv, m, K, l + 1, q.d) /\ Kept(m, q, l + 1) /\ Room(on, l + 2)

(* GO_DOWN.                                                                *)
AtDown(on, lv, m, q, K, M) ==
  /\ Found(on, lv, m, q, K, M, q.level) /\ q.u = q.d /\ ~q.store_d
  /\ q.level >= 0 => q.n = m[q.d].dptr

(* GO_RIGHT1, with the node's pointers on the RAM outputs o.               *)
AtRight1(on, lv, at, m, q, o, K, M) ==
  \/ Along(on, lv, at, m, q, K, M, q.n) /\ o = m[q.n]
  \/ Beyond(on, lv, m, q, K, M) /\ q.cons_nodes = 3 /\ Small(on, lv, m, q, K, o.rptr)
  \/ /\ Beyond(on, lv, m, q, K, M) /\ Small(on, lv, m, q, K, q.n) /\ Behind(m, q, q.n)
     /\ o = m[q.n]

(* GO_RIGHT2 and the wait for it.                                          *)
AtRight2(on, lv, at, m, q, K, M) ==
  \/ /\ Along(on, lv, at, m, q, K, M, q.l) /\ ~q.store_d
     /\ q.n = m[q.l].rptr /\ q.lVal = m[q.l].rank
  \/ /\ Beyond(on, lv, m, q, K, M) /\ Small(on, lv, m, q, K, q.n)
     /\ q.cons_nodes = 3 \/ (q.l \in on /\ q.n = m[q.l].rptr /\ Behind(m, q, q.l))

(* SRCH_CONN_NEAR: the new node w is filled in.                            *)
AtNear(m, q, o, w) ==
  /\ q.uR = m[q.u].rptr /\ o.rptr = q.uR
  /\ m[w].rank = q.lVal /\ m[w].rptr = q.uR /\ m[w].lptr = q.u
  /\ m[w].uptr = NULL /\ m[w].dptr = q.l

(* The search machine in each of its states; w is the node it may take. *)
Seeking(on, lv, at, m, q, o, K, M, w) ==
  /\ q.first_node => q.state = "GO_RIGHT1" /\ Start(on, q, M)
  /\ q.state = "GO_DOWN" => AtDown(on, lv, m, q, K, M)
  /\ q.state = "WAIT_MEM_RD1" => Along(on, lv, at, m, q, K, M, q.n) /\ q.store_d
  /\ q.state = "GO_RIGHT1" /\ ~q.first_node => AtRight1(on, lv, at, m, q, o, K, M)
  /\ q.state \in {"WAIT_MEM_RD2", "GO_RIGHT2"} => AtRight2(on, lv, at, m, q, K, M)
  /\ q.state = "GO_RIGHT2" => o = m[q.n]
  /\ q.state \in {"WAIT_MEM_RD3", "SRCH_CONN_NEW", "SRCH_CONN_NEAR"} =>
       Third(on, lv, at, m, q, K, M)
  /\ q.state = "SRCH_CONN_NEW" => o.rptr = m[q.u].rptr
  /\ q.state = "SRCH_CONN_NEAR" => AtNear(m, q, o, w)

(* The search machine, and the insert machine that uses what it found. An  *)
(* insert begins with room for a node on every level and one more.         *)
Searching(on, lv, at) ==
  /\ Seeking(on, lv, at, mem, srch, dout, sl_in.rank, curr_max_lvl, new_node)
  /\ srch.state = "SRCH_IDLE" /\ ins_state # "INS_IDLE" /\ ~start_search =>
       Found(on, lv, mem, srch, sl_in.rank, curr_max_lvl, -1)
  /\ ins_state = "INS_CONN_NEAR" =>
       /\ mem[new_node].rank = sl_in.rank /\ mem[new_node].meta = sl_in.meta
       /\ mem[new_node].rptr = srch.dR /\ mem[new_node].lptr = srch.d
       /\ mem[new_node].uptr = NULL
  /\ sl_insert \/ start_search => Room(on, NUM_LVLS + 1)

(* The types of the registers of the search and the remove machine.        *)
SearchRegs ==
  [state : SearchStates, level : -1 .. NUM_LVLS - 1,
   n : Addr, l : Addr, u : Addr, d : Addr, uR : Addr, dR : Addr, dD : Addr,
   lVal : Ranks, cons_nodes : 0 .. 3, first_node : BOOLEAN, store_d : BOOLEAN]
RegsTyped ==
  /\ srch \in SearchRegs /\ dout \in Node
  /\ rmv \in [state : RemoveStates, node : Addr, lvl : Nat]
  /\ bram_rd \in BOOLEAN /\ bram_rd1 \in BOOLEAN

(* How the flags that pass between the machines go with their states.      *)
Flags ==
  /\ main_state \in {"RUN", "INSERT"}
  /\ main_state = "INSERT" <=> sl_insert \/ ins_state # "INS_IDLE"
  /\ main_state = "INSERT" => sl_in \in Entry
  /\ sl_blk_ins_if_rmv => sl_insert
  /\ sl_insert => ins_state = "INS_IDLE" /\ ~ins_busy
  /\ insert_done <=> ins_state = "INS_CONN_NEAR"
  /\ search_done => ins_state = "INS_CONN_NEW" /\ s.state = "SRCH_IDLE"
  /\ s.state = "SRCH_IDLE" /\ ins_state = "INS_CONN_NEW" => start_search \/ search_done
  /\ start_search => srch = NoSearch
  /\ get_next_node =>
       /\ ins_busy /\ ~search_done /\ ~start_search /\ ins_state # "INS_CONN_NEAR"
       /\ ins_state # "INS_IDLE" => s.state \in {"GO_RIGHT1", "GO_DOWN"}
  /\ free_list_in # NULL =>
       /\ ins_state = "INS_IDLE" /\ ~sl_insert
       /\ rmv.state \in {"RMV_IDLE", "RMV_WAIT_MEM_RD2"}
  /\ bram_rd \/ bram_rd1 => s.state \in Waits \/ rmv.state \in Waits
  /\ ~(bram_rd /\ bram_rd1)

(* The register in front of the list holds entries without a gap; what is  *)
(* said to be full is, or is about to be.                                  *)
RegisterHolds ==
  /\ reg.slots \in [Slots -> MaybeEntry] /\ reg.insert_ltch \in MaybeEntry
  /\ reg.num_entries \in 0 .. REG_WIDTH
  /\ \A i \in Slots : i < reg.num_entries => reg.slots[i] # NoEntry
  /\ reg.full => \/ reg.num_entries = REG_WIDTH
                 \/ /\ reg.num_entries = REG_WIDTH - 1 /\ remove_last
                    /\ reg.insert_ltch # NoEntry
  /\ pr_in \in MaybeEntry /\ given \in Nat
  /\ reg.valid_out \in BOOLEAN /\ remove_last \in BOOLEAN

(* What holds of the list, for the linked nodes on at places at of levels  *)
(* lv.                                                                     *)
ListInv(on, lv, at) ==
  /\ Shape(on, lv, at, mem, Torn) /\ Books(on, lv) /\ Removing(on, lv)
  /\ Searching(on, lv, at)

(* The addresses of heads, tails, nodes and NULL are different ones.       *)
LEMMA Addresses ==
  /\ NUM_LVLS \in Nat /\ NUM_LVLS > 0 /\ MAX_SIZE \in Nat /\ MAX_SIZE > 3 * NUM_LVLS + 1
  /\ NULL \in Addr /\ NULL = MAX_SIZE - 1 /\ NULL \notin 0 .. MAX_SIZE - 2 /\ NULL \notin Nodes
  /\ Nodes \subseteq Addr /\ 0 .. MAX_SIZE - 2 \subseteq Addr /\ Addr \subseteq Nat
  /\ 0 \in Lvls /\ Lvls \subseteq Nat
  /\ \A l \in Lvls : /\ head(l) \in Addr /\ tail(l) \in Addr /\ head(l) # NULL /\ tail(l) # NULL
                     /\ head(l) \notin Nodes /\ tail(l) \notin Nodes
  /\ \A l, k \in Lvls : /\ head(l) # tail(k)
                        /\ head(l) = head(k) => l = k
                        /\ tail(l) = tail(k) => l = k
<1>1. NUM_LVLS \in Nat /\ NUM_LVLS > 0 /\ MAX_SIZE \in Nat /\ MAX_SIZE > 3 * NUM_LVLS + 1
  BY LvlsAssumption, SizeAssumption
<1>2. \A l \in Lvls : l \in Nat /\ 2 * l \in Nat /\ 2 * l + 1 < 2 * NUM_LVLS
  BY <1>1 DEF Lvls
<1> QED BY <1>1, <1>2 DEF NULL, Addr, Nodes, Lvls, head, tail

-----------------------------------------------------------------------------
(* Linking a node.                                                         *)

(* What a link writes: w comes between u and v, above b.                   *)
Relinked(on, m, m2, u, v, w, b) ==
  \A x \in on :
    /\ m2[x].rank = m[x].rank /\ m2[x].meta = m[x].meta /\ m2[x].dptr = m[x].dptr
    /\ m2[x].rptr = IF x = u THEN w ELSE m[x].rptr
    /\ m2[x].lptr = IF x = v THEN w ELSE m[x].lptr
    /\ m2[x].uptr = IF x = b THEN w ELSE m[x].uptr

(* What is known of nodes u and v of level l, the place p and the base b   *)
(* before a node w is linked between u and v.                              *)
Ready(on, lv, at, m, l, u, v, w, b, p, r) ==
  /\ l \in Lvls /\ u \in on /\ lv[u] = l /\ u # tail(l) /\ v = m[u].rptr
  /\ w \in Nodes /\ w \notin on
  /\ p \in Nat /\ at[u] < p /\ p < at[v]
  /\ r \in Ranks /\ r <= m[u].rank /\ m[v].rank <= r
  /\ Slack(on, m, u)
  /\ IF l = 0 THEN b = NULL
     ELSE /\ b \in on /\ b \in Nodes /\ lv[b] = l - 1 /\ at[b] = p /\ m[b].rank = r
          /\ Un(m, b) /\ m[b].lptr \in Nodes /\ Un(m, m[b].lptr) /\ Un(m, m[b].rptr)

(* What the new node w has been filled with.                               *)
Written(m2, l, u, v, w, b, r) ==
  /\ m2 \in [Addr -> Node]
  /\ m2[w].rank = r /\ m2[w].rptr = v /\ m2[w].lptr = u /\ m2[w].uptr = NULL
  /\ l > 0 => m2[w].dptr = b
  /\ l = 0 => m2[w].meta \in Metas

(* A linked node that is not a tail has one neighbour on its right.        *)
LEMMA Neighbours ==
  ASSUME NEW on, NEW lv, NEW at, NEW m, NEW z, Shape(on, lv, at, m, z),
         NEW u, u \in on, u # tail(lv[u])
  PROVE  /\ m[u].rptr \in on /\ lv[m[u].rptr] = lv[u] /\ at[u] < at[m[u].rptr]
         /\ m[m[u].rptr].lptr = u /\ u # m[u].rptr
         /\ m[u].rptr # head(lv[u])
         /\ \A x \in on : x # tail(lv[x]) /\ m[x].rptr = m[u].rptr => x = u
<1> USE DEF Shape
<1>1. /\ m[u].rptr \in on /\ lv[m[u].rptr] = lv[u] /\ at[u] < at[m[u].rptr]
      /\ m[m[u].rptr].lptr = u
  BY DEF Rights
<1>2. on \subseteq Addr /\ lv[u] \in Lvls /\ at[u] \in Nat /\ at[m[u].rptr] \in Nat
  BY <1>1, Addresses DEF Typed
<1>3. m[u].rptr # head(lv[u])
  BY <1>1, <1>2 DEF Ends
<1>4. ASSUME NEW x \in on, x # tail(lv[x]), m[x].rptr = m[u].rptr
      PROVE  x = u
  BY <1>1, <1>4 DEF Rights
<1> QED BY <1>1, <1>2, <1>3, <1>4

(* Linking a node where there is room for it keeps the shape.              *)
LEMMA LinkShape ==
  ASSUME NEW on, NEW lv, NEW at, NEW m, Shape(on, lv, at, m, NULL),
         NEW l, NEW u, NEW v, NEW w, NEW b, NEW p, NEW r,
         Ready(on, lv, at, m, l, u, v, w, b, p, r),
         NEW m2, Relinked(on, m, m2, u, v, w, b), Written(m2, l, u, v, w, b, r),
         NEW lv2, NEW at2, lv2 = [lv EXCEPT ![w] = l], at2 = [at EXCEPT ![w] = p]
  PROVE  Shape(on \cup {w}, lv2, at2, m2, NULL)
<1> DEFINE on2 == on \cup {w}
<1>1. /\ on \subseteq 0 .. MAX_SIZE - 2 /\ on \subseteq Addr
      /\ lv \in [Addr -> Nat] /\ at \in [Addr -> Nat] /\ m \in [Addr -> Node]
      /\ \A x \in on : lv[x] \in Lvls /\ lv[x] \in Nat /\ at[x] \in Nat
                       /\ (x \in Nodes \/ x = head(lv[x]) \/ x = tail(lv[x]))
  BY Addresses DEF Shape, Typed
<1>2. /\ l \in Lvls /\ l \in Nat /\ u \in on /\ lv[u] = l /\ u # tail(l) /\ v = m[u].rptr
      /\ w \in Nodes /\ w \notin on /\ w \in Addr /\ w # NULL
      /\ p \in Nat /\ at[u] < p /\ p < at[v]
      /\ r \in Ranks /\ r <= m[u].rank /\ m[v].rank <= r
  BY Addresses DEF Ready
<1>3. /\ v \in on /\ lv[v] = l /\ m[v].lptr = u /\ u # v /\ v # head(l) /\ at[u] < at[v]
      /\ \A x \in on : lv[x] = l => at[x] <= at[u] \/ at[v] <= at[x]
      /\ \A x \in on : x # tail(lv[x]) /\ m[x].rptr = v => x = u
  BY <1>2, Neighbours DEF Shape, Rights
<1>4. /\ lv2 \in [Addr -> Nat] /\ at2 \in [Addr -> Nat] /\ lv2[w] = l /\ at2[w] = p
      /\ \A x \in on : lv2[x] = lv[x] /\ at2[x] = at[x]
  BY <1>1, <1>2
<1>5. \A k \in Lvls : /\ head(k) \in on /\ tail(k) \in on /\ lv[head(k)] = k /\ lv[tail(k)] = k
                      /\ w # head(k) /\ w # tail(k)
  BY <1>2 DEF Shape, Ends
<1>6. b # NULL => b \in on /\ b \in Nodes /\ l > 0 /\ lv[b] = l - 1 /\ at[b] = p /\ m[b].rank = r
                  /\ Un(m, b) /\ m[b].lptr \in Nodes /\ Un(m, m[b].lptr) /\ Un(m, m[b].rptr)
  BY Addresses, <1>2 DEF Ready
<1>7. l > 0 => b # NULL /\ b \in on
  BY Addresses, <1>2 DEF Ready
<1>8. \A x \in on : /\ m2[x].rank = m[x].rank /\ m2[x].meta = m[x].meta /\ m2[x].dptr = m[x].dptr
                    /\ x = u => m2[x].rptr = w
                    /\ x # u => m2[x].rptr = m[x].rptr
                    /\ x = v => m2[x].lptr = w
                    /\ x # v => m2[x].lptr = m[x].lptr
                    /\ x = b => m2[x].uptr = w
                    /\ x # b => m2[x].uptr = m[x].uptr
  BY DEF Relinked
<1>9. /\ m2 \in [Addr -> Node]
      /\ m2[w].rank = r /\ m2[w].rptr = v /\ m2[w].lptr = u /\ m2[w].uptr = NULL
      /\ l > 0 => m2[w].dptr = b
      /\ l = 0 => m2[w].meta \in Metas
  BY DEF Written
<1>10. b # w /\ u # w /\ v # w
  BY <1>2, <1>3, <1>6, Addresses
<1>11. Typed(on2, lv2, at2, m2)
  <2>1. w \in 0 .. MAX_SIZE - 2
    BY <1>2, Addresses DEF Nodes
  <2> QED BY <1>1, <1>2, <1>4, <1>9, <2>1 DEF Typed
<1>12. Ends(on2, lv2, at2, m2)
  <2>1. ASSUME NEW k \in Lvls
        PROVE  /\ head(k) \in on2 /\ lv2[head(k)] = k /\ at2[head(k)] = 0
               /\ m2[head(k)].rank = MAX_RANK /\ m2[head(k)].uptr # NULL
               /\ tail(k) \in on2 /\ lv2[tail(k)] = k /\ at2[tail(k)] = at2[tail(0)]
               /\ m2[tail(k)].rank = 0 /\ m2[tail(k)].uptr # NULL /\ m2[tail(k)].rptr = NULL
    <3>1. /\ at[head(k)] = 0 /\ m[head(k)].rank = MAX_RANK /\ m[head(k)].uptr # NULL
          /\ at[tail(k)] = at[tail(0)] /\ m[tail(k)].rank = 0 /\ m[tail(k)].uptr # NULL
          /\ m[tail(k)].rptr = NULL
      BY DEF Shape, Ends
    <3>2. tail(k) # u
      BY <1>2, <1>5
    <3>3. 0 \in Lvls
      BY Addresses
    <3> QED BY <1>2, <1>4, <1>5, <1>8, <3>1, <3>2, <3>3
  <2>2. 0 < at2[tail(0)]
    BY <1>4, <1>5, Addresses DEF Shape, Ends
  <2>3. 0 < p /\ p < at[tail(0)]
    <3>1. at[v] <= at[tail(0)]
      <4>1. v \in Nodes \/ v = tail(l)
        BY <1>1, <1>3
      <4>2. at[tail(l)] = at[tail(0)] /\ at[tail(0)] \in Nat
        BY <1>1, <1>2, <1>5, Addresses DEF Shape, Ends
      <4>3. v \in Nodes => at[v] < at[tail(0)]
        BY <1>3 DEF Shape, Ends
      <4> QED BY <4>1, <4>2, <4>3, <1>1, <1>3
    <3>2. at[tail(0)] \in Nat
      BY <1>1, <1>5, Addresses
    <3> QED BY <1>1, <1>2, <1>3, <3>1, <3>2
  <2>4. \A x \in on2 \cap Nodes : 0 < at2[x] /\ at2[x] < at2[tail(0)]
    <3>1. at2[tail(0)] = at[tail(0)]
      BY <1>4, <1>5, Addresses
    <3> QED BY <2>3, <3>1, <1>4 DEF Shape, Ends
  <2> QED BY <2>1, <2>2, <2>4 DEF Ends
<1>13. Rights(on2, lv2, at2, m2)
  <2>1. ASSUME NEW x \in on2, x # tail(lv2[x])
        PROVE  /\ m2[x].rptr \in on2 /\ lv2[m2[x].rptr] = lv2[x] /\ at2[x] < at2[m2[x].rptr]
               /\ m2[m2[x].rptr].lptr = x
               /\ \A y \in on2 : lv2[y] = lv2[x] => at2[y] <= at2[x] \/ at2[m2[x].rptr] <= at2[y]
    <3>1. CASE x = w
      <4>1. m2[x].rptr = v /\ m2[v].lptr = w
        BY <3>1, <1>9, <1>8, <1>3
      <4>2. ASSUME NEW y \in on2, lv2[y] = lv2[x]
            PROVE  at2[y] <= at2[x] \/ at2[v] <= at2[y]
        BY <3>1, <4>2, <1>1, <1>2, <1>3, <1>4
      <4> QED BY <3>1, <4>1, <4>2, <1>3, <1>4, <1>2
    <3>2. CASE x = u
      <4>1. m2[x].rptr = w /\ m2[w].lptr = u
        BY <3>2, <1>9, <1>8, <1>2
      <4>2. ASSUME NEW y \in on2, lv2[y] = lv2[x]
            PROVE  at2[y] <= at2[x] \/ at2[w] <= at2[y]
        BY <3>2, <4>2, <1>1, <1>2, <1>3, <1>4
      <4> QED BY <3>2, <4>1, <4>2, <1>2, <1>4
    <3>3. CASE x # w /\ x # u
      <4>1. x \in on /\ lv2[x] = lv[x] /\ at2[x] = at[x] /\ m2[x].rptr = m[x].rptr /\ x # tail(lv[x])
        BY <3>3, <2>1, <1>4, <1>8
      <4>2. /\ m[x].rptr \in on /\ lv[m[x].rptr] = lv[x] /\ at[x] < at[m[x].rptr]
            /\ m[m[x].rptr].lptr = x
            /\ \A y \in on : lv[y] = lv[x] => at[y] <= at[x] \/ at[m[x].rptr] <= at[y]
        BY <4>1 DEF Shape, Rights
      <4>3. m[x].rptr # v
        BY <4>1, <3>3, <1>3
      <4>4. m2[m[x].rptr].lptr = x
        BY <4>2, <4>3, <1>8
      <4>5. ASSUME lv[x] = l
            PROVE  p <= at[x] \/ at[m[x].rptr] <= p
        <5>1. CASE at[v] <= at[x]
          BY <4>1, <5>1, <1>1, <1>2, <1>3
        <5>2. CASE at[x] <= at[u]
          <6>1. at[u] <= at[x] \/ at[m[x].rptr] <= at[u]
            BY <4>2, <4>5, <1>2
          <6>2. at[x] # at[u]
            BY <4>1, <4>5, <3>3, <1>2 DEF Shape, Alone
          <6>3. at[x] \in Nat /\ at[u] \in Nat /\ at[m[x].rptr] \in Nat
            BY <4>1, <4>2, <1>1, <1>2
          <6>4. at[u] < p /\ p \in Nat
            BY <1>2
          <6> QED BY <5>2, <6>1, <6>2, <6>3, <6>4
        <5> QED BY <4>1, <4>5, <5>1, <5>2, <1>3
      <4>6. ASSUME NEW y \in on2, lv2[y] = lv2[x]
            PROVE  at2[y] <= at2[x] \/ at2[m[x].rptr] <= at2[y]
        BY <4>1, <4>2, <4>5, <4>6, <1>4
      <4> QED BY <4>1, <4>2, <4>4, <4>6, <1>4
    <3> QED BY <3>1, <3>2, <3>3
  <2> QED BY <2>1 DEF Rights
<1>14. Lefts(on2, lv2, m2)
  <2>1. ASSUME NEW x \in on2, x # head(lv2[x])
        PROVE  /\ m2[x].lptr \in on2 /\ lv2[m2[x].lptr] = lv2[x] /\ m2[m2[x].lptr].rptr = x
               /\ m2[x].lptr # tail(lv2[x])
    <3>1. CASE x = w
      BY <3>1, <1>2, <1>4, <1>8, <1>9
    <3>2. CASE x = v
      BY <3>2, <1>2, <1>3, <1>4, <1>5, <1>8, <1>9
    <3>3. CASE x # w /\ x # v
      <4>1. x \in on /\ lv2[x] = lv[x] /\ m2[x].lptr = m[x].lptr /\ x # head(lv[x])
        BY <3>3, <2>1, <1>4, <1>8
      <4>2. /\ m[x].lptr \in on /\ lv[m[x].lptr] = lv[x] /\ m[m[x].lptr].rptr = x
            /\ m[x].lptr # tail(lv[x])
        BY <4>1 DEF Shape, Lefts
      <4>3. m[x].lptr # u
        BY <4>2, <3>3, <1>2
      <4> QED BY <4>1, <4>2, <4>3, <1>4, <1>8
    <3> QED BY <3>1, <3>2, <3>3
  <2> QED BY <2>1 DEF Lefts
<1>15. Alone(on2, lv2, at2)
  <2>1. ASSUME NEW x \in on, lv[x] = l PROVE at[x] # p
    BY <2>1, <1>1, <1>2, <1>3
  <2> QED BY <2>1, <1>4 DEF Shape, Alone
<1>16. Downs(on2, lv2, at2, m2, NULL)
  <2>1. ASSUME NEW x \in on2, lv2[x] > 0, x # NULL
        PROVE  /\ m2[x].dptr \in on2 /\ lv2[m2[x].dptr] = lv2[x] - 1 /\ at2[m2[x].dptr] = at2[x]
               /\ m2[m2[x].dptr].rank = m2[x].rank /\ m2[m2[x].dptr].uptr = x
               /\ x \in Nodes <=> m2[x].dptr \in Nodes
    <3>1. CASE x = w
      <4>1. l > 0 /\ b # NULL /\ m2[w].dptr = b
        BY <2>1, <3>1, <1>4, <1>7, <1>9
      <4>2. m2[b].uptr = w /\ m2[b].rank = r
        BY <4>1, <1>6, <1>8
      <4> QED BY <3>1, <4>1, <4>2, <1>2, <1>4, <1>6, <1>9
    <3>2. CASE x # w
      <4>1. x \in on /\ lv2[x] = lv[x] /\ at2[x] = at[x] /\ m2[x].dptr = m[x].dptr
            /\ m2[x].rank = m[x].rank /\ lv[x] > 0
        BY <3>2, <2>1, <1>4, <1>8
      <4>2. /\ m[x].dptr \in on /\ lv[m[x].dptr] = lv[x] - 1 /\ at[m[x].dptr] = at[x]
            /\ m[m[x].dptr].rank = m[x].rank /\ m[m[x].dptr].uptr = x
            /\ x \in Nodes <=> m[x].dptr \in Nodes
        BY <2>1, <4>1 DEF Shape, Downs
      <4>3. m[x].dptr # b
        BY <4>1, <4>2, <1>6, <2>1, Addresses, <1>1 DEF Un
      <4> QED BY <4>1, <4>2, <4>3, <1>4, <1>8
    <3> QED BY <3>1, <3>2
  <2> QED BY <2>1 DEF Downs
<1>17. Ups(on2, lv2, m2, NULL)
  <2>1. ASSUME NEW x \in on2 \cap Nodes, m2[x].uptr # NULL
        PROVE  /\ m2[x].uptr \in on2 \cap Nodes /\ m2[x].uptr # NULL
               /\ lv2[m2[x].uptr] = lv2[x] + 1 /\ m2[m2[x].uptr].dptr = x
    <3>1. x # w /\ x \in on
      BY <2>1, <1>9
    <3>2. CASE x = b
      <4>1. m2[x].uptr = w /\ l > 0 /\ lv[x] = l - 1 /\ m2[w].dptr = b
        BY <3>1, <3>2, <1>6, <1>8, <1>9, Addresses
      <4> QED BY <3>1, <3>2, <4>1, <1>2, <1>4
    <3>3. CASE x # b
      <4>1. m2[x].uptr = m[x].uptr
        BY <3>1, <3>3, <1>8
      <4>2. m[x].uptr \in on \cap Nodes /\ lv[m[x].uptr] = lv[x] + 1 /\ m[m[x].uptr].dptr = x
        BY <2>1, <3>1, <4>1 DEF Shape, Ups
      <4> QED BY <2>1, <3>1, <4>1, <4>2, <1>4, <1>8
    <3> QED BY <3>2, <3>3
  <2> QED BY <2>1 DEF Ups
<1>18. Sorted(on2, lv2, at2, m2)
  <2>0. \A x \in on : m[x].rank \in Int
    BY <1>1, MaxRankAssumption DEF Node, Ranks
  <2>1. ASSUME NEW x \in on, lv[x] = l, at[x] < p PROVE m[x].rank >= r
    <3>1. at[x] <= at[u]
      BY <2>1, <1>1, <1>2, <1>3
    <3>2. CASE at[x] = at[u]
      BY <2>1, <3>2, <1>2, <2>0 DEF Shape, Alone, Ranks
    <3>3. CASE at[x] < at[u]
      <4>1. m[x].rank >= m[u].rank
        BY <2>1, <3>3, <1>2 DEF Shape, Sorted
      <4> QED BY <4>1, <1>2, <2>0 DEF Ranks
    <3> QED BY <3>1, <3>2, <3>3, <1>1, <1>2
  <2>2. ASSUME NEW x \in on, lv[x] = l, p < at[x] PROVE r >= m[x].rank
    <3>1. at[v] <= at[x]
      BY <2>2, <1>1, <1>2, <1>3
    <3>2. CASE at[x] = at[v]
      BY <2>2, <3>2, <1>2, <1>3, <2>0 DEF Shape, Alone, Ranks
    <3>3. CASE at[v] < at[x]
      <4>1. m[v].rank >= m[x].rank
        BY <2>2, <3>3, <1>3 DEF Shape, Sorted
      <4> QED BY <4>1, <1>2, <1>3, <2>0 DEF Ranks
    <3> QED BY <3>1, <3>2, <3>3, <1>1, <1>3
  <2>3. ASSUME NEW x \in on2, NEW y \in on2, lv2[x] = lv2[y], at2[x] < at2[y]
        PROVE  m2[x].rank >= m2[y].rank
    <3>1. CASE x = w
      BY <2>3, <3>1, <2>2, <1>2, <1>4, <1>8, <1>9
    <3>2. CASE y = w
      BY <2>3, <3>2, <2>1, <1>2, <1>4, <1>8, <1>9
    <3>3. CASE x \in on /\ y \in on
      BY <2>3, <3>3, <1>4, <1>8 DEF Shape, Sorted
    <3> QED BY <3>1, <3>2, <3>3
  <2> QED BY <2>3 DEF Sorted
<1>19. \A x \in on : Un(m2, x) => Un(m, x) /\ m[x].rptr \in on /\ x \in Nodes /\ x # tail(lv[x])
  <2>1. ASSUME NEW x \in on, Un(m2, x) PROVE Un(m, x)
    BY <2>1, <1>2, <1>8 DEF Un
  <2>2. ASSUME NEW x \in on, Un(m, x) PROVE x \in Nodes /\ x # tail(lv[x])
    BY <2>2, <1>1, Addresses DEF Un, Shape, Ends
  <2> QED BY <2>1, <2>2 DEF Shape, Rights
<1>20. Gaps(on2, m2)
  <2>0. Un(m2, w) /\ m2[w].rptr = v
    BY <1>9 DEF Un
  <2>s. /\ ~Un3(m, v)
        /\ \A x \in on : Un3(m, x) => x # u /\ m[x].rptr # u /\ m[m[x].rptr].rptr # u
    BY <1>2 DEF Ready, Slack
  <2>1. SUFFICES ASSUME NEW x \in on2, Un3(m2, x), Un(m2, m2[m2[m2[x].rptr].rptr].rptr)
                 PROVE  FALSE
    BY DEF Gaps
  <2> DEFINE x1 == m2[x].rptr
             x2 == m2[x1].rptr
             x3 == m2[x2].rptr
  <2>2. Un(m2, x) /\ Un(m2, x1) /\ Un(m2, x2) /\ Un(m2, x3)
    BY <2>1 DEF Un3
  <2>3. ASSUME NEW y \in on, Un(m2, y), y # u
        PROVE  m2[y].rptr = m[y].rptr /\ m[y].rptr \in on /\ Un(m, y)
    BY <2>3, <1>8, <1>19
  <2>4. CASE x = w
    <3>1. x1 = v /\ v # u
      BY <2>4, <2>0, <1>3
    <3>2. x2 = m[v].rptr /\ x2 \in on /\ Un(m, v)
      BY <3>1, <2>2, <2>3, <1>3
    <3>3. x2 # u
      BY <3>2, <3>1, <1>1, <1>3, <1>2, <1>19, <2>2 DEF Shape, Rights
    <3>4. x3 = m[x2].rptr /\ x3 \in on /\ Un(m, x2)
      BY <3>2, <3>3, <2>2, <2>3
    <3>5. Un(m, x3)
      BY <3>4, <2>2, <1>19
    <3> QED BY <3>2, <3>4, <3>5, <2>s DEF Un3
  <2>5. CASE x = u
    <3>1. x1 = w /\ x2 = v /\ Un(m, u)
      BY <2>5, <2>0, <2>2, <1>2, <1>8, <1>19
    <3>2. x3 = m[v].rptr /\ x3 \in on /\ Un(m, v)
      BY <3>1, <2>2, <2>3, <1>3
    <3>3. Un(m, x3)
      BY <3>2, <2>2, <1>19
    <3> QED BY <3>1, <3>2, <3>3, <2>s, <1>2 DEF Un3
  <2>6. CASE x # w /\ x # u
    <3>1. x \in on /\ x1 = m[x].rptr /\ x1 \in on /\ Un(m, x)
      BY <2>6, <2>2, <2>3
    <3>2. CASE x1 = u
      <4>1. x2 = w /\ x3 = v /\ Un(m, u) /\ Un(m, v)
        BY <3>1, <3>2, <2>0, <2>2, <1>3, <1>8, <1>19
      <4> QED BY <3>1, <3>2, <4>1, <2>s, <1>2 DEF Un3
    <3>3. CASE x1 # u
      <4>1. x2 = m[x1].rptr /\ x2 \in on /\ Un(m, x1)
        BY <3>1, <3>3, <2>2, <2>3
      <4>2. CASE x2 = u
        BY <3>1, <4>1, <4>2, <2>2, <2>s, <1>19 DEF Un3
      <4>3. CASE x2 # u
        <5>1. x3 = m[x2].rptr /\ x3 \in on /\ Un(m, x2)
          BY <4>1, <4>3, <2>2, <2>3
        <5>2. Un(m, x3)
          BY <5>1, <2>2, <1>19
        <5> QED BY <3>1, <4>1, <5>1, <5>2 DEF Shape, Gaps, Un3
      <4> QED BY <4>2, <4>3
    <3> QED BY <3>2, <3>3
  <2> QED BY <2>4, <2>5, <2>6
<1>21. Spread(on2, m2)
  <2>1. ASSUME NEW x \in on2 \cap Nodes, m2[x].uptr # NULL
        PROVE  m2[x].lptr \in Nodes /\ Un(m2, m2[x].lptr)
    <3>1. x # w /\ x \in on /\ x \in Nodes
      BY <2>1, <1>9
    <3>2. CASE x = v
      BY <3>1, <3>2, <1>2, <1>8, <1>9 DEF Un
    <3>3. CASE x # v
      <4>1. m2[x].lptr = m[x].lptr
        BY <3>1, <3>3, <1>8
      <4>2. m[x].lptr \in on /\ m[m[x].lptr].rptr = x
        BY <3>1, <1>1, Addresses DEF Shape, Lefts
      <4>3. CASE x = b
        <5>1. m[x].lptr \in Nodes /\ Un(m, m[x].lptr)
          BY <4>3, <3>1, <1>1, Addresses, <1>6
        <5>2. m[x].lptr # x
          <6>1. m[x].lptr \in Nodes /\ lv[m[x].lptr] \in Lvls
            BY <4>2, <5>1, <1>1
          <6>2. m[x].lptr # tail(lv[m[x].lptr])
            BY <6>1, Addresses
          <6> QED BY <4>2, <6>2, Neighbours
        <5> QED BY <4>1, <4>2, <4>3, <5>1, <5>2, <1>8 DEF Un
      <4>4. CASE x # b
        <5>1. m[x].lptr \in Nodes /\ Un(m, m[x].lptr)
          BY <2>1, <3>1, <4>4, <1>8 DEF Shape, Spread
        <5>2. m[x].lptr # b
          <6>1. SUFFICES ASSUME m[x].lptr = b PROVE FALSE
            OBVIOUS
          <6>2. b # NULL /\ m[b].rptr = x
            BY <4>2, <6>1, <1>1, Addresses
          <6>3. Un(m, x)
            BY <6>2, <1>6
          <6> QED BY <2>1, <3>1, <6>3, <4>4, <1>8 DEF Un
        <5> QED BY <4>1, <4>2, <5>1, <5>2, <1>8 DEF Un
      <4> QED BY <4>3, <4>4
    <3> QED BY <3>2, <3>3
  <2> QED BY <2>1 DEF Spread
<1>22. Labels(on2, lv2, m2)
  BY <1>4, <1>8, <1>9 DEF Shape, Labels
<1> QED BY <1>11, <1>12, <1>13, <1>14, <1>15, <1>16, <1>17, <1>18, <1>20, <1>21, <1>22 DEF Shape

-----------------------------------------------------------------------------
(* Unlinking the last node of a level.                                     *)

(* The last node x of level l, whose left neighbour is q, is taken out. *)
Unlinked(on, m, m2, l, x, q) ==
  /\ m2 \in [Addr -> Node]
  /\ \A y \in on \ {x} :
       /\ m2[y].rank = m[y].rank /\ m2[y].meta = m[y].meta /\ m2[y].dptr = m[y].dptr
       /\ m2[y].uptr = m[y].uptr
       /\ m2[y].rptr = IF y = q THEN tail(l) ELSE m[y].rptr
       /\ m2[y].lptr = IF y = tail(l) THEN q ELSE m[y].lptr

(* Unlinking the last node of a level keeps the shape, but for the node    *)
(* above it, which is the last of its level and now stands on nothing.     *)
LEMMA UnlinkShape ==
  ASSUME NEW on, NEW lv, NEW at, NEW m, NEW z, Shape(on, lv, at, m, z),
         NEW l \in Lvls, NEW x \in on, x \in Nodes, lv[x] = l, m[x].rptr = tail(l),
         z = IF l = 0 THEN NULL ELSE x,
         NEW q, q = m[x].lptr,
         NEW m2, Unlinked(on, m, m2, l, x, q)
  PROVE  /\ Shape(on \ {x}, lv, at, m2, m[x].uptr)
         /\ m[x].uptr # NULL =>
              /\ m[x].uptr \in (on \ {x}) \cap Nodes /\ lv[m[x].uptr] = l + 1
              /\ m2[m[x].uptr].rptr = tail(l + 1)
         /\ m2[tail(l)].lptr = q /\ q \in on \ {x} /\ lv[q] = l /\ m2[q].rptr = tail(l)
<1> DEFINE on2 == on \ {x}
           z2 == m[x].uptr
<1>1. /\ on \subseteq 0 .. MAX_SIZE - 2 /\ on \subseteq Addr
      /\ lv \in [Addr -> Nat] /\ at \in [Addr -> Nat] /\ m \in [Addr -> Node]
      /\ \A y \in on : /\ lv[y] \in Lvls /\ lv[y] \in Nat /\ at[y] \in Nat /\ y # NULL
                       /\ (y \in Nodes \/ y = head(lv[y]) \/ y = tail(lv[y]))
  BY Addresses DEF Shape, Typed
<1>2. \A k \in Lvls : /\ head(k) \in on2 /\ tail(k) \in on2 /\ lv[head(k)] = k /\ lv[tail(k)] = k
                      /\ x # head(k) /\ x # tail(k) /\ head(k) # tail(k)
  BY Addresses DEF Shape, Ends
<1>3. /\ q \in on2 /\ lv[q] = l /\ m[q].rptr = x /\ q # tail(l) /\ q # x /\ at[q] < at[x]
  <2>1. q \in on /\ lv[q] = l /\ m[q].rptr = x /\ q # tail(l)
    BY <1>2 DEF Shape, Lefts
  <2>2. at[q] < at[x]
    BY <2>1 DEF Shape, Rights
  <2> QED BY <2>1, <2>2, <1>1
<1>4. \A y \in on2 : /\ m2[y].rank = m[y].rank /\ m2[y].meta = m[y].meta /\ m2[y].dptr = m[y].dptr
                     /\ m2[y].uptr = m[y].uptr
                     /\ y = q => m2[y].rptr = tail(l)
                     /\ y # q => m2[y].rptr = m[y].rptr
                     /\ y = tail(l) => m2[y].lptr = q
                     /\ y # tail(l) => m2[y].lptr = m[y].lptr
  BY DEF Unlinked
<1>5. \A y \in on : lv[y] = l => at[y] <= at[x] \/ at[tail(l)] <= at[y]
  BY <1>2 DEF Shape, Rights
<1>6. \A y \in on : y # tail(lv[y]) /\ m[y].rptr = x => y = q
  BY DEF Shape, Rights
<1>7. \A y \in on : y # tail(lv[y]) /\ m[y].rptr = tail(l) => y = x
  BY <1>2 DEF Shape, Rights
<1>8. z2 # NULL => /\ z2 \in on2 /\ z2 \in Nodes /\ lv[z2] = l + 1 /\ m[z2].dptr = x
                   /\ at[z2] = at[x]
  <2>1. SUFFICES ASSUME z2 # NULL
                 PROVE  /\ z2 \in on2 /\ z2 \in Nodes /\ lv[z2] = l + 1 /\ m[z2].dptr = x
                        /\ at[z2] = at[x]
    OBVIOUS
  <2>2. z2 \in on /\ z2 \in Nodes /\ z2 # z /\ lv[z2] = l + 1 /\ m[z2].dptr = x
    BY <2>1 DEF Shape, Ups
  <2>3. z2 # x /\ lv[z2] > 0
    BY <2>2, <1>1
  <2>4. at[x] = at[z2]
    BY <2>2, <2>3 DEF Shape, Downs
  <2> QED BY <2>2, <2>3, <2>4
<1>9. z2 # NULL => m2[z2].rptr = tail(l + 1)
  <2>1. SUFFICES ASSUME z2 # NULL PROVE m2[z2].rptr = tail(l + 1)
    OBVIOUS
  <2>2. /\ z2 \in on2 /\ z2 \in Nodes /\ lv[z2] = l + 1 /\ m[z2].dptr = x /\ at[z2] = at[x]
        /\ l + 1 \in Lvls /\ l \in Nat /\ l + 1 # l /\ l + 1 > 0 /\ (l + 1) - 1 = l
    <3>1. z2 \in on2 /\ z2 \in Nodes /\ lv[z2] = l + 1 /\ m[z2].dptr = x /\ at[z2] = at[x]
      BY <2>1, <1>8
    <3>2. l \in Nat /\ l + 1 \in Lvls
      <4>1. \A y \in on : lv[y] \in Lvls
        BY <1>1
      <4>2. lv[z2] \in Lvls
        BY <3>1, <4>1
      <4> QED BY <3>1, <4>2, Addresses
    <3> QED BY <3>1, <3>2
  <2>3. m2[z2].rptr = m[z2].rptr
    BY <2>2, <1>3, <1>4
  <2> DEFINE y == m[z2].rptr
  <2>4. y \in on /\ lv[y] = l + 1 /\ at[z2] < at[y] /\ y # head(l + 1)
    BY <2>2, Neighbours, Addresses
  <2>5. ASSUME y \in Nodes PROVE FALSE
    <3>1. y # z /\ lv[y] > 0
      <4>1. y # x /\ y # NULL
        BY <2>2, <2>4, <1>1
      <4> QED BY <4>1, <2>2, <2>4
    <3>2. /\ m[y].dptr \in on /\ lv[m[y].dptr] = l /\ at[m[y].dptr] = at[y] /\ m[y].dptr \in Nodes
      <4>1. y \in on /\ lv[y] > 0 /\ y # z
        BY <2>4, <3>1
      <4>2. /\ m[y].dptr \in on /\ lv[m[y].dptr] = lv[y] - 1 /\ at[m[y].dptr] = at[y]
            /\ y \in Nodes <=> m[y].dptr \in Nodes
        BY <4>1 DEF Shape, Downs
      <4> QED BY <4>2, <2>2, <2>4, <2>5
    <3>3. at[m[y].dptr] < at[tail(0)] /\ at[tail(0)] = at[tail(l)]
      BY <3>2 DEF Shape, Ends
    <3>4. at[m[y].dptr] <= at[x] \/ at[tail(l)] <= at[m[y].dptr]
      BY <3>2, <1>5
    <3>5. at[m[y].dptr] \in Nat /\ at[x] \in Nat /\ at[tail(l)] \in Nat
      BY <3>2, <1>1, <1>2
    <3> QED BY <2>2, <2>4, <3>2, <3>3, <3>4, <3>5
  <2> QED BY <2>3, <2>4, <2>5, <1>1
<1>10. Typed(on2, lv, at, m2)
  BY <1>1 DEF Typed, Unlinked
<1>11. Ends(on2, lv, at, m2)
  <2>1. ASSUME NEW k \in Lvls
        PROVE  /\ head(k) \in on2 /\ lv[head(k)] = k /\ at[head(k)] = 0
               /\ m2[head(k)].rank = MAX_RANK /\ m2[head(k)].uptr # NULL
               /\ tail(k) \in on2 /\ lv[tail(k)] = k /\ at[tail(k)] = at[tail(0)]
               /\ m2[tail(k)].rank = 0 /\ m2[tail(k)].uptr # NULL /\ m2[tail(k)].rptr = NULL
    <3>1. /\ at[head(k)] = 0 /\ m[head(k)].rank = MAX_RANK /\ m[head(k)].uptr # NULL
          /\ at[tail(k)] = at[tail(0)] /\ m[tail(k)].rank = 0 /\ m[tail(k)].uptr # NULL
          /\ m[tail(k)].rptr = NULL
      BY DEF Shape, Ends
    <3>2. tail(k) # q
      BY <1>2, <1>3
    <3> QED BY <1>2, <1>4, <3>1, <3>2
  <2>2. 0 < at[tail(0)] /\ \A y \in on2 \cap Nodes : 0 < at[y] /\ at[y] < at[tail(0)]
    BY DEF Shape, Ends
  <2> QED BY <2>1, <2>2 DEF Ends
<1>12. Rights(on2, lv, at, m2)
  <2>1. ASSUME NEW y \in on2, y # tail(lv[y])
        PROVE  /\ m2[y].rptr \in on2 /\ lv[m2[y].rptr] = lv[y] /\ at[y] < at[m2[y].rptr]
               /\ m2[m2[y].rptr].lptr = y
               /\ \A w \in on2 : lv[w] = lv[y] => at[w] <= at[y] \/ at[m2[y].rptr] <= at[w]
    <3>1. CASE y = q
      <4>1. m2[y].rptr = tail(l) /\ tail(l) \in on2 /\ lv[tail(l)] = l /\ m2[tail(l)].lptr = y
        BY <3>1, <1>2, <1>3, <1>4
      <4>2. at[x] < at[tail(l)]
        BY DEF Shape, Ends
      <4>3. \A w \in on : lv[w] = lv[y] => at[w] <= at[y] \/ at[x] <= at[w]
        BY <3>1, <1>3 DEF Shape, Rights
      <4>4. \A w \in on2 : lv[w] = l => at[w] # at[x]
        BY DEF Shape, Alone
      <4>5. at[tail(l)] \in Nat /\ at[x] \in Nat /\ at[q] \in Nat
        BY <1>1, <1>2, <1>3
      <4>6. ASSUME NEW w \in on2, lv[w] = lv[y]
            PROVE  at[w] <= at[y] \/ at[tail(l)] <= at[w]
        <5>1. at[w] \in Nat /\ lv[w] = l /\ at[w] # at[x]
          BY <3>1, <4>4, <4>6, <1>1, <1>3
        <5>2. at[w] <= at[y] \/ at[x] <= at[w]
          BY <4>3, <4>6
        <5>3. at[w] <= at[x] \/ at[tail(l)] <= at[w]
          BY <5>1, <1>5
        <5> QED BY <5>1, <5>2, <5>3, <4>5, <3>1
      <4> QED BY <3>1, <4>1, <4>2, <4>5, <4>6, <1>3
    <3>2. CASE y # q
      <4>1. m2[y].rptr = m[y].rptr /\ m[y].rptr # x /\ m[y].rptr # tail(l)
        BY <2>1, <3>2, <1>4, <1>6, <1>7
      <4>2. /\ m[y].rptr \in on /\ lv[m[y].rptr] = lv[y] /\ at[y] < at[m[y].rptr]
            /\ m[m[y].rptr].lptr = y
            /\ \A w \in on : lv[w] = lv[y] => at[w] <= at[y] \/ at[m[y].rptr] <= at[w]
        BY <2>1 DEF Shape, Rights
      <4> QED BY <4>1, <4>2, <1>4
    <3> QED BY <3>1, <3>2
  <2> QED BY <2>1 DEF Rights
<1>13. Lefts(on2, lv, m2)
  <2>1. ASSUME NEW y \in on2, y # head(lv[y])
        PROVE  /\ m2[y].lptr \in on2 /\ lv[m2[y].lptr] = lv[y] /\ m2[m2[y].lptr].rptr = y
               /\ m2[y].lptr # tail(lv[y])
    <3>1. CASE y = tail(l)
      BY <3>1, <1>2, <1>3, <1>4
    <3>2. CASE y # tail(l)
      <4>1. /\ m[y].lptr \in on /\ lv[m[y].lptr] = lv[y] /\ m[m[y].lptr].rptr = y
            /\ m[y].lptr # tail(lv[y]) /\ m2[y].lptr = m[y].lptr
        BY <2>1, <3>2, <1>4 DEF Shape, Lefts
      <4>2. m[y].lptr # x /\ m[y].lptr # q
        BY <4>1, <3>2, <1>3, <2>1
      <4> QED BY <4>1, <4>2, <1>4
    <3> QED BY <3>1, <3>2
  <2> QED BY <2>1 DEF Lefts
<1>14. Alone(on2, lv, at)
  BY DEF Shape, Alone
<1>15. Downs(on2, lv, at, m2, z2)
  <2>1. ASSUME NEW y \in on2, lv[y] > 0, y # z2
        PROVE  /\ m2[y].dptr \in on2 /\ lv[m2[y].dptr] = lv[y] - 1 /\ at[m2[y].dptr] = at[y]
               /\ m2[m2[y].dptr].rank = m2[y].rank /\ m2[m2[y].dptr].uptr = y
               /\ y \in Nodes <=> m2[y].dptr \in Nodes
    <3>1. y # z
      BY <2>1, <1>1
    <3>2. /\ m[y].dptr \in on /\ lv[m[y].dptr] = lv[y] - 1 /\ at[m[y].dptr] = at[y]
          /\ m[m[y].dptr].rank = m[y].rank /\ m[m[y].dptr].uptr = y
          /\ y \in Nodes <=> m[y].dptr \in Nodes
      BY <2>1, <3>1 DEF Shape, Downs
    <3>3. m[y].dptr # x
      BY <2>1, <3>2
    <3> QED BY <3>2, <3>3, <1>4
  <2> QED BY <2>1 DEF Downs
<1>16. Ups(on2, lv, m2, z2)
  <2>1. ASSUME NEW y \in on2 \cap Nodes, m2[y].uptr # NULL
        PROVE  /\ m2[y].uptr \in on2 \cap Nodes /\ m2[y].uptr # z2
               /\ lv[m2[y].uptr] = lv[y] + 1 /\ m2[m2[y].uptr].dptr = y
    <3>1. /\ m[y].uptr \in on \cap Nodes /\ m[y].uptr # z
          /\ lv[m[y].uptr] = lv[y] + 1 /\ m[m[y].uptr].dptr = y /\ m2[y].uptr = m[y].uptr
      BY <2>1, <1>4 DEF Shape, Ups
    <3>2. m[y].uptr # x
      BY <3>1, <1>1
    <3>3. m[y].uptr # z2
      BY <3>1, <1>8, <1>1
    <3> QED BY <3>1, <3>2, <3>3, <1>4
  <2> QED BY <2>1 DEF Ups
<1>17. Sorted(on2, lv, at, m2)
  BY <1>4 DEF Shape, Sorted
<1>18. Gaps(on2, m2)
  <2>1. SUFFICES ASSUME NEW y \in on2, Un3(m2, y), Un(m2, m2[m2[m2[y].rptr].rptr].rptr)
                 PROVE  FALSE
    BY DEF Gaps
  <2>2. ASSUME NEW w \in on2, Un(m2, w), Un(m2, m2[w].rptr)
        PROVE  /\ Un(m, w) /\ m2[w].rptr = m[w].rptr /\ m[w].rptr \in on2
    <3>1. w # q
      BY <2>2, <1>2, <1>4 DEF Un, Shape, Ends
    <3>2. w # tail(lv[w])
      BY <2>2, <1>1, <1>2, <1>4 DEF Un, Shape, Ends
    <3>3. m2[w].rptr \in on2
      BY <3>2, <1>12 DEF Rights
    <3> QED BY <2>2, <3>1, <3>3, <1>4 DEF Un
  <2> DEFINE y1 == m2[y].rptr
             y2 == m2[y1].rptr
             y3 == m2[y2].rptr
  <2>3. Un(m2, y) /\ Un(m2, y1) /\ Un(m2, y2) /\ Un(m2, y3)
    BY <2>1 DEF Un3
  <2>4. Un(m, y) /\ y1 = m[y].rptr /\ y1 \in on2
    BY <2>2, <2>3
  <2>5. Un(m, y1) /\ y2 = m[y1].rptr /\ y2 \in on2
    BY <2>2, <2>3, <2>4
  <2>6. Un(m, y2) /\ y3 = m[y2].rptr /\ y3 \in on2
    BY <2>2, <2>3, <2>5
  <2>7. Un(m, y3)
    BY <2>3, <2>6, <1>4 DEF Un
  <2> HIDE DEF y1, y2, y3
  <2> QED BY <2>4, <2>5, <2>6, <2>7 DEF Shape, Gaps, Un3
<1>19. Spread(on2, m2)
  <2>1. ASSUME NEW y \in on2 \cap Nodes, m2[y].uptr # NULL
        PROVE  m2[y].lptr \in Nodes /\ Un(m2, m2[y].lptr)
    <3>0. y # tail(l) /\ y # head(lv[y])
      BY <1>1, Addresses
    <3>1. /\ m2[y].lptr = m[y].lptr /\ m[y].lptr \in Nodes /\ Un(m, m[y].lptr)
      BY <2>1, <3>0, <1>4 DEF Shape, Spread
    <3>2. m2[y].lptr \in on2
      BY <2>1, <3>0, <1>13 DEF Lefts
    <3> QED BY <3>1, <3>2, <1>4 DEF Un
  <2> QED BY <2>1 DEF Spread
<1>20. Labels(on2, lv, m2)
  BY <1>4 DEF Shape, Labels
<1>21. m2[tail(l)].lptr = q /\ m2[q].rptr = tail(l)
  BY <1>2, <1>3, <1>4
<1> QED BY <1>3, <1>8, <1>9, <1>10, <1>11, <1>12, <1>13, <1>14, <1>15, <1>16, <1>17, <1>18,
           <1>19, <1>20, <1>21 DEF Shape

-----------------------------------------------------------------------------
(* Places, and the number of nodes on a level.                             *)

(* What is written to a node that is not linked changes nothing. *)
LEMMA FrameShape ==
  ASSUME NEW on, NEW lv, NEW at, NEW m, NEW z, Shape(on, lv, at, m, z),
         NEW m2 \in [Addr -> Node], \A x \in on : m2[x] = m[x]
  PROVE  Shape(on, lv, at, m2, z)
<1>1. Typed(on, lv, at, m2)
  BY DEF Shape, Typed
<1>2. Ends(on, lv, at, m2)
  BY DEF Shape, Ends
<1>3. Rights(on, lv, at, m2)
  BY DEF Shape, Rights
<1>4. Lefts(on, lv, m2)
  BY DEF Shape, Lefts
<1>5. Downs(on, lv, at, m2, z)
  BY DEF Shape, Downs
<1>6. Ups(on, lv, m2, z)
  BY DEF Shape, Ups
<1>7. Sorted(on, lv, at, m2)
  BY DEF Shape, Sorted
<1>8. Spread(on, m2)
  <2>1. SUFFICES ASSUME NEW x \in on, x \in Nodes, m2[x].uptr # NULL
                 PROVE  m2[x].lptr \in Nodes /\ Un(m2, m2[x].lptr)
    BY DEF Spread
  <2>2. x # head(lv[x])
    BY <2>1, Addresses DEF Shape, Typed
  <2>3. m[x].lptr \in on
    BY <2>2 DEF Shape, Lefts
  <2>4. m[x].lptr \in Nodes /\ Un(m, m[x].lptr)
    BY <2>1 DEF Shape, Spread
  <2> QED BY <2>3, <2>4 DEF Un
<1>9. Labels(on, lv, m2)
  BY DEF Shape, Labels
<1>10. Gaps(on, m2)
  <2>1. ASSUME NEW x \in on, Un(m, x) PROVE m[x].rptr \in on
    <3>1. x # tail(lv[x])
      BY <2>1 DEF Un, Shape, Ends, Typed
    <3> QED BY <3>1 DEF Shape, Rights
  <2>2. SUFFICES ASSUME NEW y \in on, Un3(m2, y), Un(m2, m2[m2[m2[y].rptr].rptr].rptr)
                 PROVE  FALSE
    BY DEF Gaps
  <2> DEFINE y1 == m2[y].rptr
             y2 == m2[y1].rptr
             y3 == m2[y2].rptr
  <2>3. Un(m2, y) /\ Un(m2, y1) /\ Un(m2, y2) /\ Un(m2, y3)
    BY <2>2 DEF Un3
  <2>4. Un(m, y) /\ y1 = m[y].rptr /\ y1 \in on
    BY <2>1, <2>3 DEF Un
  <2>5. Un(m, y1) /\ y2 = m[y1].rptr /\ y2 \in on
    BY <2>1, <2>3, <2>4 DEF Un
  <2>6. Un(m, y2) /\ y3 = m[y2].rptr /\ y3 \in on
    BY <2>1, <2>3, <2>5 DEF Un
  <2>7. Un(m, y3)
    BY <2>3, <2>6 DEF Un
  <2> HIDE DEF y1, y2, y3
  <2> QED BY <2>4, <2>5, <2>6, <2>7 DEF Shape, Gaps, Un3
<1> QED BY <1>1, <1>2, <1>3, <1>4, <1>5, <1>6, <1>7, <1>8, <1>9, <1>10 DEF Shape

(* Places are only compared: between any two there can be one more. *)
LEMMA ScaleShape ==
  ASSUME NEW on, NEW lv, NEW at, NEW m, NEW z, Shape(on, lv, at, m, z),
         NEW at2, at2 = [x \in Addr |-> 2 * at[x]]
  PROVE  Shape(on, lv, at2, m, z)
<1>1. \A x \in on : x \in Addr /\ at2[x] = 2 * at[x] /\ at[x] \in Nat
  BY Addresses DEF Shape, Typed
<1>2. \A x, y \in on : /\ at2[x] < at2[y] <=> at[x] < at[y]
                       /\ at2[x] <= at2[y] <=> at[x] <= at[y]
                       /\ at2[x] = at2[y] <=> at[x] = at[y]
  BY <1>1
<1>3. Typed(on, lv, at2, m)
  BY DEF Shape, Typed
<1>4. Ends(on, lv, at2, m)
  BY <1>1, <1>2, Addresses DEF Shape, Ends
<1>5. Rights(on, lv, at2, m)
  BY <1>2 DEF Shape, Rights
<1>6. Alone(on, lv, at2)
  BY <1>2 DEF Shape, Alone
<1>7. Downs(on, lv, at2, m, z)
  BY <1>2 DEF Shape, Downs
<1>8. Sorted(on, lv, at2, m)
  BY <1>2 DEF Shape, Sorted
<1> QED BY <1>3, <1>4, <1>5, <1>6, <1>7, <1>8 DEF Shape

-----------------------------------------------------------------------------

(* The nodes of level k.                                                   *)
Level(on, lv, k) == {x \in on \cap Nodes : lv[x] = k}

(* A level has no more nodes than there are addresses for them.            *)
LEMMA LevelsFinite ==
  ASSUME NEW on, NEW lv, NEW k
  PROVE  /\ IsFiniteSet(Level(on, lv, k)) /\ Cardinality(Level(on, lv, k)) \in Nat
         /\ Cardinality(Level(on, lv, k)) <= MAX_SIZE - 1 - 2 * NUM_LVLS
         /\ IsFiniteSet(Nodes) /\ Cardinality(Nodes) = MAX_SIZE - 1 - 2 * NUM_LVLS
<1>1. /\ 2 * NUM_LVLS \in Int /\ MAX_SIZE - 2 \in Int /\ ~(2 * NUM_LVLS > MAX_SIZE - 2)
      /\ (MAX_SIZE - 2) - 2 * NUM_LVLS + 1 = MAX_SIZE - 1 - 2 * NUM_LVLS
  BY Addresses
<1>2. IsFiniteSet(Nodes) /\ Cardinality(Nodes) = MAX_SIZE - 1 - 2 * NUM_LVLS
  BY <1>1, FS_Interval DEF Nodes
<1>3. Level(on, lv, k) \in SUBSET Nodes
  BY DEF Level
<1> QED BY <1>2, <1>3, FS_Subset, FS_CardinalityType

(* Every level has at most half as many nodes as the one below: the nodes  *)
(* under it have neighbours on the left that carry nothing.                *)
LEMMA Halved ==
  ASSUME NEW on, NEW lv, NEW at, NEW m, Shape(on, lv, at, m, NULL),
         NEW k \in Nat, k + 1 \in Lvls
  PROVE  2 * Cardinality(Level(on, lv, k + 1)) <= Cardinality(Level(on, lv, k))
<1> DEFINE U == Level(on, lv, k + 1)
           L == Level(on, lv, k)
           f == [x \in U |-> m[x].dptr]
           g == [x \in U |-> m[m[x].dptr].lptr]
           D == {f[x] : x \in U}
           E == {g[x] : x \in U}
<1>1. ASSUME NEW x \in U
      PROVE  /\ m[x].dptr \in L /\ m[m[x].dptr].uptr = x /\ ~Un(m, m[x].dptr)
             /\ m[m[x].dptr].lptr \in L /\ Un(m, m[m[x].dptr].lptr)
             /\ m[m[m[x].dptr].lptr].rptr = m[x].dptr
  <2>1. x \in on /\ x \in Nodes /\ lv[x] = k + 1 /\ lv[x] > 0 /\ x # NULL
    BY Addresses DEF Level
  <2>2. /\ m[x].dptr \in on /\ lv[m[x].dptr] = k /\ m[x].dptr \in Nodes /\ m[m[x].dptr].uptr = x
    BY <2>1 DEF Shape, Downs
  <2>3. m[m[x].dptr].lptr \in Nodes /\ Un(m, m[m[x].dptr].lptr)
    BY <2>1, <2>2 DEF Shape, Spread
  <2>4. m[x].dptr # head(lv[m[x].dptr])
    <3>1. k \in Lvls
      BY Addresses DEF Lvls
    <3> QED BY <3>1, <2>2, Addresses
  <2>5. /\ m[m[x].dptr].lptr \in on /\ lv[m[m[x].dptr].lptr] = k
        /\ m[m[m[x].dptr].lptr].rptr = m[x].dptr
    BY <2>2, <2>4 DEF Shape, Lefts
  <2> QED BY <2>1, <2>2, <2>3, <2>5 DEF Level, Un
<1>2. IsFiniteSet(U) /\ IsFiniteSet(L) /\ Cardinality(U) \in Nat /\ Cardinality(L) \in Nat
  BY LevelsFinite
<1> HIDE DEF U, L
<1>3. \A x \in U : f[x] = m[x].dptr /\ g[x] = m[m[x].dptr].lptr
  OBVIOUS
<1>4. IsFiniteSet(D) /\ Cardinality(D) = Cardinality(U)
  <2>1. f \in [U -> D] /\ \A x, y \in U : f[x] = f[y] => x = y
    BY <1>1
  <2>2. \A d \in D : \E x \in U : f[x] = d
    OBVIOUS
  <2> HIDE DEF f, D
  <2>3. f \in Bijection(U, D)
    BY <2>1, <2>2 DEF Bijection, Injection, Surjection, IsInjective
  <2>4. ExistsBijection(U, D)
    BY <2>3 DEF ExistsBijection
  <2> QED BY <2>4, <1>2, FS_Bijection
<1>5. IsFiniteSet(E) /\ Cardinality(E) = Cardinality(U)
  <2>1. g \in [U -> E] /\ \A x, y \in U : g[x] = g[y] => x = y
    BY <1>1
  <2>2. \A d \in E : \E x \in U : g[x] = d
    OBVIOUS
  <2> HIDE DEF g, E
  <2>3. g \in Bijection(U, E)
    BY <2>1, <2>2 DEF Bijection, Injection, Surjection, IsInjective
  <2>4. ExistsBijection(U, E)
    BY <2>3 DEF ExistsBijection
  <2> QED BY <2>4, <1>2, FS_Bijection
<1>6. D \cap E = {} /\ D \cup E \in SUBSET L
  <2>1. \A d \in D : d \in L /\ ~Un(m, d)
    BY <1>1
  <2>2. \A d \in E : d \in L /\ Un(m, d)
    BY <1>1
  <2> HIDE DEF D, E
  <2> QED BY <2>1, <2>2
<1> HIDE DEF D, E
<1>7. Cardinality(D \cup E) = Cardinality(D) + Cardinality(E) - Cardinality(D \cap E)
  BY <1>4, <1>5, FS_Union
<1>8. Cardinality(D \cap E) = 0
  BY <1>6, FS_EmptySet
<1>9. Cardinality(D \cup E) <= Cardinality(L)
  BY <1>2, <1>6, FS_Subset
<1>10. 2 * Cardinality(U) <= Cardinality(L)
  BY <1>2, <1>4, <1>5, <1>7, <1>8, <1>9
<1> QED BY <1>10 DEF U, L

(* The memory is too small for two nodes on the topmost level beside the   *)
(* nodes that an insert may need.                                          *)
LEMMA TopLevel ==
  ASSUME NEW on, NEW lv, NEW at, NEW m, Shape(on, lv, at, m, NULL),
         Room(on, NUM_LVLS + 1),
         NEW x \in on \cap Nodes, NEW y \in on \cap Nodes, x # y,
         lv[x] = NUM_LVLS - 1, lv[y] = NUM_LVLS - 1
  PROVE  FALSE
<1> DEFINE N == NUM_LVLS
           C(k) == Cardinality(Level(on, lv, k))
           S == {j \in Nat : j < N => pow2[j + 1] <= C(N - 1 - j)}
<1>0. N \in Nat /\ N > 0 /\ MAX_SIZE \in Nat
  BY Addresses
<1>1. \A k : C(k) \in Nat /\ C(k) <= MAX_SIZE - 1 - 2 * N
  BY LevelsFinite
<1>2. 2 <= C(N - 1)
  <2>1. {x, y} \in SUBSET Level(on, lv, N - 1)
    BY DEF Level
  <2>2. IsFiniteSet({x}) /\ Cardinality({x}) = 1
    BY FS_Singleton
  <2>3. Cardinality({x} \cup {y}) = 2
    <3>1. y \notin {x}
      OBVIOUS
    <3> QED BY <3>1, <2>2, FS_AddElement
  <2>4. {x, y} = {x} \cup {y}
    OBVIOUS
  <2>5. Cardinality({x, y}) <= C(N - 1)
    BY <2>1, LevelsFinite, FS_Subset
  <2> QED BY <2>3, <2>4, <2>5
<1>3. 0 \in S
  <2>1. pow2[0 + 1] = 2 /\ N - 1 - 0 = N - 1
    BY Pow2, <1>0
  <2> QED BY <1>2, <2>1
<1>4. ASSUME NEW j \in Nat, j \in S
      PROVE  j + 1 \in S
  <2>1. SUFFICES ASSUME j + 1 < N PROVE pow2[(j + 1) + 1] <= C(N - 1 - (j + 1))
    OBVIOUS
  <2>2. pow2[j + 1] <= C(N - 1 - j)
    BY <1>4, <2>1, <1>0
  <2>3. /\ N - 1 - (j + 1) \in Nat /\ (N - 1 - (j + 1)) + 1 = N - 1 - j /\ N - 1 - j \in Lvls
    BY <1>0, <2>1 DEF Lvls
  <2>4. 2 * C(N - 1 - j) <= C(N - 1 - (j + 1))
    <3> HIDE DEF N
    <3> QED BY <2>3, Halved
  <2>5. pow2[(j + 1) + 1] = 2 * pow2[j + 1] /\ pow2[j + 1] \in Nat
    BY Pow2
  <2> HIDE DEF C
  <2> QED BY <1>1, <2>2, <2>4, <2>5
<1>5. N - 1 \in S
  <2> HIDE DEF S
  <2>1. Nat \subseteq S
    BY <1>3, <1>4, Induction
  <2> QED BY <1>0, <2>1
<1>6. N - 1 \in Nat /\ N - 1 < N /\ (N - 1) + 1 = N /\ N - 1 - (N - 1) = 0
  BY <1>0
<1> DEFINE j1 == N - 1
<1>7. pow2[j1 + 1] <= C(N - 1 - j1)
  <2> HIDE DEF j1, C
  <2>1. j1 \in S /\ j1 < N
    BY <1>5, <1>6 DEF j1
  <2> QED BY <2>1
<1>8. pow2[N] <= C(0)
  BY <1>6, <1>7
<1>9. C(0) \in Nat /\ C(0) <= MAX_SIZE - 1 - 2 * N - (N + 1)
  <2>1. IsFiniteSet(Nodes) /\ Cardinality(Nodes) = MAX_SIZE - 1 - 2 * N
    BY LevelsFinite
  <2>2. /\ Cardinality(Nodes \ on) = Cardinality(Nodes) - Cardinality(Nodes \cap on)
        /\ Cardinality(Nodes \ on) \in Nat
    BY <2>1, FS_Difference, FS_Subset, FS_CardinalityType
  <2>3. Nodes \cap on \in SUBSET Nodes /\ Level(on, lv, 0) \in SUBSET (Nodes \cap on)
    BY DEF Level
  <2>4. /\ IsFiniteSet(Nodes \cap on) /\ Cardinality(Nodes \cap on) \in Nat
        /\ C(0) <= Cardinality(Nodes \cap on)
    BY <2>1, <2>3, FS_Subset, FS_CardinalityType
  <2>5. Cardinality(Nodes \ on) >= N + 1
    BY DEF Room
  <2> HIDE DEF C, N
  <2> QED BY <1>0, <1>1, <2>1, <2>2, <2>4, <2>5
<1>10. MAX_SIZE <= pow2[N] + 3 * N + 1 /\ pow2[N] \in Nat
  BY <1>0, Pow2, LvlsSuffice
<1> HIDE DEF C
<1> QED BY <1>0, <1>8, <1>9, <1>10

-----------------------------------------------------------------------------
(* Walks along a level.                                                    *)

(* The sequences a walk can be.                                            *)
Sequences1 == {w \in Seq(Addr) : Len(w) >= 1}

(* A walk grows by the node right of its last one, or has ended.           *)
LEMMA GrownTyped ==
  ASSUME mem \in [Addr -> Node], NEW w \in Sequences1
  PROVE  /\ Grown(w) \in Sequences1
         /\ LET x == mem[w[Len(w)]].rptr
            IN  IF x = NULL THEN Grown(w) = w
                ELSE /\ Len(Grown(w)) = Len(w) + 1 /\ Grown(w)[Len(w) + 1] = x
                     /\ \A i \in 1 .. Len(w) : Grown(w)[i] = w[i]
<1> DEFINE x == mem[w[Len(w)]].rptr
<1>1. w \in Seq(Addr) /\ Len(w) \in Nat /\ Len(w) >= 1
  BY DEF Sequences1
<1>2. w[Len(w)] \in Addr
  BY <1>1
<1>3. x \in Addr
  BY <1>2 DEF Node
<1>4. Grown(w) = IF x = NULL THEN w ELSE Append(w, x)
  BY DEF Grown
<1> HIDE DEF x
<1>5. /\ Append(w, x) \in Seq(Addr) /\ Len(Append(w, x)) = Len(w) + 1
      /\ Append(w, x)[Len(w) + 1] = x
      /\ \A i \in 1 .. Len(w) : Append(w, x)[i] = w[i]
  BY <1>1, <1>3
<1>6. Grown(w) \in Sequences1
  BY <1>1, <1>4, <1>5 DEF Sequences1
<1>7. IF x = NULL THEN Grown(w) = w
      ELSE /\ Len(Grown(w)) = Len(w) + 1 /\ Grown(w)[Len(w) + 1] = x
           /\ \A i \in 1 .. Len(w) : Grown(w)[i] = w[i]
  BY <1>4, <1>5
<1> QED BY <1>6, <1>7 DEF x

(* The walks are what their recursive definition says. *)
LEMMA WalksDef ==
  ASSUME mem \in [Addr -> Node], NEW l \in Lvls
  PROVE  /\ Walks(l)[0] = <<head(l)>>
         /\ \A k \in Nat : Walks(l)[k] \in Sequences1 /\ Walks(l)[k + 1] = Grown(Walks(l)[k])
<1> DEFINE next == [p \in Nat \X Sequences1 |-> Grown(p[2])]
<1>1. next \in [Nat \X Sequences1 -> Sequences1]
  BY GrownTyped
<1>2. <<head(l)>> \in Sequences1
  BY Addresses DEF Sequences1
<1>3. \A p \in Nat \X Sequences1 : next[p] = Grown(p[2])
  OBVIOUS
<1> HIDE DEF next
<1>4. PICK f \in [Nat -> Sequences1] : Iterates(f, <<head(l)>>, next)
  BY <1>1, <1>2, Recursion
<1>5. ASSUME NEW n \in Nat
      PROVE  f[n + 1] = Grown(f[n])
  BY <1>3, <1>4 DEF Iterates
<1>6. ASSUME NEW n \in Nat
      PROVE  f[n] = IF n = 0 THEN <<head(l)>> ELSE Grown(f[n - 1])
  <2>1. CASE n = 0
    BY <1>4, <2>1 DEF Iterates
  <2>2. CASE n # 0
    <3>1. n - 1 \in Nat /\ (n - 1) + 1 = n
      BY <2>2
    <3> QED BY <3>1, <1>5, <2>2
  <2> QED BY <2>1, <2>2
<1>7. f = [n \in Nat |-> IF n = 0 THEN <<head(l)>> ELSE Grown(f[n - 1])]
  BY <1>6
<1>8. Walks(l) = [n \in Nat |-> IF n = 0 THEN <<head(l)>> ELSE Grown(Walks(l)[n - 1])]
  BY <1>7 DEF Walks
<1>9. Walks(l)[0] = <<head(l)>>
  BY <1>8
<1>10. ASSUME NEW n \in Nat
       PROVE  Walks(l)[n + 1] = Grown(Walks(l)[n])
  <2>1. n + 1 \in Nat /\ n + 1 # 0 /\ (n + 1) - 1 = n
    OBVIOUS
  <2> QED BY <2>1, <1>8
<1> DEFINE S == {n \in Nat : Walks(l)[n] \in Sequences1}
<1>11. 0 \in S
  BY <1>2, <1>9
<1>12. ASSUME NEW n \in Nat, n \in S PROVE n + 1 \in S
  BY <1>10, <1>12, GrownTyped
<1>13. Nat \subseteq S
  <2> HIDE DEF S
  <2> QED BY <1>11, <1>12, Induction
<1> QED BY <1>9, <1>10, <1>13

(* A walk from the head of level l: what it meets and what it has passed. *)
Walked(on, lv, at, l, w) ==
  /\ w \in Sequences1 /\ w[1] = head(l)
  /\ \A i \in 1 .. Len(w) : w[i] \in on /\ lv[w[i]] = l /\ at[w[i]] <= at[w[Len(w)]]
  /\ \A i \in 1 .. Len(w) - 1 : w[i] # tail(l) /\ w[i + 1] = mem[w[i]].rptr
  /\ \A i, j \in 1 .. Len(w) : i < j => at[w[i]] < at[w[j]]
  /\ \A x \in on : lv[x] = l /\ at[x] <= at[w[Len(w)]] => \E i \in 1 .. Len(w) : w[i] = x

(* A walk that has met everything it passed goes on doing so.              *)
LEMMA WalkStep ==
  ASSUME NEW on, NEW lv, NEW at, Shape(on, lv, at, mem, NULL),
         NEW l \in Lvls, NEW w, Walked(on, lv, at, l, w)
  PROVE  /\ Walked(on, lv, at, l, Grown(w))
         /\ (Grown(w) = w /\ w[Len(w)] = tail(l)) \/ Len(Grown(w)) = Len(w) + 1
<1> DEFINE n == Len(w)
           a == w[n]
           x == mem[a].rptr
           g == Grown(w)
<1>1. /\ mem \in [Addr -> Node] /\ on \subseteq 0 .. MAX_SIZE - 2
      /\ \A y \in on : at[y] \in Nat /\ y # NULL
  BY Addresses DEF Shape, Typed
<1>2. w \in Sequences1 /\ n \in Nat /\ n >= 1 /\ n \in 1 .. n /\ 1 \in 1 .. n
  BY DEF Walked, Sequences1
<1>3. a \in on /\ lv[a] = l
  BY <1>2 DEF Walked
<1>4. CASE a = tail(l)
  <2>1. x = NULL
    BY <1>4 DEF Shape, Ends
  <2>2. g = w
    BY <2>1, <1>1, <1>2, GrownTyped
  <2> QED BY <2>2, <1>4
<1>5. CASE a # tail(l)
  <2>1. x \in on /\ lv[x] = l /\ at[a] < at[x]
    BY <1>3, <1>5 DEF Shape, Rights
  <2>2. \A y \in on : lv[y] = l => at[y] <= at[a] \/ at[x] <= at[y]
    BY <1>3, <1>5 DEF Shape, Rights
  <2>3. x # NULL
    BY <1>1, <2>1
  <2>4. /\ g \in Sequences1 /\ Len(g) = n + 1 /\ g[n + 1] = x
        /\ \A i \in 1 .. n : g[i] = w[i]
    BY <2>3, <1>1, <1>2, GrownTyped
  <2> HIDE DEF g, x
  <2>5. g[1] = head(l)
    BY <2>4, <1>2 DEF Walked
  <2>6. \A i \in 1 .. n : w[i] \in on /\ lv[w[i]] = l /\ at[w[i]] <= at[a]
    BY DEF Walked
  <2>7. \A i \in 1 .. n + 1 : i \in 1 .. n \/ i = n + 1
    BY <1>2
  <2>8. \A i \in 1 .. n + 1 : g[i] \in on /\ lv[g[i]] = l /\ at[g[i]] <= at[x]
    <3>1. \A i \in 1 .. n : at[w[i]] <= at[x]
      <4>1. at[a] \in Nat /\ at[x] \in Nat
        BY <1>1, <1>3, <2>1
      <4>2. \A i \in 1 .. n : at[w[i]] \in Nat
        BY <1>1, <2>6
      <4> HIDE DEF a, n
      <4> QED BY <2>1, <2>6, <4>1, <4>2
    <3> QED BY <3>1, <1>1, <2>1, <2>4, <2>6, <2>7
  <2>9. \A i \in 1 .. (n + 1) - 1 : g[i] # tail(l) /\ g[i + 1] = mem[g[i]].rptr
    <3> SUFFICES ASSUME NEW i \in 1 .. n
                 PROVE  g[i] # tail(l) /\ g[i + 1] = mem[g[i]].rptr
      BY <1>2
    <3>1. CASE i = n
      BY <3>1, <2>4, <1>5 DEF x
    <3>2. CASE i # n
      <4>1. i \in 1 .. n - 1 /\ i + 1 \in 1 .. n
        BY <3>2, <1>2
      <4>2. w[i] # tail(l) /\ w[i + 1] = mem[w[i]].rptr
        BY <4>1 DEF Walked
      <4> QED BY <4>1, <4>2, <2>4
    <3> QED BY <3>1, <3>2
  <2>10. \A i, j \in 1 .. n + 1 : i < j => at[g[i]] < at[g[j]]
    <3> SUFFICES ASSUME NEW i \in 1 .. n + 1, NEW j \in 1 .. n + 1, i < j
                 PROVE  at[g[i]] < at[g[j]]
      OBVIOUS
    <3>1. i \in 1 .. n
      BY <1>2
    <3>2. CASE j = n + 1
      <4>1. at[w[i]] <= at[a] /\ at[w[i]] \in Nat /\ at[a] \in Nat /\ at[x] \in Nat
        BY <3>1, <2>6, <1>1, <1>3, <2>1
      <4> HIDE DEF a
      <4> QED BY <3>1, <3>2, <4>1, <2>1, <2>4
    <3>3. CASE j \in 1 .. n
      <4>1. at[w[i]] < at[w[j]]
        BY <3>1, <3>3 DEF Walked
      <4> QED BY <4>1, <3>1, <3>3, <2>4
    <3> QED BY <3>2, <3>3, <2>7
  <2>11. ASSUME NEW y \in on, lv[y] = l, at[y] <= at[x]
         PROVE  \E i \in 1 .. n + 1 : g[i] = y
    <3>1. CASE at[y] <= at[a]
      <4>1. PICK i \in 1 .. n : w[i] = y
        BY <3>1, <2>11 DEF Walked
      <4> QED BY <4>1, <2>4, <1>2
    <3>2. CASE at[x] <= at[y]
      <4>1. at[x] = at[y]
        BY <3>2, <2>11, <1>1, <2>1
      <4>2. y = x
        BY <4>1, <2>1, <2>11 DEF Shape, Alone
      <4>3. n + 1 \in 1 .. n + 1
        BY <1>2
      <4> QED BY <4>2, <4>3, <2>4
    <3> QED BY <3>1, <3>2, <2>2, <2>11
  <2>12. Walked(on, lv, at, l, g)
    <3> HIDE DEF n, a
    <3> QED BY <2>4, <2>5, <2>8, <2>9, <2>10, <2>11 DEF Walked
  <2> QED BY <2>4, <2>12 DEF g
<1> QED BY <1>4, <1>5

(* After MAX_SIZE steps the walk along a level has come to its tail, and   *)
(* has met every node of the level.                                        *)
LEMMA WalkEnds ==
  ASSUME NEW on, NEW lv, NEW at, Shape(on, lv, at, mem, NULL), NEW l \in Lvls
  PROVE  /\ Walked(on, lv, at, l, Walk(l))
         /\ Walk(l)[Len(Walk(l))] = tail(l) /\ Len(Walk(l)) <= MAX_SIZE - 1
<1> DEFINE W(k) == Walks(l)[k]
           S == {k \in Nat : /\ Walked(on, lv, at, l, W(k))
                             /\ Len(W(k)) = k + 1 \/ W(k)[Len(W(k))] = tail(l)}
<1>1. mem \in [Addr -> Node] /\ on \subseteq 0 .. MAX_SIZE - 2 /\ MAX_SIZE \in Nat
      /\ \A y \in on : at[y] \in Nat
  BY Addresses DEF Shape, Typed
<1>2. W(0) = <<head(l)>> /\ \A k \in Nat : W(k + 1) = Grown(W(k)) /\ W(k) \in Sequences1
  BY <1>1, WalksDef
<1> HIDE DEF W
<1>3. 0 \in S
  <2>1. head(l) \in on /\ lv[head(l)] = l /\ at[head(l)] = 0
    BY DEF Shape, Ends
  <2> DEFINE w == <<head(l)>>
  <2>2. /\ w \in Sequences1 /\ Len(w) = 1 /\ w[1] = head(l)
        /\ \A i \in 1 .. 1 : i = 1
    BY <1>2
  <2>3. \A x \in on : lv[x] = l /\ at[x] <= 0 => x = head(l)
    <3> SUFFICES ASSUME NEW x \in on, lv[x] = l, at[x] <= 0 PROVE x = head(l)
      OBVIOUS
    <3>1. at[x] = 0
      BY <1>1
    <3> QED BY <2>1, <3>1 DEF Shape, Alone
  <2> HIDE DEF w
  <2>4. Walked(on, lv, at, l, w)
    BY <2>1, <2>2, <2>3 DEF Walked
  <2> QED BY <2>2, <2>4, <1>2 DEF w
<1>4. ASSUME NEW k \in Nat, k \in S
      PROVE  k + 1 \in S
  <2>1. Walked(on, lv, at, l, W(k)) /\ (Len(W(k)) = k + 1 \/ W(k)[Len(W(k))] = tail(l))
    BY <1>4
  <2>2. W(k + 1) = Grown(W(k))
    BY <1>2
  <2> DEFINE w == W(k)
             g == Grown(w)
  <2>3. /\ Walked(on, lv, at, l, g)
        /\ (g = w /\ w[Len(w)] = tail(l)) \/ Len(g) = Len(w) + 1
    BY <2>1, WalkStep
  <2>4. CASE w[Len(w)] = tail(l)
    <3>1. mem[w[Len(w)]].rptr = NULL
      BY <2>4 DEF Shape, Ends
    <3>2. g = w
      BY <3>1, <1>1, <1>2, GrownTyped
    <3> QED BY <2>2, <2>3, <2>4, <3>2
  <2>5. CASE w[Len(w)] # tail(l)
    <3>1. Len(g) = Len(w) + 1 /\ Len(w) = k + 1
      BY <2>1, <2>3, <2>5
    <3> QED BY <2>2, <2>3, <3>1
  <2> QED BY <2>4, <2>5
<1>5. MAX_SIZE \in S
  <2>1. Nat \subseteq S
    <3> HIDE DEF S
    <3> QED BY <1>3, <1>4, Induction
  <2> QED BY <2>1, <1>1
<1> DEFINE w == Walk(l)
           n == Len(w)
<1>6. w = W(MAX_SIZE)
  BY DEF Walk, W
<1>7. Walked(on, lv, at, l, w) /\ (n = MAX_SIZE + 1 \/ w[n] = tail(l))
  BY <1>5, <1>6
<1> HIDE DEF w
<1>8. w \in Seq(Addr) /\ n \in Nat
  BY <1>7 DEF Walked, Sequences1
<1>9. n <= MAX_SIZE - 1
  <2> DEFINE f == [i \in 1 .. n |-> w[i]]
             T == 0 .. MAX_SIZE - 2
  <2>1. \A i \in 1 .. n : w[i] \in on
    BY <1>7 DEF Walked
  <2>2. \A i, j \in 1 .. n : i < j => at[w[i]] < at[w[j]]
    BY <1>7 DEF Walked
  <2>3. \A i, j \in 1 .. n : w[i] = w[j] => i = j
    <3> SUFFICES ASSUME NEW i \in 1 .. n, NEW j \in 1 .. n, w[i] = w[j], i # j PROVE FALSE
      OBVIOUS
    <3>1. i < j \/ j < i
      BY <1>8
    <3>2. at[w[i]] < at[w[i]] /\ at[w[i]] \in Nat
      BY <3>1, <2>1, <2>2, <1>1
    <3> QED BY <3>2
  <2>4. f \in [1 .. n -> T] /\ \A i, j \in 1 .. n : f[i] = f[j] => i = j
    BY <2>1, <2>3, <1>1
  <2> HIDE DEF f
  <2>5. f \in Injection(1 .. n, T)
    BY <2>4 DEF Injection, IsInjective
  <2>6. IsFiniteSet(T) /\ Cardinality(T) = MAX_SIZE - 1
    <3>1. 0 \in Int /\ MAX_SIZE - 2 \in Int /\ ~(0 > MAX_SIZE - 2) /\ (MAX_SIZE - 2) - 0 + 1 = MAX_SIZE - 1
      BY Addresses
    <3> QED BY <3>1, FS_Interval
  <2>7. IsFiniteSet(1 .. n) /\ Cardinality(1 .. n) = n
    <3>1. CASE n = 0
      <4>1. 1 .. n = {}
        BY <3>1
      <4> QED BY <4>1, <3>1, FS_EmptySet
    <3>2. CASE n # 0
      <4>1. 1 \in Int /\ n \in Int /\ ~(1 > n) /\ n - 1 + 1 = n
        BY <1>8, <3>2
      <4> QED BY <4>1, FS_Interval
    <3> QED BY <3>1, <3>2
  <2> HIDE DEF T
  <2>8. Cardinality(1 .. n) <= Cardinality(T)
    BY <2>5, <2>6, FS_Injection
  <2> QED BY <2>6, <2>7, <2>8
<1>10. w[n] = tail(l)
  BY <1>1, <1>7, <1>8, <1>9
<1> QED BY <1>7, <1>9, <1>10 DEF w

(* What a walk meets is the level. *)
LEMMA WalkLevel ==
  ASSUME NEW on, NEW lv, NEW at, Shape(on, lv, at, mem, NULL), NEW l \in Lvls
  PROVE  Inner(l) = Level(on, lv, l)
<1> DEFINE w == Walk(l)
<1>1. Walked(on, lv, at, l, w) /\ w[Len(w)] = tail(l)
  BY WalkEnds
<1> HIDE DEF w
<1>2. w \in Seq(Addr) /\ DOMAIN w = 1 .. Len(w)
  BY <1>1 DEF Walked, Sequences1
<1>3. \A i \in 1 .. Len(w) : w[i] \in on /\ lv[w[i]] = l
  BY <1>1 DEF Walked
<1>4. ASSUME NEW x \in on, lv[x] = l
      PROVE  \E i \in 1 .. Len(w) : w[i] = x
  <2>1. at[tail(l)] = at[tail(0)] /\ 0 < at[tail(0)] /\ 0 \in Lvls
    BY Addresses DEF Shape, Ends
  <2>2. at[x] \in Nat /\ at[tail(0)] \in Nat
    BY <2>1, Addresses DEF Shape, Typed, Ends
  <2>3. at[x] <= at[tail(0)]
    <3>1. CASE x \in Nodes
      <4>1. at[x] < at[tail(0)]
        BY <3>1 DEF Shape, Ends
      <4> QED BY <4>1, <2>2
    <3>2. CASE x = head(l)
      <4>1. at[x] = 0
        BY <3>2 DEF Shape, Ends
      <4> QED BY <4>1, <2>2
    <3>3. CASE x = tail(l)
      BY <3>3, <2>1, <2>2
    <3> QED BY <3>1, <3>2, <3>3, <1>4 DEF Shape, Typed
  <2> QED BY <1>1, <1>4, <2>1, <2>3 DEF Walked
<1>5. OnLevel(l) = {x \in on : lv[x] = l}
  BY <1>2, <1>3, <1>4 DEF OnLevel, w
<1>6. \A x \in on : lv[x] = l => (x \in Nodes <=> x \notin {head(l), tail(l)})
  BY Addresses DEF Shape, Typed
<1> QED BY <1>5, <1>6 DEF Inner, Level

-----------------------------------------------------------------------------
(* The invariant gives what the runs check.                                *)

(* A list whose machines rest is whole: no node is being unlinked and the  *)
(* free list holds what it will hold.                                      *)
LEMMA SettledShape ==
  ASSUME NEW on, NEW lv, NEW at, ListInv(on, lv, at), Settled
  PROVE  /\ Shape(on, lv, at, mem, NULL) /\ Books(on, lv)
         /\ free = Nodes \ on /\ Cardinality(Lowest(on, lv)) = sl_num_entries
<1>1. Torn = NULL /\ ~Lower
  BY DEF Settled, Torn, Upper, Lower
<1>2. FreeNow = free
  BY DEF Settled, FreeNow
<1>3. sl_num_entries \in Nat
  BY DEF ListInv, Books
<1> QED BY <1>1, <1>2, <1>3 DEF ListInv, Books

(* The invariant gives ListSound.                                          *)
LEMMA InvSound ==
  ASSUME NEW on, NEW lv, NEW at, ListInv(on, lv, at)
  PROVE  ListSound
<1> SUFFICES ASSUME Settled
    PROVE  /\ \A l \in Lvls : LevelSound(l) /\ rptr_head[l] = mem[head(l)].rptr
           /\ StacksSound
           /\ UNION {Inner(l) : l \in Lvls} = Nodes \ free
           /\ \A l \in Lvls : l > curr_max_lvl => Inner(l) = {}
           /\ Cardinality(Inner(0)) = sl_num_entries
           /\ sl_num_entries > 0 => lptr_tail = mem[tail(0)].lptr
  BY DEF ListSound
<1>1. /\ Shape(on, lv, at, mem, NULL) /\ Books(on, lv)
      /\ free = Nodes \ on /\ Cardinality(Lowest(on, lv)) = sl_num_entries
  BY SettledShape
<1>2. \A l \in Lvls : Inner(l) = Level(on, lv, l)
  BY <1>1, WalkLevel
<1>3. \A l \in Lvls : rptr_head[l] = mem[head(l)].rptr
  BY <1>1 DEF Books
<1>4. ASSUME NEW l \in Lvls
      PROVE  LevelSound(l)
  <2> DEFINE w == Walk(l)
  <2>1. Walked(on, lv, at, l, w) /\ w[Len(w)] = tail(l) /\ Len(w) <= MAX_SIZE - 1
    BY <1>1, WalkEnds
  <2> HIDE DEF w
  <2>2. Len(w) \in Nat /\ Len(w) <= MAX_SIZE
    BY <2>1, Addresses DEF Walked, Sequences1
  <2>3. Inner(l) \subseteq Nodes \ free
    BY <1>1, <1>2 DEF Level
  <2>4. ASSUME NEW i \in 1 .. Len(w) - 1
        PROVE  mem[w[i]].rank >= mem[w[i + 1]].rank /\ mem[w[i + 1]].lptr = w[i]
    <3>1. i \in 1 .. Len(w) /\ i + 1 \in 1 .. Len(w) /\ i < i + 1
      BY <2>2
    <3>2. w[i] \in on /\ lv[w[i]] = l /\ w[i + 1] \in on /\ lv[w[i + 1]] = l
      BY <2>1, <3>1 DEF Walked
    <3>3. at[w[i]] < at[w[i + 1]]
      BY <2>1, <3>1 DEF Walked
    <3>4. w[i] # tail(l) /\ w[i + 1] = mem[w[i]].rptr
      BY <2>1 DEF Walked
    <3>5. mem[w[i]].rank >= mem[w[i + 1]].rank
      BY <1>1, <3>2, <3>3 DEF Shape, Sorted
    <3>6. mem[mem[w[i]].rptr].lptr = w[i]
      BY <1>1, <3>2, <3>4 DEF Shape, Rights
    <3> QED BY <3>4, <3>5, <3>6
  <2> QED BY <2>1, <2>2, <2>3, <2>4 DEF LevelSound, w
<1>5. StacksSound
  <2>1. ASSUME NEW l \in Lvls \ {0}, NEW x \in Inner(l)
        PROVE  /\ mem[x].dptr \in Inner(l - 1)
               /\ mem[mem[x].dptr].uptr = x /\ mem[mem[x].dptr].rank = mem[x].rank
    <3>1. l - 1 \in Lvls /\ l > 0
      BY Addresses DEF Lvls
    <3>2. x \in on /\ x \in Nodes /\ lv[x] = l /\ x # NULL
      BY <1>2, Addresses DEF Level
    <3>3. /\ mem[x].dptr \in on /\ lv[mem[x].dptr] = l - 1
          /\ mem[mem[x].dptr].rank = mem[x].rank /\ mem[mem[x].dptr].uptr = x
          /\ mem[x].dptr \in Nodes
      BY <1>1, <3>1, <3>2 DEF Shape, Downs
    <3> QED BY <3>1, <3>3, <1>2 DEF Level
  <2>2. ASSUME NEW l \in Lvls, NEW x \in Inner(l), mem[x].uptr # NULL
        PROVE  l + 1 \in Lvls /\ mem[x].uptr \in Inner(l + 1)
    <3>1. x \in on /\ x \in Nodes /\ lv[x] = l
      BY <1>2 DEF Level
    <3>2. mem[x].uptr \in on \cap Nodes /\ lv[mem[x].uptr] = l + 1
      BY <1>1, <2>2, <3>1 DEF Shape, Ups
    <3>3. l + 1 \in Lvls
      BY <1>1, <3>2 DEF Shape, Typed
    <3> QED BY <1>2, <3>2, <3>3 DEF Level
  <2> QED BY <2>1, <2>2 DEF StacksSound
<1>6. UNION {Inner(l) : l \in Lvls} = Nodes \ free
  <2>1. \A x \in on : lv[x] \in Lvls
    BY <1>1 DEF Shape, Typed
  <2>2. Nodes \ free = on \cap Nodes
    BY <1>1
  <2>3. \A x \in on \cap Nodes : \E l \in Lvls : x \in Inner(l)
    BY <1>2, <2>1 DEF Level
  <2>4. \A l \in Lvls : Inner(l) \subseteq on \cap Nodes
    BY <1>2 DEF Level
  <2> QED BY <2>2, <2>3, <2>4
<1>7. ASSUME NEW l \in Lvls, l > curr_max_lvl
      PROVE  Inner(l) = {}
  <2>1. SUFFICES ASSUME NEW x \in Inner(l) PROVE FALSE
    OBVIOUS
  <2>2. x \in on \cap Nodes /\ lv[x] = l
    BY <1>2 DEF Level
  <2>3. l <= curr_max_lvl /\ curr_max_lvl \in Nat /\ l \in Nat
    BY <1>1, <2>2, Addresses DEF Books
  <2> QED BY <1>7, <2>3
<1>8. Inner(0) = Lowest(on, lv)
  BY <1>2, Addresses DEF Level, Lowest
<1>9. sl_num_entries > 0 => lptr_tail = mem[tail(0)].lptr
  <2>1. SUFFICES ASSUME sl_num_entries > 0, mem[tail(0)].lptr = head(0) PROVE FALSE
    BY <1>1 DEF Books
  <2>2. 0 \in Lvls /\ tail(0) # head(0)
    BY Addresses
  <2>3. tail(0) \in on /\ lv[tail(0)] = 0 /\ head(0) \in on /\ lv[head(0)] = 0
    BY <1>1, <2>2 DEF Shape, Ends
  <2>4. mem[head(0)].rptr = tail(0)
    BY <1>1, <2>1, <2>2, <2>3 DEF Shape, Lefts
  <2>5. Lowest(on, lv) = {}
    <3>1. SUFFICES ASSUME NEW x \in on, x \in Nodes, lv[x] = 0 PROVE FALSE
      BY DEF Lowest
    <3>2. at[head(0)] = 0 /\ 0 < at[x] /\ at[x] < at[tail(0)] /\ at[x] \in Nat /\ at[tail(0)] \in Nat
      BY <1>1, <2>2, <2>3, <3>1, Addresses DEF Shape, Ends, Typed
    <3>3. at[x] <= at[head(0)] \/ at[tail(0)] <= at[x]
      BY <1>1, <2>2, <2>3, <2>4, <3>1 DEF Shape, Rights
    <3> QED BY <3>2, <3>3
  <2>6. Cardinality(Lowest(on, lv)) = 0
    BY <2>5, FS_EmptySet
  <2> QED BY <1>1, <2>1, <2>6
<1>10. Cardinality(Inner(0)) = sl_num_entries
  BY <1>1, <1>8
<1> QED BY <1>3, <1>4, <1>5, <1>6, <1>7, <1>9, <1>10

(* The invariant gives GapsBounded.                                        *)
LEMMA InvGaps ==
  ASSUME NEW on, NEW lv, NEW at, ListInv(on, lv, at)
  PROVE  GapsBounded
<1> USE ConsAssumption
<1> SUFFICES ASSUME Settled, NEW l \in Lvls, NEW i \in 1 .. Len(Walk(l)) - 3
             PROVE  \E j \in i .. i + 3 : Walk(l)[j] = head(l) \/ mem[Walk(l)[j]].uptr # NULL
  BY DEF GapsBounded
<1> DEFINE w == Walk(l)
<1>1. Shape(on, lv, at, mem, NULL)
  BY SettledShape
<1>2. Walked(on, lv, at, l, w)
  BY <1>1, WalkEnds
<1> HIDE DEF w
<1>3. Len(w) \in Nat /\ i \in 1 .. Len(w) - 3
  BY <1>2 DEF Walked, Sequences1, w
<1>4. /\ i \in 1 .. Len(w) /\ i \in 1 .. Len(w) - 1 /\ i + 1 \in 1 .. Len(w) - 1
      /\ i + 2 \in 1 .. Len(w) - 1
      /\ i \in i .. i + 3 /\ i + 1 \in i .. i + 3 /\ i + 2 \in i .. i + 3 /\ i + 3 \in i .. i + 3
      /\ (i + 1) + 1 = i + 2 /\ (i + 2) + 1 = i + 3
  BY <1>3
<1>5. /\ w[i] \in on
      /\ w[i + 1] = mem[w[i]].rptr /\ w[i + 2] = mem[w[i + 1]].rptr
      /\ w[i + 3] = mem[w[i + 2]].rptr
  BY <1>2, <1>4 DEF Walked
<1>6. ~ (/\ mem[w[i]].uptr = NULL /\ mem[w[i + 1]].uptr = NULL
         /\ mem[w[i + 2]].uptr = NULL /\ mem[w[i + 3]].uptr = NULL)
  BY <1>1, <1>5 DEF Shape, Gaps, Un3, Un
<1>7. \E j \in i .. i + 3 : mem[w[j]].uptr # NULL
  BY <1>4, <1>6
<1> QED BY <1>7 DEF w

-----------------------------------------------------------------------------
(* The client and the register in front of the list.                       *)

(* A cycle that the client makes. *)
Allowed(e, remove) ==
  /\ Cycle(e, remove) /\ remove \in BOOLEAN /\ e \in MaybeEntry
  /\ e # NoEntry => ~ins_busy /\ ~rmv_busy /\ ~insert_d1
  /\ remove => ~remove_last

(* Every step is a cycle that the client makes.                            *)
LEMMA NextAllowed ==
  ASSUME Next, RegisterHolds
  PROVE  \E e, remove : Allowed(e, remove)
<1>1. ASSUME NEW rank \in Ranks, MayInsert
      PROVE  /\ Numbered(rank) \in MaybeEntry
             /\ ~ins_busy /\ ~rmv_busy /\ ~insert_d1
  <2>1. Cardinality(Metas) \in Nat
    BY MetasAssumption, FS_CardinalityType
  <2>2. given + 1 \in Metas
    BY <1>1, <2>1, MetasAssumption DEF MayInsert, RegisterHolds
  <2>3. Numbered(rank) \in MaybeEntry
    BY <2>2 DEF Numbered, MaybeEntry, Entry
  <2> QED BY <1>1, <2>3 DEF MayInsert, Available, busy, int_busy
<1>2. CASE Remove
  BY <1>2 DEF Remove, MayRemove, Allowed, MaybeEntry
<1>3. CASE Idle
  BY <1>3 DEF Idle, Allowed, MaybeEntry
<1>4. ASSUME NEW rank \in Ranks, Insert(rank) \/ RemoveInsert(rank)
      PROVE  \E e, remove : Allowed(e, remove)
  <2>1. MayInsert /\ (\/ Cycle(Numbered(rank), FALSE)
                      \/ MayRemove /\ Cycle(Numbered(rank), TRUE))
    BY <1>4 DEF Insert, RemoveInsert
  <2>2. Numbered(rank) \in MaybeEntry /\ ~ins_busy /\ ~rmv_busy /\ ~insert_d1
    BY <1>1, <2>1
  <2> QED BY <2>1, <2>2 DEF Allowed, MayRemove
<1> QED BY <1>2, <1>3, <1>4 DEF Next

(* What a full register offers to pass on is an entry. *)
LEMMA MaxOutEntry ==
  ASSUME RegisterHolds, reg.full
  PROVE  MaxOut(reg) \in Entry
<1>1. reg.num_entries \in Nat /\ reg.num_entries >= REG_WIDTH - 1 /\ REG_WIDTH \in Nat /\ REG_WIDTH >= 2
  BY RegWidthAssumption DEF RegisterHolds
<1>2. 0 \in Slots /\ 0 < reg.num_entries
  BY <1>1 DEF Slots
<1>3. 0 \in Used(reg)
  BY <1>2 DEF RegisterHolds, Used
<1>4. SlotsTyped(reg)
  BY DEF SlotsTyped, RegisterHolds
<1>5. MaxIdx(reg) \in Used(reg)
  BY <1>3, <1>4, MaxIdxSelects
<1> QED BY <1>5 DEF MaxOut, Used, RegisterHolds, MaybeEntry

(* Every cycle keeps what is known of the register in front of the list.   *)
LEMMA RegisterStep ==
  ASSUME RegisterHolds, NEW e, NEW remove, Allowed(e, remove),
         rmv.state = "RMV_DEQ_NODE" => dout.rank \in Ranks /\ dout.meta \in Metas
  PROVE  RegisterHolds'
<1>1. /\ reg' = RegNext(reg, pr_in, remove)
      /\ pr_in' = IF rmv.state = "RMV_DEQ_NODE"
                  THEN [rank |-> dout.rank, meta |-> dout.meta]
                  ELSE IF Taken(e) /\ ToRegister(e) THEN e ELSE NoEntry
      /\ remove_last' = remove /\ given' = given + (IF e = NoEntry THEN 0 ELSE 1)
  BY DEF Allowed, Cycle, Port
<1>2. pr_in' \in MaybeEntry /\ given' \in Nat /\ remove_last' \in BOOLEAN
  BY <1>1 DEF RegisterHolds, Allowed, MaybeEntry, Entry
<1> DEFINE r == reg
           n == reg.num_entries
           Good(q) == /\ q.slots \in [Slots -> MaybeEntry] /\ q.insert_ltch \in MaybeEntry
                      /\ q.num_entries \in 0 .. REG_WIDTH
                      /\ \A i \in Slots : i < q.num_entries => q.slots[i] # NoEntry
                      /\ q.full => \/ q.num_entries = REG_WIDTH
                                   \/ /\ q.num_entries = REG_WIDTH - 1 /\ remove
                                      /\ q.insert_ltch # NoEntry
                      /\ q.valid_out \in BOOLEAN
<1>3. /\ n \in Nat /\ n <= REG_WIDTH /\ REG_WIDTH \in Nat /\ REG_WIDTH >= 2
      /\ r.slots \in [Slots -> MaybeEntry] /\ \A i \in Slots : i < n => r.slots[i] # NoEntry
      /\ pr_in \in MaybeEntry /\ r.insert_ltch \in MaybeEntry
      /\ remove \in BOOLEAN /\ r.valid_out \in BOOLEAN
  BY RegWidthAssumption DEF RegisterHolds, Allowed
<1>4. remove => n = REG_WIDTH \/ ~r.full
  BY DEF RegisterHolds, Allowed
<1>5. NoEntry \in MaybeEntry
  BY DEF MaybeEntry
<1>6. CASE remove /\ n > 0
  <2>1. RegNext(r, pr_in, remove) = AfterRemove(r, pr_in)
    BY <1>6 DEF RegNext
  <2>2. CloseGap(r) \in [Slots -> MaybeEntry]
    BY <1>3, <1>5 DEF CloseGap
  <2>3. ASSUME NEW i \in Slots, i < n - 1 PROVE CloseGap(r)[i] # NoEntry
    <3>1. i # n - 1 /\ i + 1 \in Slots /\ i + 1 < n /\ i < n
      BY <1>3, <2>3 DEF Slots
    <3> QED BY <3>1, <1>3 DEF CloseGap
  <2>4. ValidNext(r, pr_in, TRUE) \in BOOLEAN
    BY DEF ValidNext
  <2> DEFINE q == AfterRemove(r, pr_in)
  <2>5. /\ q.slots = CloseGap(r) /\ q.num_entries = n - 1 /\ q.insert_ltch = pr_in
        /\ q.valid_out = ValidNext(r, pr_in, TRUE)
        /\ q.full = IF pr_in = NoEntry THEN FALSE ELSE r.full
    BY DEF AfterRemove
  <2> HIDE DEF q
  <2>6. n - 1 \in 0 .. REG_WIDTH
    BY <1>3, <1>6
  <2>7. q.full => q.num_entries = REG_WIDTH - 1 /\ remove /\ q.insert_ltch # NoEntry
    BY <1>4, <1>6, <2>5
  <2>8. Good(q)
    BY <1>3, <2>2, <2>3, <2>4, <2>5, <2>6, <2>7
  <2> QED BY <1>1, <1>2, <2>1, <2>8 DEF RegisterHolds, q
<1>7. ASSUME NEW a \in Entry
      PROVE  Good(AfterInsert(r, a, pr_in, remove))
  <2>1. a \in MaybeEntry /\ a # NoEntry
    BY NoEntryAssumption DEF MaybeEntry
  <2>2. Stored(r, a) \in [Slots -> MaybeEntry]
    BY <1>3, <2>1 DEF Stored
  <2>3. ASSUME NEW i \in Slots, i < (IF n < REG_WIDTH THEN n + 1 ELSE n)
        PROVE  Stored(r, a)[i] # NoEntry
    <3>1. CASE n < REG_WIDTH
      <4>1. i < n \/ i = n
        BY <1>3, <2>3, <3>1 DEF Slots
      <4> QED BY <4>1, <3>1, <1>3, <2>1 DEF Stored
    <3>2. CASE ~(n < REG_WIDTH)
      BY <3>2, <1>3, <2>1, <2>3 DEF Stored
    <3> QED BY <3>1, <3>2
  <2>4. ValidNext(r, pr_in, remove) \in BOOLEAN
    BY DEF ValidNext
  <2> DEFINE q == AfterInsert(r, a, pr_in, remove)
  <2>5. /\ q.slots = Stored(r, a) /\ q.insert_ltch = NoEntry
        /\ q.num_entries = IF n < REG_WIDTH THEN n + 1 ELSE n
        /\ q.valid_out = ValidNext(r, pr_in, remove)
        /\ q.full = (n >= REG_WIDTH - 1)
    BY DEF AfterInsert
  <2> HIDE DEF q
  <2>6. q.num_entries \in 0 .. REG_WIDTH
    BY <1>3, <2>5
  <2>7. q.full => q.num_entries = REG_WIDTH
    <3>1. SUFFICES ASSUME q.full PROVE q.num_entries = REG_WIDTH
      OBVIOUS
    <3>2. n >= REG_WIDTH - 1
      BY <2>5, <3>1
    <3>3. n < REG_WIDTH => n + 1 = REG_WIDTH
      BY <1>3, <3>2
    <3>4. ~(n < REG_WIDTH) => n = REG_WIDTH
      BY <1>3
    <3> QED BY <2>5, <3>3, <3>4
  <2>8. Good(q)
    BY <1>3, <1>5, <2>2, <2>3, <2>4, <2>5, <2>6, <2>7
  <2> QED BY <2>8 DEF q
<1>8. CASE ~(remove /\ n > 0)
  <2>1. Good(RegNext(r, pr_in, remove))
    <3>1. CASE pr_in # NoEntry
      BY <3>1, <1>3, <1>7, <1>8 DEF RegNext, MaybeEntry
    <3>2. CASE pr_in = NoEntry /\ r.insert_ltch # NoEntry
      BY <3>2, <1>3, <1>7, <1>8 DEF RegNext, MaybeEntry
    <3>3. CASE pr_in = NoEntry /\ r.insert_ltch = NoEntry
      <4>1. RegNext(r, pr_in, remove) = AfterIdle(r, remove)
        BY <3>3, <1>8 DEF RegNext
      <4>2. ValidNext(r, NoEntry, remove) \in BOOLEAN
        BY DEF ValidNext
      <4>3. r.full => n = REG_WIDTH
        BY <3>3, <1>8 DEF RegisterHolds
      <4>4. Good(AfterIdle(r, remove))
        BY <1>3, <4>2, <4>3 DEF AfterIdle
      <4> QED BY <4>1, <4>4
    <3> QED BY <3>1, <3>2, <3>3
  <2> QED BY <1>1, <1>2, <2>1 DEF RegisterHolds
<1> QED BY <1>6, <1>8

-----------------------------------------------------------------------------
(* Flags.                                                                  *)

(* What a cycle is made of.                                                *)
LEMMA CycleParts ==
  ASSUME NEW e, NEW remove, Allowed(e, remove)
  PROVE  /\ Search /\ Insert_(remove) /\ RemoveNode(e) /\ Main(e, remove) /\ Port(e, remove)
         /\ Count(e) /\ List /\ FreeList /\ Copies /\ Reads
         /\ remove \in BOOLEAN /\ e \in MaybeEntry
BY DEF Allowed, Cycle, List

(* Every cycle keeps the flags as they should be.                          *)
LEMMA FlagsStep ==
  ASSUME Flags, RegisterHolds, MachinesInv, NEW e, NEW remove, Allowed(e, remove),
         "state" \in DOMAIN srch
  PROVE  Flags'
<1> USE DEF s
<1>0. /\ Search /\ Insert_(remove) /\ RemoveNode(e) /\ Main(e, remove) /\ List /\ Reads
      /\ remove \in BOOLEAN /\ e \in MaybeEntry
      /\ e # NoEntry => ~ins_busy /\ ~rmv_busy /\ ~insert_d1
      /\ StatesOK /\ BusyWhenAtWork /\ SearchWithinInsert /\ OneAtATime
  BY CycleParts DEF Allowed, MachinesInv
<1>1. ToList(e, remove) \in MaybeEntry /\ NoEntry \notin Entry
  BY <1>0, MaxOutEntry, NoEntryAssumption DEF ToList, PassesMax, MaybeEntry
<1>2. ToList(e, remove) # NoEntry => main_state = "RUN" /\ e # NoEntry
  BY DEF ToList, PassesMax, Taken
<1>3. /\ ins_state \in InsertStates /\ ins_busy \in BOOLEAN /\ sl_insert \in BOOLEAN
      /\ srch.state \in SearchStates /\ rmv.state \in RemoveStates
      /\ start_search \in BOOLEAN /\ search_done \in BOOLEAN
  BY <1>0 DEF StatesOK
<1>4. /\ sl_insert' = (ToList(e, remove) # NoEntry)
      /\ main_state' = IF main_state = "RUN"
                       THEN IF ToList(e, remove) # NoEntry THEN "INSERT" ELSE "RUN"
                       ELSE IF (remove /\ sl_blk_ins_if_rmv) \/ insert_done THEN "RUN" ELSE "INSERT"
      /\ sl_in' = IF ToList(e, remove) # NoEntry THEN ToList(e, remove)
                  ELSE IF main_state' = "RUN" THEN NoEntry ELSE sl_in
      /\ sl_blk_ins_if_rmv' = PassesMax(e, remove)
  BY <1>0 DEF Main
<1>5. /\ ins_state' = CASE ins_state = "INS_IDLE" ->
                             IF Starts(remove) THEN "INS_CONN_NEW" ELSE "INS_IDLE"
                        [] ins_state = "INS_CONN_NEW" ->
                             IF search_done THEN "INS_CONN_NEAR" ELSE "INS_CONN_NEW"
                        [] ins_state = "INS_CONN_NEAR" -> "INS_IDLE"
      /\ ins_busy' = IF ins_state = "INS_IDLE" THEN Starts(remove) ELSE ins_busy
      /\ start_search' = (ins_state = "INS_IDLE" /\ Starts(remove))
      /\ insert_done' = (ins_state = "INS_CONN_NEW" /\ search_done)
      /\ Starts(remove) <=> sl_insert /\ ~(sl_blk_ins_if_rmv /\ remove)
  BY <1>0 DEF Insert_, Starts
<1>6. /\ main_state \in {"RUN", "INSERT"}
      /\ main_state = "INSERT" <=> sl_insert \/ ins_state # "INS_IDLE"
      /\ main_state = "INSERT" => sl_in \in Entry
      /\ sl_blk_ins_if_rmv => sl_insert
      /\ sl_insert => ins_state = "INS_IDLE" /\ ~ins_busy
      /\ insert_done <=> ins_state = "INS_CONN_NEAR"
  BY DEF Flags
<1>7. main_state' \in {"RUN", "INSERT"}
  BY <1>4
<1>8. main_state' = "INSERT" <=> sl_insert' \/ ins_state' # "INS_IDLE"
  <2>1. CASE main_state = "RUN"
    BY <2>1, <1>4, <1>5, <1>6
  <2>2. CASE main_state = "INSERT" /\ ins_state = "INS_IDLE"
    BY <2>2, <1>2, <1>4, <1>5, <1>6
  <2>3. CASE main_state = "INSERT" /\ ins_state # "INS_IDLE"
    BY <2>3, <1>2, <1>3, <1>4, <1>5, <1>6 DEF InsertStates
  <2> QED BY <2>1, <2>2, <2>3, <1>6
<1>9. main_state' = "INSERT" => sl_in' \in Entry
  BY <1>1, <1>4, <1>6 DEF MaybeEntry
<1>10. sl_blk_ins_if_rmv' => sl_insert'
  <2>1. SUFFICES ASSUME PassesMax(e, remove) PROVE ToList(e, remove) # NoEntry
    BY <1>4
  <2>2. MaxOut(reg) \in Entry
    BY <2>1, MaxOutEntry DEF PassesMax
  <2> QED BY <2>1, <2>2, <1>1 DEF ToList
<1>11. sl_insert' => ins_state' = "INS_IDLE" /\ ~ins_busy'
  BY <1>2, <1>4, <1>5, <1>6
<1>12. insert_done' <=> ins_state' = "INS_CONN_NEAR"
  BY <1>3, <1>5 DEF InsertStates
<1>13. search_done' <=> srch.state = "GO_DOWN" /\ srch.level = -1
  BY <1>0 DEF Search
<1>14. srch.state # "SRCH_IDLE" \/ start_search => ins_state = "INS_CONN_NEW" /\ ~search_done
  BY <1>0 DEF SearchWithinInsert
<1>15. search_done' => ins_state' = "INS_CONN_NEW" /\ srch'.state = "SRCH_IDLE"
  <2>1. SUFFICES ASSUME srch.state = "GO_DOWN" /\ srch.level = -1
                 PROVE  ins_state' = "INS_CONN_NEW" /\ srch'.state = "SRCH_IDLE"
    BY <1>13
  <2>2. srch' = GoDown
    BY <2>1, <1>0 DEF Search
  <2> QED BY <2>1, <2>2, <1>5, <1>14 DEF GoDown
<1>16. srch'.state = "SRCH_IDLE" /\ ins_state' = "INS_CONN_NEW" => start_search' \/ search_done'
  <2>1. SUFFICES ASSUME srch'.state = "SRCH_IDLE", ins_state' = "INS_CONN_NEW", ~start_search'
                 PROVE  search_done'
    OBVIOUS
  <2>2. ins_state = "INS_CONN_NEW" /\ ~search_done
    BY <2>1, <1>3, <1>5 DEF InsertStates
  <2>3. CASE srch.state = "SRCH_IDLE"
    <3>1. start_search
      BY <2>2, <2>3 DEF Flags
    <3>2. srch' = SrchIdle
      BY <2>3, <1>0 DEF Search
    <3> QED BY <3>1, <3>2, <2>1 DEF SrchIdle
  <2>4. CASE srch.state = "GO_DOWN"
    <3>1. srch' = GoDown
      BY <2>4, <1>0 DEF Search
    <3> QED BY <3>1, <2>1, <2>4, <1>13 DEF GoDown
  <2>5. CASE srch.state \in {"WAIT_MEM_RD1", "WAIT_MEM_RD2", "WAIT_MEM_RD3"}
    <3>1. \E st \in {"GO_RIGHT1", "GO_RIGHT2", "SRCH_CONN_NEW"} : srch' = Wait(st)
      BY <2>5, <1>0 DEF Search
    <3> QED BY <3>1, <2>1, <2>5 DEF Wait
  <2>6. CASE srch.state = "GO_RIGHT1"
    <3>1. srch' = GoRight1
      BY <2>6, <1>0 DEF Search
    <3> QED BY <3>1, <2>1, <2>6 DEF GoRight1, FirstRight
  <2>7. CASE srch.state = "GO_RIGHT2"
    <3>1. srch' = GoRight2
      BY <2>7, <1>0 DEF Search
    <3> QED BY <3>1, <2>1, <2>7 DEF GoRight2
  <2>8. CASE srch.state = "SRCH_CONN_NEW"
    <3>1. srch' = ConnNew
      BY <2>8, <1>0 DEF Search
    <3> QED BY <3>1, <2>1, <2>8 DEF ConnNew
  <2>9. CASE srch.state = "SRCH_CONN_NEAR"
    <3>1. srch' = ConnNear
      BY <2>9, <1>0 DEF Search
    <3> QED BY <3>1, <2>1, <2>9 DEF ConnNear
  <2> QED BY <2>3, <2>4, <2>5, <2>6, <2>7, <2>8, <2>9, <1>3 DEF SearchStates
<1>17. start_search' => srch' = NoSearch
  <2>1. SUFFICES ASSUME start_search' PROVE srch' = NoSearch
    OBVIOUS
  <2>2. ins_state = "INS_IDLE" /\ srch.state = "SRCH_IDLE" /\ ~start_search
    BY <2>1, <1>5, <1>14
  <2>3. srch' = SrchIdle
    BY <2>2, <1>0 DEF Search
  <2> QED BY <2>2, <2>3 DEF SrchIdle
<1>18. get_next_node' =>
         /\ ins_busy' /\ ~search_done' /\ ~start_search' /\ ins_state' # "INS_CONN_NEAR"
         /\ ins_state' # "INS_IDLE" => srch'.state \in {"GO_RIGHT1", "GO_DOWN"}
  <2>1. get_next_node' = (srch.state = "SRCH_CONN_NEAR" \/ ins_state = "INS_CONN_NEAR")
    BY <1>0 DEF List
  <2>2. CASE srch.state = "SRCH_CONN_NEAR"
    <3>1. srch' = ConnNear
      BY <2>2, <1>0 DEF Search
    <3>2. srch'.state \in {"GO_RIGHT1", "GO_DOWN"}
      BY <3>1 DEF ConnNear
    <3>3. ins_state = "INS_CONN_NEW" /\ ~search_done /\ ins_busy
      BY <2>2, <1>0, <1>14 DEF BusyWhenAtWork
    <3> QED BY <3>2, <3>3, <2>2, <1>5, <1>13
  <2>3. CASE ins_state = "INS_CONN_NEAR"
    <3>1. srch.state = "SRCH_IDLE" /\ ins_busy
      BY <2>3, <1>0, <1>14 DEF BusyWhenAtWork
    <3> QED BY <3>1, <2>3, <1>5, <1>13
  <2> QED BY <2>1, <2>2, <2>3
<1>19. free_list_in' # NULL =>
         /\ ins_state' = "INS_IDLE" /\ ~sl_insert'
         /\ rmv'.state \in {"RMV_IDLE", "RMV_WAIT_MEM_RD2"}
  <2>1. SUFFICES ASSUME rmv.state \in {"RMV_DEQ_NODE", "RMV_CONN_LEFT_TAIL"}
                 PROVE  /\ ins_state' = "INS_IDLE" /\ ~sl_insert'
                        /\ rmv'.state \in {"RMV_IDLE", "RMV_WAIT_MEM_RD2"}
    BY <1>0 DEF List, Unlinks
  <2>2. rmv' = NextUp
    BY <2>1, <1>0 DEF RemoveNode
  <2>3. rmv'.state \in {"RMV_IDLE", "RMV_WAIT_MEM_RD2"}
    BY <2>2 DEF NextUp, NoRemoval
  <2>4. ins_state = "INS_IDLE" /\ ~sl_insert /\ rmv_busy
    BY <2>1, <1>0 DEF OneAtATime, BusyWhenAtWork
  <2>5. ins_state' = "INS_IDLE"
    BY <2>4, <1>5
  <2>6. ~sl_insert'
    BY <2>4, <1>0, <1>2, <1>4
  <2> QED BY <2>3, <2>5, <2>6
<1>20. /\ bram_rd' \/ bram_rd1' => srch'.state \in Waits \/ rmv'.state \in Waits
       /\ ~(bram_rd' /\ bram_rd1')
  <2>1. /\ bram_rd' <=> \/ srch'.state \in Waits /\ srch.state \notin Waits
                        \/ rmv'.state \in Waits /\ rmv.state \notin Waits
        /\ bram_rd1' = bram_rd
    BY <1>0 DEF Reads
  <2>2. SUFFICES ASSUME bram_rd
                 PROVE  (srch'.state \in Waits \/ rmv'.state \in Waits) /\ ~bram_rd'
    BY <2>1
  <2>3. ~bram_rd1 /\ (srch.state \in Waits \/ rmv.state \in Waits)
    BY <2>2 DEF Flags
  <2>4. CASE srch.state \in Waits
    <3>1. srch.state \in {"WAIT_MEM_RD1", "WAIT_MEM_RD2", "WAIT_MEM_RD3"}
      BY <2>4, <1>3 DEF Waits, SearchStates
    <3>2. \E st \in {"GO_RIGHT1", "GO_RIGHT2", "SRCH_CONN_NEW"} : srch' = Wait(st)
      BY <3>1, <1>0 DEF Search
    <3>3. srch' = srch
      BY <3>2, <2>3 DEF Wait
    <3>4. ins_busy /\ rmv.state \in {"RMV_IDLE", "RMV_CHK_BUSY"}
      BY <3>1, <1>0, <1>14 DEF BusyWhenAtWork, OneAtATime
    <3>5. rmv'.state \in {"RMV_IDLE", "RMV_CHK_BUSY"}
      BY <3>4, <1>0 DEF RemoveNode, Moves, NoRemoval, StatesOK
    <3> QED BY <3>3, <3>5, <2>1, <2>4 DEF Waits
  <2>5. CASE rmv.state \in Waits
    <3>1. rmv.state \in {"RMV_WAIT_MEM_RD1", "RMV_WAIT_MEM_RD2"}
      BY <2>5, <1>3 DEF Waits, RemoveStates
    <3>2. rmv' = rmv
      BY <3>1, <2>3, <1>0 DEF RemoveNode
    <3>3. srch.state = "SRCH_IDLE" /\ ~start_search
      BY <3>1, <1>0 DEF OneAtATime, SearchWithinInsert
    <3>4. srch' = SrchIdle
      BY <3>3, <1>0 DEF Search
    <3>5. srch'.state = "SRCH_IDLE"
      BY <3>3, <3>4 DEF SrchIdle, NoSearch
    <3> QED BY <3>2, <3>5, <2>1, <2>5 DEF Waits
  <2> QED BY <2>3, <2>4, <2>5
<1> QED BY <1>7, <1>8, <1>9, <1>10, <1>11, <1>12, <1>15, <1>16, <1>17, <1>18, <1>19, <1>20
        DEF Flags

-----------------------------------------------------------------------------
(* Types of the registers.                                                 *)

(* While something is on the lowest level lptr_tail is its last node. *)
LEMMA TailNode ==
  ASSUME NEW on, NEW lv, NEW at, Shape(on, lv, at, mem, NULL), Books(on, lv), ~Lower,
         sl_num_entries > 0
  PROVE  /\ lptr_tail = mem[tail(0)].lptr /\ lptr_tail \in on /\ lptr_tail \in Nodes
         /\ lv[lptr_tail] = 0 /\ mem[lptr_tail].rptr = tail(0)
<1>1. 0 \in Lvls /\ tail(0) # head(0)
  BY Addresses
<1>2. tail(0) \in on /\ lv[tail(0)] = 0 /\ head(0) \in on /\ lv[head(0)] = 0
  BY <1>1 DEF Shape, Ends
<1> DEFINE x == mem[tail(0)].lptr
<1>3. x \in on /\ lv[x] = 0 /\ mem[x].rptr = tail(0) /\ x # tail(0)
  BY <1>1, <1>2 DEF Shape, Lefts
<1>4. ASSUME x = head(0) PROVE FALSE
  <2>1. mem[head(0)].rptr = tail(0)
    BY <1>3, <1>4
  <2>2. Lowest(on, lv) = {}
    <3>1. SUFFICES ASSUME NEW y \in on, y \in Nodes, lv[y] = 0 PROVE FALSE
      BY DEF Lowest
    <3>2. at[head(0)] = 0 /\ 0 < at[y] /\ at[y] < at[tail(0)] /\ at[y] \in Nat /\ at[tail(0)] \in Nat
      BY <1>1, <1>2, <3>1, Addresses DEF Shape, Ends, Typed
    <3>3. at[y] <= at[head(0)] \/ at[tail(0)] <= at[y]
      BY <1>1, <1>2, <2>1, <3>1 DEF Shape, Rights
    <3> QED BY <3>2, <3>3
  <2>3. Cardinality(Lowest(on, lv)) = 0
    BY <2>2, FS_EmptySet
  <2> QED BY <2>3 DEF Books
<1>5. x \in Nodes
  BY <1>3, <1>4 DEF Shape, Typed
<1>6. lptr_tail = x
  BY <1>4 DEF Books
<1> QED BY <1>3, <1>5, <1>6

(* Every step of the search machine keeps its registers typed.             *)
LEMMA SearchTyped ==
  ASSUME RegsTyped, mem \in [Addr -> Node], curr_max_lvl \in Lvls, rptr_head \in [Lvls -> Addr],
         srch.state \notin {"SRCH_IDLE", "GO_DOWN"} => srch.level >= 0,
         Search
  PROVE  srch' \in SearchRegs
<1> USE DEF s
<1>1. srch \in SearchRegs /\ dout \in Node
  BY DEF RegsTyped
<1>2. /\ srch.state \in SearchStates /\ srch.level \in -1 .. NUM_LVLS - 1
      /\ srch.n \in Addr /\ srch.l \in Addr /\ srch.u \in Addr /\ srch.d \in Addr
      /\ srch.uR \in Addr /\ srch.dR \in Addr /\ srch.dD \in Addr /\ srch.lVal \in Ranks
      /\ srch.cons_nodes \in 0 .. 3 /\ srch.first_node \in BOOLEAN /\ srch.store_d \in BOOLEAN
  BY <1>1 DEF SearchRegs
<1>3. dout.rptr \in Addr /\ dout.dptr \in Addr /\ dout.rank \in Ranks
  BY <1>1 DEF Node
<1>4. /\ curr_max_lvl \in -1 .. NUM_LVLS - 1 /\ head(curr_max_lvl) \in Addr
      /\ head(curr_max_lvl + 1) \in Addr /\ NULL \in Addr /\ 0 \in -1 .. NUM_LVLS - 1
      /\ dptr_head(curr_max_lvl) \in Addr /\ rptr_head[curr_max_lvl] \in Addr
      /\ MAX_RANK \in Ranks /\ 0 \in Ranks /\ 0 \in 0 .. 3
  BY Addresses, MaxRankAssumption DEF Lvls, head, Addr, dptr_head, Ranks
<1>5. CASE srch.state = "SRCH_IDLE"
  <2>1. srch' = SrchIdle
    BY <1>5 DEF Search
  <2>2. NoSearch \in SearchRegs
    BY <1>4 DEF NoSearch, SearchRegs, SearchStates
  <2>3. CASE ~start_search
    BY <2>3, <1>1, <2>1, <2>2 DEF SrchIdle
  <2>4. CASE start_search
    <3>1. srch' = [srch EXCEPT !.state = "GO_RIGHT1", !.level = curr_max_lvl,
                               !.n = head(curr_max_lvl), !.u = head(curr_max_lvl + 1),
                               !.d = head(curr_max_lvl), !.first_node = TRUE]
      BY <2>1, <2>4 DEF SrchIdle
    <3> QED BY <1>1, <1>4, <3>1 DEF SearchRegs, SearchStates
  <2> QED BY <2>3, <2>4
<1>6. CASE srch.state = "GO_DOWN"
  <2>1. srch' = GoDown
    BY <1>6 DEF Search
  <2> QED BY <1>1, <1>2, <1>4, <2>1 DEF GoDown, SearchRegs, SearchStates
<1>7. CASE srch.state \in {"WAIT_MEM_RD1", "WAIT_MEM_RD2", "WAIT_MEM_RD3"}
  <2>1. \E st \in {"GO_RIGHT1", "GO_RIGHT2", "SRCH_CONN_NEW"} : srch' = Wait(st)
    BY <1>7 DEF Search
  <2> QED BY <1>1, <2>1 DEF Wait, SearchRegs, SearchStates
<1>8. CASE srch.state \notin {"SRCH_IDLE", "GO_DOWN"}
  <2>1. srch.level - 1 \in -1 .. NUM_LVLS - 1
    BY <1>2, <1>8, Addresses
  <2>2. (srch.cons_nodes + 1) % 4 \in 0 .. 3
    BY <1>2
  <2>3. CASE srch.state = "GO_RIGHT1"
    <3>1. srch' = GoRight1
      BY <2>3 DEF Search
    <3> QED BY <1>1, <1>2, <1>3, <1>4, <2>1, <3>1 DEF GoRight1, FirstRight, SearchRegs, SearchStates
  <2>4. CASE srch.state = "GO_RIGHT2"
    <3>1. srch' = GoRight2
      BY <2>4 DEF Search
    <3> DEFINE t == [srch EXCEPT !.d  = IF dout.rank > sl_in.rank THEN srch.n ELSE srch.d,
                     !.dR = IF dout.rank > sl_in.rank THEN dout.rptr ELSE srch.dR,
                     !.dD = IF dout.rank > sl_in.rank THEN dout.dptr ELSE srch.dD,
                     !.cons_nodes = (srch.cons_nodes + 1) % 4]
    <3>2. t \in SearchRegs
      BY <1>1, <1>2, <1>3, <2>2 DEF SearchRegs
    <3>3. srch' = IF dout.uptr # NULL
                  THEN [t EXCEPT !.state = "GO_DOWN", !.u = srch.d, !.n = t.dD, !.level = srch.level - 1]
                  ELSE IF srch.cons_nodes = MAX_CONS_NODES - 1
                  THEN [t EXCEPT !.state = "WAIT_MEM_RD3"]
                  ELSE [t EXCEPT !.state = "GO_RIGHT1"]
      BY <3>1 DEF GoRight2
    <3> HIDE DEF t
    <3> QED BY <1>2, <2>1, <3>2, <3>3 DEF SearchRegs, SearchStates
  <2>5. CASE srch.state = "SRCH_CONN_NEW"
    <3>1. srch' = ConnNew
      BY <2>5 DEF Search
    <3> QED BY <1>1, <1>3, <3>1 DEF ConnNew, SearchRegs, SearchStates
  <2>6. CASE srch.state = "SRCH_CONN_NEAR"
    <3>1. srch' = ConnNear
      BY <2>6 DEF Search
    <3> QED BY <1>1, <1>2, <2>1, <3>1 DEF ConnNear, SearchRegs, SearchStates
  <2> QED BY <1>2, <1>7, <1>8, <2>3, <2>4, <2>5, <2>6 DEF SearchStates
<1> QED BY <1>5, <1>6, <1>8

(* While the search machine is on a level, the level is one. *)
LEMMA LevelKnown ==
  ASSUME NEW on, NEW lv, NEW at, Searching(on, lv, at), RegsTyped,
         srch.state \notin {"SRCH_IDLE", "GO_DOWN"}, curr_max_lvl \in Lvls
  PROVE  srch.level >= 0
<1>1. srch.state \in SearchStates
  BY DEF RegsTyped, SearchRegs
<1>2. curr_max_lvl \in Nat
  BY Addresses
<1> QED BY <1>1, <1>2 DEF Searching, Seeking, SearchStates, Start, Along, AtRight1, AtRight2, Third, Beyond

(* Every cycle keeps the registers typed.                                  *)
LEMMA RegsStep ==
  ASSUME NEW on, NEW lv, NEW at, ListInv(on, lv, at), RegsTyped, MachinesInv,
         NEW e, NEW remove, Allowed(e, remove)
  PROVE  RegsTyped'
<1>1. /\ Search /\ RemoveNode(e) /\ Reads /\ mem \in [Addr -> Node]
      /\ Books(on, lv) /\ Searching(on, lv, at) /\ Removing(on, lv)
  BY CycleParts DEF ListInv, Shape, Typed
<1>2. srch' \in SearchRegs
  BY <1>1, SearchTyped, LevelKnown DEF Books
<1>3. /\ srch \in SearchRegs /\ dout \in Node
      /\ rmv \in [state : RemoveStates, node : Addr, lvl : Nat]
  BY DEF RegsTyped
<1>4. srch.n \in Addr /\ srch.u \in Addr /\ rmv.node \in Addr /\ rmv.lvl \in Nat
  BY <1>3 DEF SearchRegs
<1>5. dout' \in Node
  <2>1. Blank \in Node
    BY Addresses, MaxRankAssumption DEF Blank, Node, Ranks
  <2>2. [dout EXCEPT !.rptr = mem[srch.u].rptr] \in Node
    BY <1>1, <1>3, <1>4 DEF Node
  <2> QED BY <1>1, <1>3, <1>4, <2>1, <2>2 DEF Reads, s
<1>6. rmv' \in [state : RemoveStates, node : Addr, lvl : Nat]
  <2>1. NoRemoval \in [state : RemoveStates, node : Addr, lvl : Nat]
    BY Addresses DEF NoRemoval, RemoveStates
  <2>2. CASE rmv.state = "RMV_CHK_BUSY"
    <3>1. lptr_tail \in Addr
      <4>1. Torn = NULL /\ ~Lower /\ sl_num_entries > 0
        BY <2>2, <1>1 DEF Torn, Upper, Lower, Removing
      <4>2. Shape(on, lv, at, mem, NULL)
        BY <4>1 DEF ListInv
      <4>3. lptr_tail \in Nodes
        BY <4>1, <4>2, <1>1, TailNode
      <4> QED BY <4>3, Addresses
    <3> QED BY <1>1, <2>1, <2>2, <3>1 DEF RemoveNode, RemoveStates
  <2>3. CASE rmv.state \in {"RMV_DEQ_NODE", "RMV_CONN_LEFT_TAIL"}
    <3>1. rmv' = NextUp
      BY <2>3, <1>1 DEF RemoveNode
    <3>2. dout.uptr \in Addr
      BY <1>3 DEF Node
    <3> QED BY <1>4, <2>1, <3>1, <3>2 DEF NextUp, RemoveStates
  <2>4. CASE rmv.state \in {"RMV_IDLE", "RMV_WAIT_MEM_RD1", "RMV_WAIT_MEM_RD2"}
    BY <1>1, <1>3, <2>4 DEF RemoveNode, RemoveStates
  <2> QED BY <1>3, <2>2, <2>3, <2>4 DEF RemoveStates
<1>7. bram_rd' \in BOOLEAN /\ bram_rd1' \in BOOLEAN
  BY <1>1 DEF Reads, RegsTyped
<1> QED BY <1>2, <1>5, <1>6, <1>7 DEF RegsTyped

-----------------------------------------------------------------------------
(* Facts about nodes with nothing on them.                                 *)

(* A linked node with nothing on it is a node, with neighbours. *)
LEMMA UnNode ==
  ASSUME NEW on, NEW lv, NEW at, NEW m, NEW z, Shape(on, lv, at, m, z),
         NEW x \in on, Un(m, x)
  PROVE  /\ x \in Nodes /\ x # head(lv[x]) /\ x # tail(lv[x]) /\ lv[x] \in Lvls
         /\ m[x].rptr \in on /\ lv[m[x].rptr] = lv[x] /\ at[x] < at[m[x].rptr]
         /\ m[m[x].rptr].lptr = x
         /\ m[x].lptr \in on /\ lv[m[x].lptr] = lv[x] /\ m[m[x].lptr].rptr = x
         /\ m[x].lptr # tail(lv[x])
<1>1. lv[x] \in Lvls /\ (x \in Nodes \/ x = head(lv[x]) \/ x = tail(lv[x]))
  BY DEF Shape, Typed
<1>2. x # head(lv[x]) /\ x # tail(lv[x])
  BY <1>1 DEF Shape, Ends, Un
<1>3. /\ m[x].rptr \in on /\ lv[m[x].rptr] = lv[x] /\ at[x] < at[m[x].rptr]
      /\ m[m[x].rptr].lptr = x
  BY <1>2 DEF Shape, Rights
<1>4. /\ m[x].lptr \in on /\ lv[m[x].lptr] = lv[x] /\ m[m[x].lptr].rptr = x
      /\ m[x].lptr # tail(lv[x])
  BY <1>2 DEF Shape, Lefts
<1> QED BY <1>1, <1>2, <1>3, <1>4

(* The fields of a linked node.                                            *)
LEMMA OnTyped ==
  ASSUME NEW on, NEW lv, NEW at, NEW m, NEW z, Shape(on, lv, at, m, z), NEW x \in on
  PROVE  /\ x \in Addr /\ x # NULL /\ lv[x] \in Lvls /\ lv[x] \in Nat /\ at[x] \in Nat
         /\ m[x] \in Node /\ m[x].rank \in Ranks /\ m[x].rank \in Nat /\ m[x].rank >= 0
         /\ m[x].dptr \in Addr /\ m[x].rptr \in Addr
<1>1. x \in Addr /\ x # NULL /\ lv[x] \in Lvls /\ lv[x] \in Nat /\ at[x] \in Nat /\ m[x] \in Node
  BY Addresses DEF Shape, Typed
<1> QED BY <1>1, MaxRankAssumption DEF Node, Ranks

(* Where a node can be put without four in a row having nothing on them. *)
LEMMA SlackFrom ==
  ASSUME NEW on, NEW lv, NEW at, NEW m, NEW z, Shape(on, lv, at, m, z),
         NEW d \in on, d # tail(lv[d]),
         ~Un3(m, m[d].rptr),
         \/ ~Un(m, d)
         \/ ~Un(m, m[d].rptr) /\ (~Un(m, m[d].lptr) \/ ~Un(m, m[m[d].lptr].lptr))
         \/ ~Un(m, m[m[d].rptr].rptr) /\ ~Un(m, m[d].lptr)
  PROVE  Slack(on, m, d)
<1>1. SUFFICES ASSUME NEW x \in on, Un3(m, x), x = d \/ m[x].rptr = d \/ m[m[x].rptr].rptr = d
               PROVE  FALSE
  BY DEF Slack
<1> DEFINE y == m[x].rptr
           w == m[y].rptr
<1>2. Un(m, x) /\ Un(m, y) /\ Un(m, w)
  BY <1>1 DEF Un3
<1>3. y \in on /\ m[y].lptr = x
  BY <1>2, UnNode
<1> HIDE DEF y
<1>4. w \in on /\ m[w].lptr = y
  BY <1>2, <1>3, UnNode
<1> HIDE DEF w
<1>5. y = m[x].rptr /\ w = m[y].rptr
  BY DEF y, w
<1>6. x = d \/ y = d \/ w = d
  BY <1>1, <1>5
<1> QED BY <1>2, <1>3, <1>4, <1>5, <1>6

(* The head of an empty level points at its tail.                          *)
LEMMA EmptyLevel ==
  ASSUME NEW on, NEW lv, NEW at, NEW m, NEW z, Shape(on, lv, at, m, z),
         NEW l \in Lvls, \A x \in on \cap Nodes : lv[x] # l
  PROVE  m[head(l)].rptr = tail(l)
<1>1. head(l) # tail(l) /\ head(l) \in on /\ lv[head(l)] = l
  BY Addresses DEF Shape, Ends
<1>2. m[head(l)].rptr \in on /\ lv[m[head(l)].rptr] = l /\ m[head(l)].rptr # head(l)
  BY <1>1, Neighbours
<1> QED BY <1>2 DEF Shape, Typed

(* Over an empty level there is nothing. *)
LEMMA EmptyAbove ==
  ASSUME NEW on, NEW lv, NEW at, NEW m, Shape(on, lv, at, m, NULL),
         NEW l \in Nat, \A x \in on \cap Nodes : lv[x] # l
  PROVE  \A x \in on \cap Nodes : lv[x] < l
<1> DEFINE S == {k \in Nat : \A x \in on \cap Nodes : lv[x] # l + k}
<1>1. 0 \in S
  OBVIOUS
<1>2. ASSUME NEW k \in Nat, k \in S
      PROVE  k + 1 \in S
  <2>1. SUFFICES ASSUME NEW x \in on, x \in Nodes, lv[x] = l + (k + 1) PROVE FALSE
    OBVIOUS
  <2>2. lv[x] > 0 /\ lv[x] - 1 = l + k /\ x # NULL
    BY <2>1, Addresses
  <2>3. m[x].dptr \in on /\ m[x].dptr \in Nodes /\ lv[m[x].dptr] = l + k
    BY <2>1, <2>2 DEF Shape, Downs
  <2> QED BY <1>2, <2>3
<1>3. Nat \subseteq S
  <2> HIDE DEF S
  <2> QED BY <1>1, <1>2, Induction
<1>4. SUFFICES ASSUME NEW x \in on, x \in Nodes, ~(lv[x] < l) PROVE FALSE
  OBVIOUS
<1>5. lv[x] \in Nat
  BY OnTyped
<1>6. lv[x] - l \in Nat /\ lv[x] = l + (lv[x] - l)
  BY <1>4, <1>5
<1> QED BY <1>3, <1>4, <1>6

(* Right of where the search entered a level, what has something on it is  *)
(* not larger than the new rank: the level above was left there.           *)
LEMMA RaisedSmall ==
  ASSUME NEW on, NEW lv, NEW at, NEW m, Shape(on, lv, at, m, NULL),
         NEW K \in Ranks, NEW l \in Lvls, NEW u, NEW a \in on, lv[a] = l,
         Under(on, lv, at, m, K, l, u, a),
         NEW x \in on, lv[x] = l, at[a] < at[x], ~Un(m, x)
  PROVE  m[x].rank <= K
<1>0. K \in Nat /\ K >= 0 /\ at[a] \in Nat
  BY MaxRankAssumption, OnTyped DEF Ranks
<1>1. x # head(l)
  BY <1>0 DEF Shape, Ends
<1>2. CASE x = tail(l)
  BY <1>0, <1>2 DEF Shape, Ends
<1>3. CASE x \in Nodes
  <2> DEFINE y == m[x].uptr
             v == m[u].rptr
  <2>1. y \in on /\ y \in Nodes /\ y # NULL /\ lv[y] = l + 1 /\ m[y].dptr = x
    BY <1>3, Addresses DEF Shape, Ups, Un
  <2>2. l + 1 \in Lvls /\ l + 1 > 0 /\ l + 1 < NUM_LVLS
    <3>1. lv[y] \in Lvls
      BY <2>1, OnTyped
    <3> QED BY <2>1, <3>1, Addresses DEF Lvls
  <2>3. at[x] = at[y] /\ m[x].rank = m[y].rank
    BY <2>1, <2>2 DEF Shape, Downs
  <2>4. /\ u \in on /\ lv[u] = l + 1 /\ u # tail(l + 1) /\ m[v].rank <= K
        /\ at[u] <= at[a] /\ at[a] < at[v]
    BY <2>2 DEF Under, Placed, Last
  <2>5. v \in on /\ lv[v] = l + 1
    BY <2>4 DEF Shape, Rights
  <2> HIDE DEF y, v
  <2>6. at[y] <= at[u] \/ at[v] <= at[y]
    BY <2>1, <2>4 DEF Shape, Rights, v
  <2>7. at[y] \in Nat /\ at[u] \in Nat /\ at[v] \in Nat
    BY <2>1, <2>4, <2>5, OnTyped
  <2>8. at[v] <= at[y]
    BY <1>0, <2>3, <2>4, <2>6, <2>7
  <2>9. CASE at[v] = at[y]
    <3>1. v = y
      BY <2>9, <2>1, <2>5 DEF Shape, Alone
    <3> QED BY <3>1, <2>3, <2>4
  <2>10. CASE at[v] < at[y]
    <3>1. m[v].rank >= m[y].rank
      BY <2>10, <2>1, <2>5 DEF Shape, Sorted
    <3>2. m[v].rank \in Nat /\ m[y].rank \in Nat
      BY <2>1, <2>5, OnTyped
    <3> QED BY <3>1, <3>2, <1>0, <2>3, <2>4
  <2> QED BY <2>7, <2>8, <2>9, <2>10
<1> QED BY <1>1, <1>2, <1>3 DEF Shape, Typed

(* A step to a node with nothing on it stays where the level was entered. *)
LEMMA UnderNext ==
  ASSUME NEW on, NEW lv, NEW at, NEW m, Shape(on, lv, at, m, NULL),
         NEW K, NEW l \in Lvls, NEW u, NEW a \in on, lv[a] = l, a # tail(l),
         Under(on, lv, at, m, K, l, u, a),
         NEW n, n = m[a].rptr, Un(m, n)
  PROVE  /\ Under(on, lv, at, m, K, l, u, n)
         /\ l + 1 < NUM_LVLS /\ Un(m, a) => at[u] < at[a]
<1>1. n \in on /\ lv[n] = l /\ at[a] < at[n] /\ \A w \in on : lv[w] = l => at[w] <= at[a] \/ at[n] <= at[w]
  BY DEF Shape, Rights
<1>2. SUFFICES ASSUME l + 1 < NUM_LVLS
               PROVE  /\ Placed(on, lv, m, K, l + 1, u) /\ at[u] <= at[n] /\ at[n] < at[m[u].rptr]
                      /\ Un(m, a) => at[u] < at[a]
  BY DEF Under
<1> DEFINE v == m[u].rptr
<1>3. /\ Placed(on, lv, m, K, l + 1, u) /\ at[u] <= at[a] /\ at[a] < at[v]
      /\ u \in on /\ lv[u] = l + 1 /\ u # tail(l + 1)
  BY <1>2 DEF Under, Placed, Last
<1>4. v \in on /\ lv[v] = l + 1
  BY <1>3 DEF Shape, Rights
<1> HIDE DEF v
<1>5. l \in Nat /\ l + 1 > 0 /\ (l + 1) - 1 = l
  BY Addresses
<1>6. /\ m[v].dptr \in on /\ lv[m[v].dptr] = l /\ at[m[v].dptr] = at[v] /\ m[m[v].dptr].uptr = v
      /\ v # NULL
  BY <1>4, <1>5, OnTyped DEF Shape, Downs
<1>7. /\ m[u].dptr \in on /\ lv[m[u].dptr] = l /\ at[m[u].dptr] = at[u] /\ m[m[u].dptr].uptr = u
      /\ u # NULL
  BY <1>3, <1>5, OnTyped DEF Shape, Downs
<1>8. at[a] \in Nat /\ at[n] \in Nat /\ at[v] \in Nat /\ at[u] \in Nat
  BY <1>1, <1>3, <1>4, OnTyped
<1>9. at[n] <= at[v]
  <2>1. at[m[v].dptr] <= at[a] \/ at[n] <= at[m[v].dptr]
    BY <1>1, <1>6
  <2> QED BY <2>1, <1>3, <1>6, <1>8
<1>10. at[n] # at[v]
  <2>1. ASSUME at[n] = at[v] PROVE FALSE
    <3>1. n = m[v].dptr
      BY <2>1, <1>1, <1>6 DEF Shape, Alone
    <3> QED BY <3>1, <1>6 DEF Un
  <2> QED BY <2>1
<1>11. Un(m, a) => at[u] # at[a]
  <2>1. ASSUME Un(m, a), at[u] = at[a] PROVE FALSE
    <3>1. a = m[u].dptr
      BY <2>1, <1>7 DEF Shape, Alone
    <3> QED BY <2>1, <3>1, <1>7 DEF Un
  <2> QED BY <2>1
<1> QED BY <1>1, <1>3, <1>8, <1>9, <1>10, <1>11 DEF v

-----------------------------------------------------------------------------
(* The steps of a search.                                                  *)

(* GO_DOWN: the node below the one to be passed starts the next walk. *)
LEMMA GoesDown ==
  ASSUME NEW on, NEW lv, NEW at, NEW m, Shape(on, lv, at, m, NULL),
         NEW K, NEW M \in Lvls, NEW q, AtDown(on, lv, m, q, K, M), q.level # -1,
         NEW q2, q2.level = q.level, q2.n = q.n, q2.u = q.u, q2.d = q.n, q2.cons_nodes = 0,
         q2.store_d = TRUE
  PROVE  Along(on, lv, at, m, q2, K, M, q2.n)
<1> DEFINE l == q.level
           u == q.u
           n == q.n
<1>0. M \in Nat /\ M < NUM_LVLS
  BY Addresses DEF Lvls
<1>1. /\ l \in -1 .. M - 1 /\ Placed(on, lv, m, K, l + 1, u) /\ Room(on, l + 2)
      /\ u = q.d /\ ~q.store_d
      /\ l >= 0 => n = m[u].dptr
  BY DEF AtDown, Found
<1>2. l \in 0 .. M /\ l + 1 > 0 /\ (l + 1) - 1 = l /\ n = m[u].dptr
  <2>1. l \in Int /\ l # -1 /\ l >= -1 /\ l <= M - 1
    BY <1>0, <1>1
  <2>2. l >= 0 /\ l <= M
    <3> HIDE DEF l
    <3> QED BY <1>0, <2>1
  <2> HIDE DEF l
  <2> QED BY <1>0, <1>1, <2>1, <2>2
<1>3. u \in on /\ lv[u] = l + 1 /\ u # tail(l + 1) /\ m[u].rank >= K
  BY <1>1 DEF Placed, Last
<1>4. u # NULL /\ lv[u] \in Lvls
  BY <1>3, OnTyped
<1>5. n \in on /\ lv[n] = l /\ at[n] = at[u] /\ m[n].rank = m[u].rank /\ m[n].uptr = u
  BY <1>2, <1>3, <1>4 DEF Shape, Downs
<1>6. n # tail(l)
  <2>1. SUFFICES ASSUME n = tail(l) PROVE FALSE
    OBVIOUS
  <2>2. l \in Lvls /\ l + 1 \in Lvls
    BY <1>5, <1>3, <1>4, OnTyped
  <2>3. at[tail(l + 1)] = at[u] /\ tail(l + 1) \in on /\ lv[tail(l + 1)] = l + 1
    BY <1>5, <2>1, <2>2 DEF Shape, Ends
  <2> QED BY <1>3, <2>3 DEF Shape, Alone
<1>7. Run(on, lv, m, l, n, 0, n)
  BY <1>4, <1>5, <1>6 DEF Run, Un
<1>8. at[u] < at[m[u].rptr]
  BY <1>3 DEF Shape, Rights
<1>9. Under(on, lv, at, m, K, l, u, n)
  <2>1. at[u] \in Nat /\ at[u] <= at[n]
    BY <1>3, <1>5, OnTyped
  <2> QED BY <1>1, <1>5, <1>8, <2>1 DEF Under
<1> HIDE DEF l, u, n
<1>10. q2.level = l /\ q2.n = n /\ q2.u = u /\ q2.d = n /\ q2.cons_nodes = 0 /\ q2.store_d
  BY DEF l, u, n
<1> QED BY <1>1, <1>2, <1>3, <1>5, <1>7, <1>9, <1>10 DEF Along

(* The first step of a search: it begins at the head of the topmost level. *)
LEMMA FirstGoesRight ==
  ASSUME NEW on, NEW lv, NEW at, NEW m, Shape(on, lv, at, m, NULL),
         NEW K \in Ranks, NEW M \in Lvls, \A x \in on \cap Nodes : lv[x] <= M,
         NEW q, Start(on, q, M),
         NEW q2, q2.level = q.level, q2.u = q.u, q2.d = q.d, q2.cons_nodes = q.cons_nodes,
         q2.store_d = q.store_d,
         q2.dR = m[head(M)].rptr, q2.dD = dptr_head(M), q2.l = q.n, q2.lVal = MAX_RANK,
         q2.n = m[head(M)].rptr
  PROVE  AtRight2(on, lv, at, m, q2, K, M)
<1> DEFINE h == head(M)
           u == head(M + 1)
<1>0. M \in Nat /\ NUM_LVLS \in Nat /\ M < NUM_LVLS /\ K \in Nat /\ K <= MAX_RANK /\ MAX_RANK \in Nat /\ K >= 0
  BY Addresses, MaxRankAssumption DEF Lvls, Ranks
<1>1. /\ h \in on /\ lv[h] = M /\ at[h] = 0 /\ m[h].rank = MAX_RANK /\ ~Un(m, h) /\ h # tail(M)
  BY Addresses DEF Shape, Ends, Un
<1>2. Run(on, lv, m, M, h, 0, h)
  BY <1>1 DEF Run
<1>3. Under(on, lv, at, m, K, M, u, h)
  <2>1. SUFFICES ASSUME M + 1 < NUM_LVLS
                 PROVE  /\ Placed(on, lv, m, K, M + 1, u) /\ at[u] <= at[h]
                        /\ at[h] < at[m[u].rptr]
    BY DEF Under
  <2>2. M + 1 \in Lvls
    BY <1>0, <2>1 DEF Lvls
  <2>3. \A x \in on \cap Nodes : lv[x] # M + 1
    <3>1. SUFFICES ASSUME NEW x \in on \cap Nodes, lv[x] = M + 1 PROVE FALSE
      OBVIOUS
    <3>2. lv[x] <= M
      OBVIOUS
    <3> QED BY <3>1, <3>2, <1>0
  <2>4. m[u].rptr = tail(M + 1)
    BY <2>2, <2>3, EmptyLevel
  <2>5. /\ u \in on /\ lv[u] = M + 1 /\ at[u] = 0 /\ m[u].rank = MAX_RANK /\ ~Un(m, u)
        /\ u # tail(M + 1)
    BY <2>2, Addresses DEF Shape, Ends, Un
  <2>6. /\ tail(M + 1) \in on /\ m[tail(M + 1)].rank = 0 /\ ~Un(m, tail(M + 1))
        /\ at[tail(M + 1)] = at[tail(0)] /\ 0 < at[tail(0)]
    BY <2>2 DEF Shape, Ends, Un
  <2>7. ~Un3(m, m[u].rptr)
    BY <2>4, <2>6 DEF Un3
  <2>8. Slack(on, m, u)
    BY <2>5, <2>7, SlackFrom
  <2>9. Last(on, lv, m, K, M + 1, u)
    BY <1>0, <2>4, <2>5, <2>6 DEF Last
  <2> QED BY <1>1, <2>4, <2>5, <2>6, <2>8, <2>9 DEF Placed
<1>4. M > 0 => dptr_head(M) = m[h].dptr
  <2>1. SUFFICES ASSUME M > 0 PROVE head(M - 1) = m[h].dptr
    BY DEF dptr_head
  <2>2. M - 1 \in Lvls
    BY <1>0, <2>1 DEF Lvls
  <2>3. m[h].dptr \in on /\ lv[m[h].dptr] = M - 1 /\ at[m[h].dptr] = 0
    BY <1>1, <2>1, OnTyped DEF Shape, Downs
  <2>4. head(M - 1) \in on /\ lv[head(M - 1)] = M - 1 /\ at[head(M - 1)] = 0
    BY <2>2 DEF Shape, Ends
  <2> QED BY <2>3, <2>4 DEF Shape, Alone
<1>5. /\ q.level = M /\ q.cons_nodes = 0 /\ ~q.store_d
      /\ q.n = h /\ q.d = h /\ q.u = u /\ Room(on, M + 2)
  BY DEF Start
<1> HIDE DEF h, u
<1>6. /\ q2.level = M /\ q2.u = u /\ q2.d = h /\ q2.cons_nodes = 0 /\ ~q2.store_d
      /\ q2.dR = m[h].rptr /\ q2.dD = dptr_head(M) /\ q2.l = h /\ q2.lVal = MAX_RANK
      /\ q2.n = m[h].rptr
  BY <1>5 DEF h
<1>7. Kept(m, q2, M)
  BY <1>4, <1>6 DEF Kept
<1>8. Along(on, lv, at, m, q2, K, M, q2.l)
  BY <1>0, <1>1, <1>2, <1>3, <1>5, <1>6, <1>7 DEF Along
<1> QED BY <1>1, <1>6, <1>8 DEF AtRight2

(* GO_RIGHT1: a node that is not the tail has one to its right. *)
LEMMA RightExists ==
  ASSUME NEW on, NEW lv, NEW at, NEW m, Shape(on, lv, at, m, NULL),
         NEW K, NEW M, NEW q, NEW o, AtRight1(on, lv, at, m, q, o, K, M)
  PROVE  o.rptr # NULL
<1>1. CASE Along(on, lv, at, m, q, K, M, q.n) /\ o = m[q.n]
  <2>1. q.n \in on /\ lv[q.n] = q.level /\ q.n # tail(q.level)
    BY <1>1 DEF Along, Run
  <2>2. m[q.n].rptr \in on
    BY <2>1 DEF Shape, Rights
  <2> QED BY <1>1, <2>2, OnTyped
<1>2. CASE Small(on, lv, m, q, K, o.rptr)
  BY <1>2, OnTyped DEF Small
<1>3. CASE Small(on, lv, m, q, K, q.n) /\ Behind(m, q, q.n) /\ o = m[q.n]
  <2>1. q.n \in on /\ Un(m, q.n)
    BY <1>3 DEF Small, Behind
  <2>2. m[q.n].rptr \in on
    BY <2>1, UnNode
  <2> QED BY <1>3, <2>2, OnTyped
<1> QED BY <1>1, <1>2, <1>3 DEF AtRight1

(* GO_RIGHT1: the next node on the right is about to be read.              *)
LEMMA GoesRight ==
  ASSUME NEW on, NEW lv, NEW at, NEW m, Shape(on, lv, at, m, NULL),
         NEW K \in Ranks, NEW M, NEW q, NEW o, AtRight1(on, lv, at, m, q, o, K, M),
         NEW q2, q2.level = q.level, q2.u = q.u, q2.d = q.d,
         q2.cons_nodes = q.cons_nodes, ~q2.store_d,
         q2.dR = IF q.store_d THEN o.rptr ELSE q.dR,
         q2.dD = IF q.store_d THEN o.dptr ELSE q.dD,
         q2.l = q.n, q2.lVal = o.rank, q2.n = o.rptr
  PROVE  AtRight2(on, lv, at, m, q2, K, M)
<1>1. CASE Along(on, lv, at, m, q, K, M, q.n) /\ o = m[q.n]
  <2>1. Kept(m, q2, q.level)
    BY <1>1 DEF Along, Kept
  <2>2. Along(on, lv, at, m, q2, K, M, q2.l)
    BY <1>1, <2>1 DEF Along
  <2> QED BY <1>1, <2>2 DEF AtRight2
<1>2. CASE Beyond(on, lv, m, q, K, M) /\ q.cons_nodes = 3 /\ Small(on, lv, m, q, K, o.rptr)
  <2>1. ~q.store_d
    BY <1>2 DEF Beyond
  <2>2. Kept(m, q2, q.level) /\ Beyond(on, lv, m, q2, K, M)
    BY <1>2, <2>1 DEF Beyond, Kept
  <2>3. Small(on, lv, m, q2, K, q2.n)
    BY <1>2 DEF Small
  <2> QED BY <1>2, <2>2, <2>3 DEF AtRight2
<1>3. CASE /\ Beyond(on, lv, m, q, K, M) /\ Small(on, lv, m, q, K, q.n) /\ Behind(m, q, q.n)
           /\ o = m[q.n]
  <2> DEFINE n == q.n
             x == m[n].rptr
  <2>1. n \in on /\ lv[n] = q.level + 1 /\ Un(m, n) /\ m[n].rank <= K
    BY <1>3 DEF Small, Behind
  <2>2. x \in on /\ lv[x] = q.level + 1 /\ at[n] < at[x] /\ n # tail(lv[n]) /\ lv[n] \in Lvls
    BY <2>1, UnNode
  <2>3. x # head(q.level + 1)
    BY <2>1, <2>2, Neighbours
  <2>4. m[x].rank <= K
    <3>1. m[n].rank >= m[x].rank
      BY <2>1, <2>2 DEF Shape, Sorted
    <3>2. m[n].rank \in Nat /\ m[x].rank \in Nat /\ K \in Nat
      BY <2>1, <2>2, OnTyped, MaxRankAssumption DEF Ranks
    <3> QED BY <3>1, <3>2, <2>1
  <2>5. o.rptr = x
    BY <1>3
  <2>6. ~q.store_d
    BY <1>3 DEF Beyond
  <2>7. Kept(m, q2, q.level) /\ Beyond(on, lv, m, q2, K, M)
    BY <1>3, <2>6 DEF Beyond, Kept
  <2>8. Small(on, lv, m, q2, K, q2.n)
    BY <2>2, <2>3, <2>4, <2>5 DEF Small
  <2>9. Behind(m, q2, q2.l) /\ q2.l \in on /\ q2.n = m[q2.l].rptr
    BY <1>3, <2>1, <2>5 DEF Behind
  <2> QED BY <2>7, <2>8, <2>9 DEF AtRight2
<1> QED BY <1>1, <1>2, <1>3 DEF AtRight1

(* What the walk knows of the nodes behind it and of the next one. *)
LEMMA RunFacts ==
  ASSUME NEW on, NEW lv, NEW at, NEW m, Shape(on, lv, at, m, NULL),
         NEW l, NEW a, NEW k, NEW d, Run(on, lv, m, l, a, k, d), NEW n, n = m[a].rptr
  PROVE  /\ l \in Lvls /\ a \in on /\ lv[a] = l /\ a # tail(l) /\ n \in on /\ lv[n] = l /\ at[a] < at[n]
         /\ n # head(l) /\ m[n].lptr = a
         /\ d \in on /\ lv[d] = l /\ d # tail(l)
         /\ ~Un(m, n) => Slack(on, m, d)
<1>1. a \in on /\ lv[a] = l /\ a # tail(l) /\ l \in Lvls
  BY OnTyped DEF Run
<1>2. n \in on /\ lv[n] = l /\ at[a] < at[n] /\ m[n].lptr = a /\ n # head(l)
  BY <1>1, Neighbours
<1> DEFINE b == m[a].lptr
           c == m[b].lptr
<1>3. CASE k = 0 /\ ~Un(m, a) /\ d = a
  <2>1. ~Un(m, n) => Slack(on, m, d)
    BY <1>1, <1>3, SlackFrom DEF Un3
  <2> QED BY <1>1, <1>2, <1>3, <2>1
<1>4. CASE Un(m, a) /\ d = a /\ (~Un(m, b) \/ (Un(m, b) /\ ~Un(m, c)))
  <2>1. ~Un(m, n) => ~Un3(m, m[d].rptr)
    BY <1>4 DEF Un3
  <2>2. ~Un(m, n) => Slack(on, m, d)
    BY <1>1, <1>4, <2>1, SlackFrom
  <2> QED BY <1>1, <1>2, <1>4, <2>2
<1>5. CASE Un(m, a) /\ d = b /\ ~Un(m, b)
  <2>1. b \in on /\ lv[b] = l /\ m[b].rptr = a /\ b # tail(l)
    BY <1>1, <1>5, UnNode
  <2>2. ~Un(m, n) => ~Un3(m, m[d].rptr)
    BY <1>5, <2>1 DEF Un3
  <2>3. ~Un(m, n) => Slack(on, m, d)
    BY <1>5, <2>1, <2>2, SlackFrom
  <2> QED BY <1>1, <1>2, <1>5, <2>1, <2>3
<1>6. CASE Un(m, a) /\ Un(m, b) /\ ~Un(m, c) /\ d \in {b, c}
  <2>1. b \in on /\ lv[b] = l /\ m[b].rptr = a /\ b # tail(l)
    BY <1>1, <1>6, UnNode
  <2> HIDE DEF b
  <2>2. c \in on /\ lv[c] = l /\ m[c].rptr = b /\ c # tail(l)
    BY <1>6, <2>1, UnNode
  <2>3. ~Un(m, n) => ~Un3(m, m[d].rptr)
    BY <1>6, <2>1, <2>2 DEF Un3
  <2>4. d \in on /\ lv[d] = l /\ d # tail(l)
    BY <1>6, <2>1, <2>2
  <2>5. ASSUME ~Un(m, n) PROVE Slack(on, m, d)
    <3>1. CASE d = c
      BY <1>6, <2>3, <2>4, <2>5, <3>1, SlackFrom
    <3>2. CASE d = b
      <4>1. ~Un(m, m[m[d].rptr].rptr) /\ ~Un(m, m[d].lptr)
        BY <1>6, <2>1, <2>5, <3>2
      <4> QED BY <2>3, <2>4, <2>5, <4>1, SlackFrom
    <3> QED BY <1>6, <3>1, <3>2
  <2> QED BY <1>1, <1>2, <2>4, <2>5
<1> QED BY <1>3, <1>4, <1>5, <1>6 DEF Run

(* GO_RIGHT2 at a node on which something stands: the level is left. *)
LEMMA LeavesLevel ==
  ASSUME NEW on, NEW lv, NEW at, NEW m, Shape(on, lv, at, m, NULL),
         NEW K \in Ranks, NEW M \in Lvls, NEW q, NEW q2,
         q2.level = q.level - 1, q2.u = q.d, ~q2.store_d,
         q2.d = (IF m[q.n].rank > K THEN q.n ELSE q.d),
         q2.dR = (IF m[q.n].rank > K THEN m[q.n].rptr ELSE q.dR),
         q2.dD = (IF m[q.n].rank > K THEN m[q.n].dptr ELSE q.dD),
         q2.n = q2.dD, ~Un(m, q.n), AtRight2(on, lv, at, m, q, K, M)
  PROVE  AtDown(on, lv, m, q2, K, M)
<1> DEFINE l == q.level
           n == q.n
           d == q.d
           a == q.l
<1>0. M \in Nat /\ K \in Nat
  BY Addresses, MaxRankAssumption DEF Ranks
<1>1. CASE Along(on, lv, at, m, q, K, M, a) /\ ~q.store_d /\ n = m[a].rptr
  <2>1. /\ l \in 0 .. M /\ Run(on, lv, m, l, a, q.cons_nodes, d)
        /\ m[d].rank >= K /\ (d = a \/ m[m[d].rptr].rank <= K)
        /\ Under(on, lv, at, m, K, l, q.u, a) /\ Kept(m, q, l) /\ Room(on, l + 2)
    BY <1>1 DEF Along
  <2>2. /\ l \in Lvls /\ a \in on /\ lv[a] = l /\ n \in on /\ lv[n] = l /\ at[a] < at[n]
        /\ d \in on /\ lv[d] = l /\ d # tail(l) /\ Slack(on, m, d)
    BY <1>1, <2>1, RunFacts
  <2>3. m[n].rank <= K
    BY <2>1, <2>2, RaisedSmall
  <2>4. m[n].rank \in Nat
    BY <2>2, OnTyped
  <2>5. q2.d = d /\ q2.dR = q.dR /\ q2.dD = q.dD
    BY <1>0, <2>3, <2>4
  <2>6. Placed(on, lv, m, K, l, d)
    BY <1>1, <2>1, <2>2, <2>3 DEF Placed, Last
  <2>7. l - 1 \in -1 .. M - 1 /\ (l - 1) + 1 = l /\ (l - 1) + 2 = l + 1
        /\ (l - 1 >= 0 => l > 0)
    BY <1>0, <2>1
  <2>8. Room(on, l + 1)
    <3>1. IsFiniteSet(Nodes \ on)
      BY LevelsFinite, FS_Subset
    <3>2. Cardinality(Nodes \ on) \in Nat
      BY <3>1, FS_CardinalityType
    <3> QED BY <2>1, <3>2 DEF Room
  <2> HIDE DEF l, d
  <2>9. q2.level = l - 1 /\ q2.u = d /\ ~q2.store_d
    BY DEF l, d
  <2>10. Kept(m, q2, l)
    BY <2>1, <2>5 DEF Kept, d
  <2>11. Found(on, lv, m, q2, K, M, q2.level)
    BY <2>5, <2>6, <2>7, <2>8, <2>9, <2>10 DEF Found
  <2>12. q2.level >= 0 => q2.n = m[q2.d].dptr
    BY <2>7, <2>9, <2>10 DEF Kept
  <2> QED BY <2>5, <2>9, <2>11, <2>12 DEF AtDown
<1>2. CASE Beyond(on, lv, m, q, K, M) /\ Small(on, lv, m, q, K, n)
  <2>1. /\ l \in 0 .. M - 1 /\ Placed(on, lv, m, K, l, d) /\ Kept(m, q, l) /\ Room(on, l + 1)
        /\ n \in on /\ m[n].rank <= K
    BY <1>2 DEF Beyond, Small
  <2>2. m[n].rank \in Nat
    BY <2>1, OnTyped
  <2>3. q2.d = d /\ q2.dR = q.dR /\ q2.dD = q.dD
    BY <1>0, <2>1, <2>2
  <2>4. l - 1 \in -1 .. M - 1 /\ (l - 1) + 1 = l /\ (l - 1) + 2 = l + 1
        /\ (l - 1 >= 0 => l > 0)
    BY <1>0, <2>1
  <2> HIDE DEF l, d
  <2>5. q2.level = l - 1 /\ q2.u = d /\ ~q2.store_d
    BY DEF l, d
  <2>6. Kept(m, q2, l)
    BY <2>1, <2>3 DEF Kept, d
  <2>7. Found(on, lv, m, q2, K, M, q2.level)
    BY <2>1, <2>3, <2>4, <2>5, <2>6 DEF Found
  <2>8. q2.level >= 0 => q2.n = m[q2.d].dptr
    BY <2>4, <2>5, <2>6 DEF Kept
  <2> QED BY <2>3, <2>5, <2>7, <2>8 DEF AtDown
<1> QED BY <1>1, <1>2 DEF AtRight2

(* The place kept while the walk goes on to node n. *)
LEMMA PlaceKept ==
  ASSUME NEW on, NEW lv, NEW at, NEW m, Shape(on, lv, at, m, NULL),
         NEW K \in Ranks, NEW M \in Lvls, NEW q, Along(on, lv, at, m, q, K, M, q.l), ~q.store_d,
         q.n = m[q.l].rptr, NEW q2,
         q2.d = (IF m[q.n].rank > K THEN q.n ELSE q.d),
         q2.dR = (IF m[q.n].rank > K THEN m[q.n].rptr ELSE q.dR),
         q2.dD = (IF m[q.n].rank > K THEN m[q.n].dptr ELSE q.dD)
  PROVE  /\ Kept(m, q2, q.level) /\ m[q2.d].rank >= K
         /\ q2.d = q.n \/ m[m[q2.d].rptr].rank <= K
         /\ q2.d = q.n \/ q2.d = q.d
<1> DEFINE n == q.n
           d == q.d
<1>0. K \in Nat
  BY MaxRankAssumption DEF Ranks
<1>1. /\ Run(on, lv, m, q.level, q.l, q.cons_nodes, d) /\ Kept(m, q, q.level)
      /\ m[d].rank >= K
      /\ d = q.l \/ m[m[d].rptr].rank <= K
  BY DEF Along
<1>2. n \in on
  BY <1>1, RunFacts
<1>3. m[n].rank \in Nat
  BY <1>2, OnTyped
<1>4. CASE m[n].rank > K
  <2>1. q2.d = n /\ q2.dR = m[n].rptr /\ q2.dD = m[n].dptr
    BY <1>4
  <2>2. m[n].rank >= K
    BY <1>0, <1>3, <1>4
  <2> QED BY <2>1, <2>2 DEF Kept
<1>5. CASE ~(m[n].rank > K)
  <2>1. q2.d = d /\ q2.dR = q.dR /\ q2.dD = q.dD
    BY <1>5
  <2>2. m[n].rank <= K
    BY <1>0, <1>3, <1>5
  <2> QED BY <1>1, <2>1, <2>2 DEF Kept
<1> QED BY <1>4, <1>5

(* GO_RIGHT2 at the third node in a row with nothing on it. *)
LEMMA MeetsThird ==
  ASSUME NEW on, NEW lv, NEW at, NEW m, Shape(on, lv, at, m, NULL),
         NEW K \in Ranks, NEW M \in Lvls, NEW q, NEW q2,
         q2.level = q.level, q2.u = q.u, q2.l = q.l, q2.lVal = q.lVal, q2.n = q.n,
         ~q2.store_d, q2.cons_nodes = 3,
         q2.d = (IF m[q.n].rank > K THEN q.n ELSE q.d),
         q2.dR = (IF m[q.n].rank > K THEN m[q.n].rptr ELSE q.dR),
         q2.dD = (IF m[q.n].rank > K THEN m[q.n].dptr ELSE q.dD),
         Un(m, q.n), q.cons_nodes = 2, AtRight2(on, lv, at, m, q, K, M)
  PROVE  Third(on, lv, at, m, q2, K, M)
<1> DEFINE l == q.level
           n == q.n
           d == q.d
           a == q.l
<1>1. CASE Beyond(on, lv, m, q, K, M) /\ q.l \in on /\ q.n = m[q.l].rptr /\ Behind(m, q, q.l)
  <2> DEFINE b == m[a].lptr
             c == m[b].lptr
  <2>1. a \in on /\ n = m[a].rptr /\ Un(m, a) /\ Un(m, b) /\ Un(m, c)
    BY <1>1 DEF Behind
  <2>2. b \in on /\ m[b].rptr = a
    BY <2>1, UnNode
  <2> HIDE DEF a, b
  <2>3. c \in on /\ m[c].rptr = b
    BY <2>1, <2>2, UnNode
  <2> HIDE DEF c
  <2>4. Un3(m, c) /\ Un(m, m[m[m[c].rptr].rptr].rptr)
    BY <2>1, <2>2, <2>3 DEF Un3
  <2> QED BY <2>3, <2>4 DEF Shape, Gaps
<1>2. CASE Along(on, lv, at, m, q, K, M, a) /\ ~q.store_d /\ n = m[a].rptr /\ q.lVal = m[a].rank
  <2> DEFINE b == m[a].lptr
             c == m[b].lptr
  <2>1. /\ l \in 0 .. M /\ Run(on, lv, m, l, a, 2, d)
        /\ Under(on, lv, at, m, K, l, q.u, a) /\ Room(on, l + 2)
    BY <1>2 DEF Along
  <2>2. Un(m, a) /\ Un(m, b) /\ ~Un(m, c) /\ d \in {a, b, c}
    BY <2>1 DEF Run
  <2>3. /\ l \in Lvls /\ a \in on /\ lv[a] = l /\ a # tail(l) /\ n \in on /\ lv[n] = l
        /\ at[a] < at[n] /\ m[n].lptr = a /\ d \in on /\ lv[d] = l /\ d # tail(l)
    BY <1>2, <2>1, RunFacts
  <2>4. b \in on /\ m[b].rptr = a
    BY <2>2, <2>3, UnNode
  <2>5. l + 1 < NUM_LVLS
    <3>1. SUFFICES ASSUME ~(l + 1 < NUM_LVLS) PROVE FALSE
      OBVIOUS
    <3>2. l \in Nat /\ NUM_LVLS \in Nat /\ l < NUM_LVLS
      BY <2>3, Addresses DEF Lvls
    <3>3. l = NUM_LVLS - 1 /\ l + 2 = NUM_LVLS + 1
      BY <3>1, <3>2
    <3>4. n \in Nodes /\ a \in Nodes
      BY <2>2, <2>3, UnNode
    <3>5. n # a
      <4>1. at[a] \in Nat
        BY <2>3, OnTyped
      <4> QED BY <2>3, <4>1
    <3> HIDE DEF l, n, a
    <3> QED BY <2>1, <2>3, <3>3, <3>4, <3>5, TopLevel
  <2>6. Under(on, lv, at, m, K, l, q.u, n) /\ at[q.u] < at[a]
    BY <1>2, <2>1, <2>2, <2>3, <2>5, UnderNext
  <2>7. /\ Kept(m, q2, l) /\ m[q2.d].rank >= K
        /\ q2.d = n \/ m[m[q2.d].rptr].rank <= K
        /\ q2.d = n \/ q2.d = d
    BY <1>2, PlaceKept
  <2>8. m[m[n].rptr].rank <= K
    <3> DEFINE x == m[n].rptr
    <3>1. x \in on /\ lv[x] = l /\ at[n] < at[x]
      BY <2>3, UnNode
    <3> HIDE DEF x
    <3>2. ~Un(m, x)
      <4>1. Un3(m, b)
        BY <1>2, <2>2, <2>4 DEF Un3
      <4> QED BY <1>2, <2>4, <4>1 DEF Shape, Gaps, x
    <3>3. m[x].rank <= K
      BY <2>3, <2>6, <3>1, <3>2, RaisedSmall
    <3> QED BY <3>3 DEF x
  <2>9. /\ q2.d \in {n, a, b, c}
        /\ Last(on, lv, m, K, l, q2.d)
    <3>1. n # tail(l)
      BY <2>3, UnNode
    <3> QED BY <2>2, <2>3, <2>7, <2>8, <3>1 DEF Last
  <2> HIDE DEF l, n, a, d
  <2>10. q2.level = l /\ q2.u = q.u /\ q2.l = a /\ q2.lVal = q.lVal /\ q2.n = n
    BY DEF l, n, a
  <2> QED BY <1>2, <2>1, <2>2, <2>3, <2>5, <2>6, <2>7, <2>9, <2>10 DEF Third
<1> QED BY <1>1, <1>2 DEF AtRight2

(* GO_RIGHT2 at another node with nothing on it. *)
LEMMA WalksOn ==
  ASSUME NEW on, NEW lv, NEW at, NEW m, Shape(on, lv, at, m, NULL),
         NEW K \in Ranks, NEW M \in Lvls, NEW q, NEW q2,
         q2.level = q.level, q2.u = q.u, q2.n = q.n,
         ~q2.store_d, q2.cons_nodes = (q.cons_nodes + 1) % 4,
         q2.d = (IF m[q.n].rank > K THEN q.n ELSE q.d),
         q2.dR = (IF m[q.n].rank > K THEN m[q.n].rptr ELSE q.dR),
         q2.dD = (IF m[q.n].rank > K THEN m[q.n].dptr ELSE q.dD),
         Un(m, q.n), q.cons_nodes # 2, AtRight2(on, lv, at, m, q, K, M)
  PROVE  AtRight1(on, lv, at, m, q2, m[q.n], K, M)
<1> DEFINE l == q.level
           n == q.n
           d == q.d
           a == q.l
<1>0. K \in Nat
  BY MaxRankAssumption DEF Ranks
<1>1. CASE Along(on, lv, at, m, q, K, M, a) /\ ~q.store_d /\ n = m[a].rptr /\ q.lVal = m[a].rank
  <2>1. /\ l \in 0 .. M /\ Run(on, lv, m, l, a, q.cons_nodes, d)
        /\ Under(on, lv, at, m, K, l, q.u, a) /\ Room(on, l + 2)
    BY <1>1 DEF Along
  <2>2. /\ l \in Lvls /\ a \in on /\ lv[a] = l /\ a # tail(l) /\ n \in on /\ lv[n] = l
        /\ m[n].lptr = a
    BY <1>1, <2>1, RunFacts
  <2>3. n # tail(l)
    BY <2>2, UnNode
  <2>4. Under(on, lv, at, m, K, l, q.u, n)
    BY <1>1, <2>1, <2>2, UnderNext
  <2>5. /\ Kept(m, q2, l) /\ m[q2.d].rank >= K
        /\ q2.d = n \/ m[m[q2.d].rptr].rank <= K
        /\ q2.d = n \/ q2.d = d
    BY <1>1, PlaceKept
  <2>6. Run(on, lv, m, l, n, q2.cons_nodes, q2.d)
    <3>1. CASE q.cons_nodes = 0
      <4>1. q2.cons_nodes = 1 /\ ~Un(m, a) /\ d = a
        BY <2>1, <3>1 DEF Run
      <4> QED BY <2>2, <2>3, <2>5, <4>1 DEF Run
    <3>2. CASE q.cons_nodes = 1
      <4>1. q2.cons_nodes = 2 /\ Un(m, a) /\ ~Un(m, m[a].lptr) /\ d \in {a, m[a].lptr}
        BY <2>1, <3>2 DEF Run
      <4> QED BY <2>2, <2>3, <2>5, <4>1 DEF Run
    <3> QED BY <2>1, <3>1, <3>2 DEF Run
  <2> HIDE DEF l, n, a, d
  <2>7. q2.level = l /\ q2.u = q.u /\ q2.n = n
    BY DEF l, n
  <2>8. Along(on, lv, at, m, q2, K, M, q2.n)
    BY <2>1, <2>4, <2>5, <2>6, <2>7 DEF Along
  <2> QED BY <2>7, <2>8 DEF AtRight1, n
<1>2. CASE /\ Beyond(on, lv, m, q, K, M) /\ Small(on, lv, m, q, K, n)
           /\ q.cons_nodes = 3 \/ (a \in on /\ n = m[a].rptr /\ Behind(m, q, a))
  <2>1. n \in on /\ m[n].rank <= K /\ lv[n] = l + 1 /\ n # head(l + 1)
    BY <1>2 DEF Small
  <2>2. m[n].rank \in Nat
    BY <2>1, OnTyped
  <2>3. q2.d = d /\ q2.dR = q.dR /\ q2.dD = q.dD
    BY <1>0, <2>1, <2>2
  <2>4. Kept(m, q2, l) /\ Beyond(on, lv, m, q2, K, M) /\ Small(on, lv, m, q2, K, q2.n)
    BY <1>2, <2>3 DEF Beyond, Kept, Small
  <2>5. Behind(m, q2, q2.n)
    <3>1. CASE q.cons_nodes = 3
      <4>1. q2.cons_nodes = 0
        BY <3>1
      <4> QED BY <4>1 DEF Behind
    <3>2. CASE a \in on /\ n = m[a].rptr /\ Behind(m, q, a)
      <4>1. Un(m, a)
        BY <3>2 DEF Behind
      <4>2. m[n].lptr = a
        BY <3>2, <4>1, UnNode
      <4>3. CASE q.cons_nodes = 0
        <5>1. q2.cons_nodes = 1
          BY <4>3
        <5> QED BY <4>1, <4>2, <5>1 DEF Behind
      <4>4. CASE q.cons_nodes = 1
        <5>1. q2.cons_nodes = 2 /\ Un(m, m[a].lptr)
          BY <3>2, <4>4 DEF Behind
        <5> QED BY <4>1, <4>2, <5>1 DEF Behind
      <4> QED BY <3>2, <4>3, <4>4 DEF Behind
    <3> QED BY <1>2, <3>1, <3>2
  <2> QED BY <2>4, <2>5 DEF AtRight1
<1> QED BY <1>1, <1>2 DEF AtRight2

-----------------------------------------------------------------------------
(* The free list and the room an insert needs.                             *)

(* The free list after a step holds exactly the nodes that were not linked *)
(* before it.                                                              *)
LEMMA FreeStep ==
  ASSUME NEW on, NEW lv, Books(on, lv), NEW e, NEW remove, Allowed(e, remove)
  PROVE  /\ free' = Nodes \ on
         /\ get_next_node' = (srch.state = "SRCH_CONN_NEAR" \/ ins_state = "INS_CONN_NEAR")
         /\ free_list_in' = IF Unlinks THEN rmv.node ELSE NULL
BY CycleParts DEF Books, FreeNow, FreeList, List, s

(* While a new node is linked nothing else happens to the free list, and   *)
(* the node on its head is free.                                           *)
LEMMA NewNode ==
  ASSUME NEW on, NEW lv, Books(on, lv), NEW k \in Nat, k > 0, Room(on, k),
         ~get_next_node, free_list_in = NULL
  PROVE  new_node \in Nodes /\ new_node \notin on
<1>1. free = Nodes \ on
  BY DEF Books, FreeNow
<1>2. free # {}
  <2>1. SUFFICES ASSUME free = {} PROVE FALSE
    OBVIOUS
  <2>2. Cardinality(Nodes \ on) = 0
    BY <1>1, <2>1, FS_EmptySet
  <2> QED BY <2>2 DEF Room
<1>3. free \subseteq Nat
  BY <1>1, Addresses
<1>4. \E x \in free : \A y \in free : x <= y
  BY <1>2, <1>3, NatHasLeast
<1>5. new_node \in free
  BY <1>4 DEF new_node
<1> QED BY <1>1, <1>5

(* While an entry is inserted the remove machine rests, and the entry and  *)
(* the number of entries stay as they are until the last step of it.       *)
LEMMA WhileInserting ==
  ASSUME NEW on, NEW lv, NEW at, ListInv(on, lv, at), Flags, MachinesInv,
         NEW e, NEW remove, Allowed(e, remove), ins_state # "INS_IDLE"
  PROVE  /\ ~Upper /\ ~Lower /\ ~Unlinks /\ Torn = NULL /\ ~Moves(e)
         /\ rmv'.state = "RMV_IDLE" /\ ~Upper' /\ ~Lower' /\ Torn' = NULL
         /\ Removing(on, lv)' /\ Shape(on, lv, at, mem, NULL)
         /\ ins_state # "INS_CONN_NEAR" => sl_num_entries' = sl_num_entries /\ sl_in' = sl_in
         /\ ins_state = "INS_CONN_NEAR" => sl_num_entries' = sl_num_entries + 1
         /\ ~sl_insert' /\ ~start_search' /\ sl_in \in Entry
         /\ free_list_in = NULL /\ free_list_in' = NULL /\ sl_num_entries \in Nat
         /\ lv \in [Addr -> Nat]
<1>1. /\ RemoveNode(e) /\ Main(e, remove) /\ Count(e) /\ Insert_(remove)
      /\ ins_busy /\ e = NoEntry
      /\ ins_state \in InsertStates /\ rmv.state \in RemoveStates
  BY CycleParts DEF MachinesInv, BusyWhenAtWork, Allowed, StatesOK
<1>2. rmv.state \in {"RMV_IDLE", "RMV_CHK_BUSY"}
  BY <1>1 DEF MachinesInv, OneAtATime
<1>3. ~Upper /\ ~Lower /\ ~Unlinks /\ Torn = NULL /\ ~Moves(e)
  BY <1>1, <1>2 DEF Upper, Lower, Unlinks, Torn, Moves
<1>4. rmv'.state = "RMV_IDLE"
  BY <1>1, <1>2, <1>3 DEF RemoveNode, MayMove, int_busy, NoRemoval
<1>5. ~Upper' /\ ~Lower' /\ Torn' = NULL /\ Removing(on, lv)'
  BY <1>4 DEF Upper, Lower, Torn, Removing
<1>6. ToList(e, remove) = NoEntry
  BY <1>1, NothingToList
<1>7. main_state = "INSERT" /\ sl_in \in Entry /\ ~sl_insert /\ ~sl_blk_ins_if_rmv /\ free_list_in = NULL
      /\ (insert_done <=> ins_state = "INS_CONN_NEAR")
  BY DEF Flags
<1>8. ~sl_insert' /\ ~start_search'
  BY <1>1, <1>6 DEF Main, Insert_
<1>9. ins_state # "INS_CONN_NEAR" => sl_in' = sl_in
  BY <1>1, <1>6, <1>7 DEF Main
<1>10. sl_num_entries \in Nat /\ Shape(on, lv, at, mem, NULL) /\ Books(on, lv)
  BY <1>3 DEF ListInv, Books
<1>11. sl_num_entries' = sl_num_entries + (IF ins_state = "INS_CONN_NEAR" THEN 1 ELSE 0) - 0
  BY <1>1, <1>3, <1>7 DEF Count
<1>12. free_list_in' = NULL
  BY <1>3, <1>10, FreeStep
<1> QED BY <1>3, <1>4, <1>5, <1>7, <1>8, <1>9, <1>10, <1>11, <1>12 DEF Shape, Typed

(* Room for a new entry is checked before it is taken for the list.        *)
LEMMA RoomStep ==
  ASSUME NEW on, NEW lv, NEW at, ListInv(on, lv, at), Flags, MachinesInv,
         NEW e, NEW remove, Allowed(e, remove), sl_insert' \/ start_search'
  PROVE  Room(on, NUM_LVLS + 1) /\ ins_state = "INS_IDLE" /\ ~Unlinks
<1>1. Main(e, remove) /\ Insert_(remove) /\ e \in MaybeEntry
  BY CycleParts
<1>2. CASE start_search'
  <2>1. sl_insert /\ ins_state = "INS_IDLE"
    BY <1>1, <1>2 DEF Insert_, Starts
  <2>2. ~Unlinks
    BY <2>1 DEF MachinesInv, OneAtATime, Unlinks
  <2>3. Room(on, NUM_LVLS + 1)
    BY <2>1 DEF ListInv, Searching
  <2> QED BY <2>1, <2>2, <2>3
<1>3. CASE sl_insert'
  <2>1. e # NoEntry
    BY <1>1, <1>3, NothingToList DEF Main
  <2>2. Taken(e)
    BY <1>1, <1>3 DEF Main, ToList, PassesMax
  <2>3. ~ins_busy /\ ~rmv_busy
    BY <2>1 DEF Allowed
  <2>4. ins_state = "INS_IDLE" /\ rmv.state = "RMV_IDLE"
    BY <2>3 DEF MachinesInv, BusyWhenAtWork
  <2>5. Torn = NULL /\ ~Lower /\ ~Unlinks
    BY <2>4 DEF Torn, Upper, Lower, Unlinks
  <2>6. Shape(on, lv, at, mem, NULL) /\ Books(on, lv)
    BY <2>5 DEF ListInv
  <2>7. IsFiniteSet(Nodes \ on)
    BY LevelsFinite, FS_Subset
  <2>8. CASE free_nodes_avail
    <3>1. free \subseteq Nodes \ on
      <4>1. ~get_next_node
        BY <2>3 DEF Flags
      <4> QED BY <2>6, <4>1 DEF Books, FreeNow
    <3>2. /\ IsFiniteSet(free) /\ Cardinality(free) <= Cardinality(Nodes \ on)
          /\ Cardinality(free) \in Nat /\ Cardinality(Nodes \ on) \in Nat
      BY <2>7, <3>1, FS_Subset, FS_CardinalityType
    <3>3. Cardinality(free) >= NUM_LVLS + 1
      BY <2>8 DEF free_nodes_avail
    <3>4. Cardinality(Nodes \ on) >= NUM_LVLS + 1
      BY <3>2, <3>3, Addresses
    <3> QED BY <2>4, <2>5, <3>4 DEF Room
  <2>9. CASE sl_num_entries = 0
    <3>1. Cardinality(Lowest(on, lv)) = 0
      BY <2>5, <2>6, <2>9 DEF Books
    <3>2. Lowest(on, lv) = Level(on, lv, 0)
      BY DEF Lowest, Level
    <3>3. Lowest(on, lv) = {}
      BY <3>1, <3>2, LevelsFinite, FS_EmptySet
    <3>4. \A x \in on \cap Nodes : lv[x] < 0
      BY <2>6, <3>3, EmptyAbove DEF Lowest
    <3>5. \A x \in on \cap Nodes : lv[x] \in Nat
      BY <2>6, OnTyped
    <3>6. Nodes \ on = Nodes
      BY <3>4, <3>5
    <3>7. Cardinality(Nodes \ on) = MAX_SIZE - 1 - 2 * NUM_LVLS
      BY <3>6, LevelsFinite
    <3>8. Cardinality(Nodes \ on) >= NUM_LVLS + 1
      BY <3>7, Addresses
    <3> QED BY <2>4, <2>5, <3>8 DEF Room
  <2> QED BY <2>2, <2>8, <2>9 DEF Taken
<1> QED BY <1>2, <1>3

-----------------------------------------------------------------------------
(* Writes to a node that is not linked.                                    *)

(* What a write to a node that is not linked leaves alone. *)
LEMMA FrameUn ==
  ASSUME NEW on, NEW lv, NEW at, NEW m, NEW z, Shape(on, lv, at, m, z),
         NEW m2, \A x \in on : m2[x] = m[x], NEW x \in on
  PROVE  (Un(m2, x) <=> Un(m, x)) /\ (Un3(m2, x) <=> Un3(m, x))
<1>1. Un(m2, x) <=> Un(m, x)
  BY DEF Un
<1> DEFINE y == m[x].rptr
           w == m[y].rptr
<1>2. CASE Un(m, x) /\ Un(m, y)
  <2>1. y \in on
    BY <1>2, UnNode
  <2>2. w \in on
    BY <1>2, <2>1, UnNode
  <2> QED BY <2>1, <2>2 DEF Un3, Un
<1>3. CASE Un(m, x) /\ ~Un(m, y)
  <2>1. y \in on
    BY <1>3, UnNode
  <2> QED BY <1>3, <2>1 DEF Un3, Un
<1>4. CASE ~Un(m, x)
  BY <1>1, <1>4 DEF Un3
<1> QED BY <1>1, <1>2, <1>3, <1>4

(* The same of the place found on a level.                                 *)
LEMMA FramePlaced ==
  ASSUME NEW on, NEW lv, NEW at, NEW m, NEW z, Shape(on, lv, at, m, z),
         NEW m2, \A x \in on : m2[x] = m[x],
         NEW K, NEW l, NEW d
  PROVE  /\ Last(on, lv, m, K, l, d) => Last(on, lv, m2, K, l, d) /\ m[d].rptr \in on
         /\ Placed(on, lv, m, K, l, d) => Placed(on, lv, m2, K, l, d)
<1> SUFFICES ASSUME Last(on, lv, m, K, l, d)
             PROVE  /\ Last(on, lv, m2, K, l, d) /\ m[d].rptr \in on
                    /\ Slack(on, m, d) => Slack(on, m2, d)
  BY DEF Placed
<1>1. d \in on /\ lv[d] = l /\ d # tail(l)
  BY DEF Last
<1>2. m[d].rptr \in on
  BY <1>1, Neighbours
<1>3. Last(on, lv, m2, K, l, d)
  BY <1>1, <1>2 DEF Last
<1>4. ASSUME Slack(on, m, d) PROVE Slack(on, m2, d)
  <2>1. ~Un3(m, m[d].rptr) /\ m2[d].rptr = m[d].rptr
    BY <1>1, <1>4 DEF Slack
  <2>2. ~Un3(m2, m2[d].rptr)
    BY <1>2, <2>1, FrameUn
  <2>3. ASSUME NEW x \in on, Un3(m2, x)
        PROVE  x # d /\ m2[x].rptr # d /\ m2[m2[x].rptr].rptr # d
    <3>1. Un3(m, x)
      BY <2>3, FrameUn
    <3>2. m[x].rptr \in on
      BY <3>1, UnNode DEF Un3
    <3>3. x # d /\ m[x].rptr # d /\ m[m[x].rptr].rptr # d
      BY <1>4, <3>1 DEF Slack
    <3> QED BY <2>3, <3>2, <3>3
  <2> QED BY <2>2, <2>3 DEF Slack
<1> QED BY <1>2, <1>3, <1>4

(* The same of what the search knows when it goes down or has ended.       *)
LEMMA FrameFound ==
  ASSUME NEW on, NEW lv, NEW at, NEW m, NEW z, Shape(on, lv, at, m, z),
         NEW m2, \A x \in on : m2[x] = m[x],
         NEW K, NEW M, NEW q, NEW l, Found(on, lv, m, q, K, M, l)
  PROVE  Found(on, lv, m2, q, K, M, l)
<1>1. Placed(on, lv, m, K, l + 1, q.d) /\ Kept(m, q, l + 1) /\ Room(on, l + 2) /\ l \in -1 .. M - 1
  BY DEF Found
<1>2. Placed(on, lv, m2, K, l + 1, q.d)
  BY <1>1, FramePlaced
<1>3. m2[q.d] = m[q.d]
  BY <1>1 DEF Placed, Last
<1> QED BY <1>1, <1>2, <1>3 DEF Found, Kept

(* SRCH_CONN_NEW fills the new node in; what the search knows stays true.  *)
LEMMA FrameThird ==
  ASSUME NEW on, NEW lv, NEW at, NEW m, Shape(on, lv, at, m, NULL),
         NEW m2, \A x \in on : m2[x] = m[x],
         NEW K, NEW M \in Lvls, NEW q, Third(on, lv, at, m, q, K, M),
         NEW q2, q2.level = q.level, q2.l = q.l, q2.n = q.n, q2.d = q.d, q2.u = q.u,
         q2.lVal = q.lVal, q2.cons_nodes = q.cons_nodes, q2.store_d = q.store_d,
         q2.dR = q.dR, q2.dD = q.dD
  PROVE  Third(on, lv, at, m2, q2, K, M)
<1> DEFINE b == m[q.l].lptr
           c == m[b].lptr
<1>1. /\ q.l \in on /\ q.n = m[q.l].rptr /\ Un(m, q.n) /\ Un(m, q.l) /\ Un(m, b) /\ ~Un(m, c)
      /\ Last(on, lv, m, K, q.level, q.d) /\ Under(on, lv, at, m, K, q.level, q.u, q.n)
      /\ Kept(m, q, q.level)
  BY DEF Third
<1>2. q.n \in on /\ b \in on
  BY <1>1, UnNode
<1> HIDE DEF b
<1>3. c \in on
  BY <1>1, <1>2, UnNode
<1>4. b = m2[q.l].lptr /\ c = m2[b].lptr
  BY <1>1, <1>2 DEF b
<1> HIDE DEF c
<1>5. Un(m2, q.n) /\ Un(m2, q.l) /\ Un(m2, b) /\ ~Un(m2, c)
  BY <1>1, <1>2, <1>3, FrameUn
<1>6. Last(on, lv, m2, K, q.level, q.d)
  BY <1>1, FramePlaced
<1>7. Under(on, lv, at, m2, K, q.level, q.u, q.n)
  <2>1. SUFFICES ASSUME q.level + 1 < NUM_LVLS
                 PROVE  /\ Placed(on, lv, m2, K, q.level + 1, q.u)
                        /\ at[q.u] <= at[q.n] /\ at[q.n] < at[m2[q.u].rptr]
    BY DEF Under
  <2>2. /\ Placed(on, lv, m, K, q.level + 1, q.u) /\ q.u \in on
        /\ at[q.u] <= at[q.n] /\ at[q.n] < at[m[q.u].rptr]
    BY <1>1, <2>1 DEF Under, Placed, Last
  <2> QED BY <2>2, FramePlaced
<1>8. Kept(m2, q, q.level)
  BY <1>1 DEF Kept, Last
<1>9. m2[q.l].rank = m[q.l].rank /\ m2[q.l].rptr = q.n
  BY <1>1
<1>10. q.d \in {q.n, q.l, b, c}
  BY DEF Third, b, c
<1> QED BY <1>1, <1>4, <1>5, <1>6, <1>7, <1>8, <1>9, <1>10 DEF Third, Kept

-----------------------------------------------------------------------------
(* A cycle in which the search writes nothing.                             *)

(* The RAM outputs the search machine sees next. *)
LEMMA DoutStep ==
  ASSUME Flags, MachinesInv, RegsTyped, NEW e, NEW remove, Allowed(e, remove),
         srch.state # "SRCH_IDLE"
  PROVE  /\ srch.state \notin Waits /\ srch'.state # "SRCH_IDLE" => dout' = dout
         /\ srch.state \in {"WAIT_MEM_RD1", "WAIT_MEM_RD2"} /\ bram_rd1 => dout' = mem[srch.n]
         /\ srch.state = "WAIT_MEM_RD3" /\ bram_rd1 => dout'.rptr = mem[srch.u].rptr
<1>1. Reads /\ dout \in Node /\ rmv.state \in RemoveStates
  BY CycleParts DEF RegsTyped, MachinesInv, StatesOK
<1>2. rmv.state \notin Waits
  BY <1>1 DEF MachinesInv, OneAtATime, s, Waits, RemoveStates
<1>3. srch.state \notin Waits => ~bram_rd1
  BY <1>2 DEF Flags, s
<1>4. srch.state \in {"WAIT_MEM_RD1", "WAIT_MEM_RD2"} /\ bram_rd1 => dout' = mem[srch.n]
  BY <1>1 DEF Reads, s, Waits
<1>5. srch.state = "WAIT_MEM_RD3" /\ bram_rd1 => dout' = [dout EXCEPT !.rptr = mem[srch.u].rptr]
  BY <1>1 DEF Reads, s, Waits
<1>6. [dout EXCEPT !.rptr = mem[srch.u].rptr].rptr = mem[srch.u].rptr
  BY <1>1 DEF Node
<1> QED BY <1>1, <1>3, <1>4, <1>5, <1>6 DEF Reads, s

(* What the predicates on the search depend on. *)
Registers(q, q2) ==
  /\ q2.level = q.level /\ q2.n = q.n /\ q2.l = q.l /\ q2.u = q.u /\ q2.d = q.d
  /\ q2.dR = q.dR /\ q2.dD = q.dD /\ q2.lVal = q.lVal
  /\ q2.cons_nodes = q.cons_nodes /\ q2.store_d = q.store_d

(* A step that keeps these registers keeps what the search knows.          *)
LEMMA SameRegisters ==
  ASSUME NEW on, NEW lv, NEW at, NEW m, NEW K, NEW M, NEW q, NEW q2, NEW o, Registers(q, q2)
  PROVE  /\ Found(on, lv, m, q, K, M, -1) => Found(on, lv, m, q2, K, M, -1)
         /\ AtRight2(on, lv, at, m, q, K, M) => AtRight2(on, lv, at, m, q2, K, M)
         /\ Along(on, lv, at, m, q, K, M, q.n) => Along(on, lv, at, m, q2, K, M, q2.n)
         /\ Third(on, lv, at, m, q, K, M) => Third(on, lv, at, m, q2, K, M)
<1> USE DEF Registers
<1>1. Kept(m, q, q.level) => Kept(m, q2, q2.level)
  BY DEF Kept
<1>2. Found(on, lv, m, q, K, M, -1) => Found(on, lv, m, q2, K, M, -1)
  BY DEF Found, Kept
<1>3. \A x : Along(on, lv, at, m, q, K, M, x) => Along(on, lv, at, m, q2, K, M, x)
  BY <1>1 DEF Along
<1>4. Beyond(on, lv, m, q, K, M) => Beyond(on, lv, m, q2, K, M)
  BY <1>1 DEF Beyond
<1>5. \A x : Small(on, lv, m, q, K, x) => Small(on, lv, m, q2, K, x)
  BY DEF Small
<1>6. \A x : Behind(m, q, x) => Behind(m, q2, x)
  BY DEF Behind
<1>7. AtRight2(on, lv, at, m, q, K, M) => AtRight2(on, lv, at, m, q2, K, M)
  BY <1>3, <1>4, <1>5, <1>6 DEF AtRight2
<1>8. Third(on, lv, at, m, q, K, M) => Third(on, lv, at, m, q2, K, M)
  BY <1>1 DEF Third
<1> QED BY <1>2, <1>3, <1>7, <1>8

(* A step of the search machine that writes nothing. *)
LEMMA SearchQuiet ==
  ASSUME NEW on, NEW lv, NEW at, ListInv(on, lv, at), Flags, MachinesInv, RegsTyped,
         NEW e, NEW remove, Allowed(e, remove),
         ins_state = "INS_CONN_NEW", ~search_done,
         srch.state \notin {"SRCH_CONN_NEW", "SRCH_CONN_NEAR"},
         NEW w
  PROVE  /\ Seeking(on, lv, at, mem, srch', dout', sl_in.rank, curr_max_lvl, w)
         /\ srch'.state = "SRCH_IDLE" =>
              Found(on, lv, mem, srch', sl_in.rank, curr_max_lvl, -1)
<1> USE ConsAssumption
<1> DEFINE K == sl_in.rank
           M == curr_max_lvl
           q == srch
           Goal == /\ Seeking(on, lv, at, mem, srch', dout', K, M, w)
                   /\ srch'.state = "SRCH_IDLE" => Found(on, lv, mem, srch', K, M, -1)
<1> USE DEF s
<1>0. /\ Shape(on, lv, at, mem, NULL) /\ sl_in \in Entry
      /\ Books(on, lv) /\ Searching(on, lv, at) /\ Search
      /\ Seeking(on, lv, at, mem, q, dout, K, M, new_node)
  BY WhileInserting, CycleParts DEF ListInv, Searching
<1>1. K \in Ranks
  BY <1>0 DEF Entry
<1>2. /\ M \in Lvls /\ M \in Nat /\ M < NUM_LVLS /\ \A x \in on \cap Nodes : lv[x] <= M
      /\ rptr_head[M] = mem[head(M)].rptr
  BY <1>0, Addresses DEF Books, Lvls
<1>3. q \in SearchRegs /\ q.state \in SearchStates
  BY DEF RegsTyped, SearchRegs
<1>4. CASE q.state = "SRCH_IDLE"
  <2>1. start_search /\ q = NoSearch
    BY <1>4 DEF Flags
  <2>2. srch' = [NoSearch EXCEPT !.state = "GO_RIGHT1", !.level = M,
                                 !.n = head(M), !.u = head(M + 1),
                                 !.d = head(M), !.first_node = TRUE]
    BY <1>0, <1>4, <2>1 DEF Search, SrchIdle
  <2>3. /\ srch'.level = M /\ srch'.n = head(M) /\ srch'.u = head(M + 1) /\ srch'.d = head(M)
        /\ srch'.cons_nodes = 0 /\ srch'.store_d = FALSE /\ srch'.state = "GO_RIGHT1"
        /\ srch'.first_node = TRUE
    BY <2>2 DEF NoSearch
  <2>4. Room(on, M + 2)
    <3>1. Cardinality(Nodes \ on) >= NUM_LVLS + 1
      BY <1>0, <2>1 DEF Searching, Room
    <3>2. Cardinality(Nodes \ on) \in Nat
      BY LevelsFinite, FS_Subset, FS_CardinalityType
    <3>3. Cardinality(Nodes \ on) >= M + 2
      BY <1>2, <3>1, <3>2, Addresses
    <3> QED BY <3>3 DEF Room
  <2>5. Start(on, srch', M)
    BY <2>3, <2>4 DEF Start
  <2> QED BY <2>3, <2>5 DEF Seeking
<1>5. CASE q.state = "GO_DOWN"
  <2>1. AtDown(on, lv, mem, q, K, M) /\ ~q.first_node
    BY <1>0, <1>3, <1>5 DEF Seeking
  <2>2. srch' = GoDown
    BY <1>0, <1>5 DEF Search
  <2>3. CASE q.level = -1
    <3>1. srch' = [q EXCEPT !.state = "SRCH_IDLE"]
      BY <2>2, <2>3 DEF GoDown
    <3>2. srch'.state = "SRCH_IDLE" /\ ~srch'.first_node /\ Registers(q, srch')
      BY <1>3, <2>1, <3>1 DEF SearchRegs, Registers
    <3>3. Found(on, lv, mem, q, K, M, -1)
      BY <2>1, <2>3 DEF AtDown
    <3>4. Found(on, lv, mem, srch', K, M, -1)
      <4> HIDE DEF q, K, M
      <4> QED BY <3>2, <3>3, SameRegisters
    <3> QED BY <3>2, <3>4 DEF Seeking
  <2>4. CASE q.level # -1
    <3>1. srch' = [q EXCEPT !.state = "WAIT_MEM_RD1", !.cons_nodes = 0, !.d = q.n, !.store_d = TRUE]
      BY <2>2, <2>4 DEF GoDown
    <3>2. /\ srch'.state = "WAIT_MEM_RD1" /\ ~srch'.first_node /\ srch'.level = q.level
          /\ srch'.n = q.n /\ srch'.u = q.u /\ srch'.d = q.n /\ srch'.cons_nodes = 0
          /\ srch'.store_d = TRUE
      BY <1>3, <2>1, <3>1 DEF SearchRegs
    <3>3. Along(on, lv, at, mem, srch', K, M, srch'.n)
      <4> HIDE DEF q, K, M
      <4> QED BY <1>0, <1>2, <2>1, <2>4, <3>2, GoesDown
    <3> QED BY <3>2, <3>3 DEF Seeking
  <2> QED BY <2>3, <2>4
<1>6. CASE q.state = "WAIT_MEM_RD1"
  <2>1. Along(on, lv, at, mem, q, K, M, q.n) /\ q.store_d /\ ~q.first_node
    BY <1>0, <1>3, <1>6 DEF Seeking
  <2>2. srch' = Wait("GO_RIGHT1")
    BY <1>0, <1>6 DEF Search
  <2>3. CASE bram_rd1
    <3>1. srch' = [q EXCEPT !.state = "GO_RIGHT1"]
      BY <2>2, <2>3 DEF Wait
    <3>2. srch'.state = "GO_RIGHT1" /\ ~srch'.first_node /\ Registers(q, srch')
      BY <1>3, <2>1, <3>1 DEF SearchRegs, Registers
    <3>3. dout' = mem[srch'.n]
      BY <1>6, <2>3, <3>2, DoutStep DEF Registers
    <3>4. Along(on, lv, at, mem, srch', K, M, srch'.n)
      <4> HIDE DEF q, K, M
      <4> QED BY <2>1, <3>2, SameRegisters
    <3>5. AtRight1(on, lv, at, mem, srch', dout', K, M)
      BY <3>3, <3>4 DEF AtRight1
    <3> QED BY <3>2, <3>5 DEF Seeking
  <2>4. CASE ~bram_rd1
    <3>1. srch' = srch
      BY <2>2, <2>4 DEF Wait
    <3> QED BY <1>6, <2>1, <3>1 DEF Seeking
  <2> QED BY <2>3, <2>4
<1>7. CASE q.state = "WAIT_MEM_RD2"
  <2>1. AtRight2(on, lv, at, mem, q, K, M) /\ ~q.first_node
    BY <1>0, <1>3, <1>7 DEF Seeking
  <2>2. srch' = Wait("GO_RIGHT2")
    BY <1>0, <1>7 DEF Search
  <2>3. CASE bram_rd1
    <3>1. srch' = [q EXCEPT !.state = "GO_RIGHT2"]
      BY <2>2, <2>3 DEF Wait
    <3>2. srch'.state = "GO_RIGHT2" /\ ~srch'.first_node /\ Registers(q, srch')
      BY <1>3, <2>1, <3>1 DEF SearchRegs, Registers
    <3>3. dout' = mem[srch'.n]
      BY <1>7, <2>3, <3>2, DoutStep DEF Registers
    <3>4. AtRight2(on, lv, at, mem, srch', K, M)
      <4> HIDE DEF q, K, M
      <4> QED BY <2>1, <3>2, SameRegisters
    <3> QED BY <3>2, <3>3, <3>4 DEF Seeking
  <2>4. CASE ~bram_rd1
    <3>1. srch' = srch
      BY <2>2, <2>4 DEF Wait
    <3> QED BY <1>7, <2>1, <3>1 DEF Seeking
  <2> QED BY <2>3, <2>4
<1>8. CASE q.state = "WAIT_MEM_RD3"
  <2>1. Third(on, lv, at, mem, q, K, M) /\ ~q.first_node
    BY <1>0, <1>3, <1>8 DEF Seeking
  <2>2. srch' = Wait("SRCH_CONN_NEW")
    BY <1>0, <1>8 DEF Search
  <2>3. CASE bram_rd1
    <3>1. srch' = [q EXCEPT !.state = "SRCH_CONN_NEW"]
      BY <2>2, <2>3 DEF Wait
    <3>2. srch'.state = "SRCH_CONN_NEW" /\ ~srch'.first_node /\ Registers(q, srch')
      BY <1>3, <2>1, <3>1 DEF SearchRegs, Registers
    <3>3. dout'.rptr = mem[srch'.u].rptr
      BY <1>8, <2>3, <3>2, DoutStep DEF Registers
    <3>4. Third(on, lv, at, mem, srch', K, M)
      <4> HIDE DEF q, K, M
      <4> QED BY <2>1, <3>2, SameRegisters
    <3> QED BY <3>2, <3>3, <3>4 DEF Seeking
  <2>4. CASE ~bram_rd1
    <3>1. srch' = srch
      BY <2>2, <2>4 DEF Wait
    <3> QED BY <1>8, <2>1, <3>1 DEF Seeking
  <2> QED BY <2>3, <2>4
<1>9. CASE q.state = "GO_RIGHT1" /\ q.first_node
  <2>1. Start(on, q, M)
    BY <1>0, <1>9 DEF Seeking
  <2>2. srch' = FirstRight
    BY <1>0, <1>9 DEF Search, GoRight1
  <2>3. /\ srch'.state = "WAIT_MEM_RD2" /\ srch'.first_node = FALSE
        /\ srch'.level = q.level /\ srch'.u = q.u /\ srch'.d = q.d
        /\ srch'.cons_nodes = q.cons_nodes /\ srch'.store_d = q.store_d
        /\ srch'.dR = mem[head(M)].rptr /\ srch'.dD = dptr_head(M)
        /\ srch'.l = q.n /\ srch'.lVal = MAX_RANK /\ srch'.n = mem[head(M)].rptr
    BY <1>2, <1>3, <2>2 DEF FirstRight, SearchRegs
  <2>4. AtRight2(on, lv, at, mem, srch', K, M)
    <3> HIDE DEF q, K, M
    <3> QED BY <1>0, <1>1, <1>2, <2>1, <2>3, FirstGoesRight
  <2> QED BY <2>3, <2>4 DEF Seeking
<1>10. CASE q.state = "GO_RIGHT1" /\ ~q.first_node
  <2>1. AtRight1(on, lv, at, mem, q, dout, K, M)
    BY <1>0, <1>10 DEF Seeking
  <2>2. dout.rptr # NULL
    <3> HIDE DEF q, K, M
    <3> QED BY <1>0, <2>1, RightExists
  <2>3. srch' = GoRight1
    BY <1>0, <1>10 DEF Search
  <2> DEFINE t == IF q.store_d
                  THEN [q EXCEPT !.dR = dout.rptr, !.dD = dout.dptr, !.store_d = FALSE]
                  ELSE q
  <2>4. srch' = [t EXCEPT !.state = "WAIT_MEM_RD2", !.l = q.n, !.lVal = dout.rank, !.n = dout.rptr]
    BY <1>10, <2>2, <2>3 DEF GoRight1
  <2>5. /\ srch'.state = "WAIT_MEM_RD2" /\ ~srch'.first_node
        /\ srch'.level = q.level /\ srch'.u = q.u /\ srch'.d = q.d
        /\ srch'.cons_nodes = q.cons_nodes /\ ~srch'.store_d
        /\ srch'.dR = (IF q.store_d THEN dout.rptr ELSE q.dR)
        /\ srch'.dD = (IF q.store_d THEN dout.dptr ELSE q.dD)
        /\ srch'.l = q.n /\ srch'.lVal = dout.rank /\ srch'.n = dout.rptr
    BY <1>3, <1>10, <2>4 DEF SearchRegs
  <2>6. AtRight2(on, lv, at, mem, srch', K, M)
    <3> HIDE DEF q, K, M
    <3> QED BY <1>0, <1>1, <2>1, <2>5, GoesRight
  <2> QED BY <2>5, <2>6 DEF Seeking
<1>11. CASE q.state = "GO_RIGHT2"
  <2>1. AtRight2(on, lv, at, mem, q, K, M) /\ ~q.first_node /\ dout = mem[q.n]
    BY <1>0, <1>3, <1>11 DEF Seeking
  <2>2. srch' = GoRight2
    BY <1>0, <1>11 DEF Search
  <2> DEFINE larger == mem[q.n].rank > K
             t == [q EXCEPT !.d  = IF larger THEN q.n ELSE q.d,
                            !.dR = IF larger THEN mem[q.n].rptr ELSE q.dR,
                            !.dD = IF larger THEN mem[q.n].dptr ELSE q.dD,
                            !.cons_nodes = (q.cons_nodes + 1) % 4]
  <2>3. srch' = IF ~Un(mem, q.n)
                THEN [t EXCEPT !.state = "GO_DOWN", !.u = q.d, !.n = t.dD, !.level = q.level - 1]
                ELSE IF q.cons_nodes = 2
                THEN [t EXCEPT !.state = "WAIT_MEM_RD3"]
                ELSE [t EXCEPT !.state = "GO_RIGHT1"]
    BY <2>1, <2>2 DEF GoRight2, Un
  <2>4. /\ DOMAIN t = DOMAIN q
        /\ DOMAIN q = {"state", "level", "n", "l", "u", "d", "uR", "dR", "dD", "lVal",
                       "cons_nodes", "first_node", "store_d"}
        /\ t.level = q.level /\ t.n = q.n /\ t.u = q.u /\ t.l = q.l /\ t.lVal = q.lVal
        /\ t.first_node = q.first_node /\ t.store_d = q.store_d
        /\ t.cons_nodes = (q.cons_nodes + 1) % 4
        /\ t.d = (IF larger THEN q.n ELSE q.d)
        /\ t.dR = (IF larger THEN mem[q.n].rptr ELSE q.dR)
        /\ t.dD = (IF larger THEN mem[q.n].dptr ELSE q.dD)
    BY <1>3 DEF SearchRegs
  <2> HIDE DEF t
  <2>5. ~q.store_d
    BY <2>1 DEF AtRight2, Beyond
  <2>6. CASE ~Un(mem, q.n)
    <3>1. /\ srch'.state = "GO_DOWN" /\ ~srch'.first_node /\ srch'.level = q.level - 1 /\ srch'.u = q.d
          /\ ~srch'.store_d /\ srch'.d = (IF larger THEN q.n ELSE q.d)
          /\ srch'.dR = (IF larger THEN mem[q.n].rptr ELSE q.dR)
          /\ srch'.dD = (IF larger THEN mem[q.n].dptr ELSE q.dD)
          /\ srch'.n = srch'.dD
      BY <2>1, <2>3, <2>4, <2>5, <2>6
    <3>2. AtDown(on, lv, mem, srch', K, M)
      <4> HIDE DEF q, K, M
      <4> QED BY <1>0, <1>1, <1>2, <2>1, <2>6, <3>1, LeavesLevel
    <3> QED BY <3>1, <3>2 DEF Seeking
  <2>7. CASE Un(mem, q.n) /\ q.cons_nodes = 2
    <3>1. /\ srch'.state = "WAIT_MEM_RD3" /\ ~srch'.first_node /\ srch'.level = q.level
          /\ srch'.u = q.u /\ srch'.l = q.l /\ srch'.lVal = q.lVal /\ srch'.n = q.n
          /\ ~srch'.store_d /\ srch'.cons_nodes = 3
          /\ srch'.d = (IF larger THEN q.n ELSE q.d)
          /\ srch'.dR = (IF larger THEN mem[q.n].rptr ELSE q.dR)
          /\ srch'.dD = (IF larger THEN mem[q.n].dptr ELSE q.dD)
      BY <2>1, <2>3, <2>4, <2>5, <2>7
    <3>2. Third(on, lv, at, mem, srch', K, M)
      <4> HIDE DEF q, K, M
      <4> QED BY <1>0, <1>1, <1>2, <2>1, <2>7, <3>1, MeetsThird
    <3> QED BY <3>1, <3>2 DEF Seeking
  <2>8. CASE Un(mem, q.n) /\ q.cons_nodes # 2
    <3>1. /\ srch'.state = "GO_RIGHT1" /\ ~srch'.first_node /\ srch'.level = q.level
          /\ srch'.u = q.u /\ srch'.n = q.n
          /\ ~srch'.store_d /\ srch'.cons_nodes = (q.cons_nodes + 1) % 4
          /\ srch'.d = (IF larger THEN q.n ELSE q.d)
          /\ srch'.dR = (IF larger THEN mem[q.n].rptr ELSE q.dR)
          /\ srch'.dD = (IF larger THEN mem[q.n].dptr ELSE q.dD)
      BY <2>1, <2>3, <2>4, <2>5, <2>8
    <3>2. AtRight1(on, lv, at, mem, srch', mem[q.n], K, M)
      <4> HIDE DEF q, K, M
      <4> QED BY <1>0, <1>1, <1>2, <2>1, <2>8, <3>1, WalksOn
    <3>3. dout' = mem[q.n]
      BY <1>11, <2>1, <3>1, DoutStep DEF Waits
    <3> QED BY <3>1, <3>2, <3>3 DEF Seeking
  <2> QED BY <2>6, <2>7, <2>8
<1> QED BY <1>3, <1>4, <1>5, <1>6, <1>7, <1>8, <1>9, <1>10, <1>11 DEF SearchStates

-----------------------------------------------------------------------------
(* SRCH_CONN_NEW and INS_CONN_NEW: the new node is filled in.              *)

(* The registers beside the RAMs in a step that links and unlinks nothing. *)
LEMMA BooksFrame ==
  ASSUME NEW on, NEW lv, NEW at, NEW z, Shape(on, lv, at, mem, z), Books(on, lv),
         NEW e, NEW remove, Allowed(e, remove), \A x \in on : mem'[x] = mem[x],
         ~Unlinks, ins_state # "INS_CONN_NEAR", srch.state # "SRCH_CONN_NEAR",
         sl_num_entries' \in Nat,
         sl_num_entries' + (IF Lower' THEN 1 ELSE 0) = sl_num_entries + (IF Lower THEN 1 ELSE 0)
  PROVE  Books(on, lv)' /\ curr_max_lvl' = curr_max_lvl
<1>1. free' = Nodes \ on /\ get_next_node' = FALSE /\ free_list_in' = NULL
  BY FreeStep
<1>2. free' \subseteq Nodes /\ FreeNow' = Nodes \ on
  BY <1>1 DEF FreeNow
<1>3. Copies
  BY CycleParts
<1>4. rmv.state # "RMV_DEQ_NODE" /\ rmv.state # "RMV_CONN_LEFT_TAIL"
  BY DEF Unlinks
<1>5. curr_max_lvl' = curr_max_lvl /\ lptr_tail' = lptr_tail
  BY <1>3, <1>4 DEF Copies, s
<1>6. rptr_head' = rptr_head
  <2>1. rptr_head' = [l \in Lvls |-> rptr_head[l]]
    BY <1>3 DEF Copies, s
  <2> QED BY <2>1 DEF Books
<1>7. \A l \in Lvls : head(l) \in on /\ tail(l) \in on
  BY DEF Shape, Ends
<1>8. /\ \A l \in Lvls : mem'[head(l)] = mem[head(l)]
      /\ mem'[tail(0)] = mem[tail(0)]
  BY <1>7, Addresses
<1>9. Cardinality(Lowest(on, lv)) = sl_num_entries' + (IF Lower' THEN 1 ELSE 0)
  BY DEF Books
<1>10. /\ curr_max_lvl \in Lvls /\ (\A x \in on \cap Nodes : lv[x] <= curr_max_lvl)
       /\ rptr_head \in [Lvls -> Addr] /\ (\A l \in Lvls : rptr_head[l] = mem[head(l)].rptr)
       /\ (lptr_tail = mem[tail(0)].lptr \/ mem[tail(0)].lptr = head(0))
  BY DEF Books
<1>11. /\ curr_max_lvl' \in Lvls /\ (\A x \in on \cap Nodes : lv[x] <= curr_max_lvl')
       /\ rptr_head' \in [Lvls -> Addr] /\ (\A l \in Lvls : rptr_head'[l] = mem'[head(l)].rptr)
       /\ (lptr_tail' = mem'[tail(0)].lptr \/ mem'[tail(0)].lptr = head(0))
  BY <1>5, <1>6, <1>8, <1>10
<1> QED BY <1>2, <1>5, <1>9, <1>11 DEF Books, Lowest

(* The node on the head of the free list stays there.                      *)
LEMMA NewNodeStays ==
  ASSUME NEW on, NEW lv, Books(on, lv), NEW e, NEW remove, Allowed(e, remove),
         ~get_next_node, free_list_in = NULL
  PROVE  free' = free /\ free = Nodes \ on /\ new_node' = new_node
<1>1. free = Nodes \ on
  BY DEF Books, FreeNow
<1>2. free' = free
  BY <1>1, FreeStep
<1> QED BY <1>1, <1>2 DEF new_node

(* SRCH_CONN_NEW: the new node is filled in. *)
LEMMA StepConnNew ==
  ASSUME NEW on, NEW lv, NEW at, ListInv(on, lv, at), Flags, MachinesInv, RegsTyped,
         NEW e, NEW remove, Allowed(e, remove), srch.state = "SRCH_CONN_NEW"
  PROVE  ListInv(on, lv, at)'
<1> DEFINE K == sl_in.rank
           M == curr_max_lvl
           q == srch
           w == new_node
<1> USE DEF s
<1>1. ins_state = "INS_CONN_NEW" /\ ~search_done /\ ~get_next_node
  BY DEF MachinesInv, SearchWithinInsert, Flags
<1>2. /\ Shape(on, lv, at, mem, NULL) /\ Books(on, lv) /\ Searching(on, lv, at) /\ Search /\ List
      /\ Insert_(remove) /\ sl_in' = sl_in /\ sl_num_entries' = sl_num_entries
      /\ sl_num_entries \in Nat /\ ~Lower /\ ~Lower' /\ Torn' = NULL /\ ~Unlinks
      /\ Removing(on, lv)' /\ ~sl_insert' /\ ~start_search' /\ free_list_in = NULL
  BY <1>1, WhileInserting, CycleParts DEF ListInv
<1>3. /\ Third(on, lv, at, mem, q, K, M) /\ dout.rptr = mem[q.u].rptr /\ ~q.first_node
  BY <1>2 DEF Searching, Seeking
<1>4. M \in Lvls /\ q \in SearchRegs /\ dout \in Node
  BY <1>2 DEF Books, RegsTyped
<1>5. w \in Nodes /\ w \notin on
  <2>1. Room(on, q.level + 2) /\ q.level + 2 \in Nat /\ q.level + 2 > 0
    BY <1>3 DEF Third
  <2> HIDE DEF w, q
  <2> QED BY <1>1, <1>2, <2>1, NewNode DEF w
<1>6. mem \in [Addr -> Node] /\ w \in Addr /\ mem[w] \in Node
  BY <1>2, <1>5, Addresses DEF Shape, Typed
<1> DEFINE x == [mem[w] EXCEPT !.rank = q.lVal, !.rptr = dout.rptr,
                               !.lptr = q.u, !.uptr = NULL, !.dptr = q.l]
<1>7. mem' = [mem EXCEPT ![w] = x]
  <2>1. SearchWrites(mem) = [mem EXCEPT ![w] = x]
    BY DEF SearchWrites
  <2>2. \A m : InsertWrites(m) = m
    BY <1>1 DEF InsertWrites
  <2>3. \A m : RemoveWrites(m) = m
    BY <1>2 DEF RemoveWrites
  <2> QED BY <1>2, <2>1, <2>2, <2>3 DEF List
<1>8. /\ x \in Node /\ x.rank = q.lVal /\ x.rptr = dout.rptr /\ x.lptr = q.u /\ x.uptr = NULL
      /\ x.dptr = q.l
  BY <1>4, <1>6, Addresses DEF Node, SearchRegs
<1> HIDE DEF x
<1>9. mem' \in [Addr -> Node] /\ mem'[w] = x /\ \A y \in on : mem'[y] = mem[y]
  BY <1>5, <1>6, <1>7, <1>8
<1>10. Shape(on, lv, at, mem', NULL)
  <2>1. \A m2 \in [Addr -> Node] : (\A y \in on : m2[y] = mem[y]) => Shape(on, lv, at, m2, NULL)
    BY <1>2, FrameShape
  <2> QED BY <1>9, <2>1
<1>11. Shape(on, lv, at, mem, Torn)'
  BY <1>2, <1>10
<1>12. Books(on, lv)' /\ M' = M
  BY <1>1, <1>2, <1>9, BooksFrame
<1>13. /\ srch' = [q EXCEPT !.state = "SRCH_CONN_NEAR", !.uR = dout.rptr]
       /\ dout' = dout /\ w' = w /\ ins_state' = "INS_CONN_NEW"
  <2>1. srch' = [q EXCEPT !.state = "SRCH_CONN_NEAR", !.uR = dout.rptr]
    BY <1>2 DEF Search, ConnNew
  <2>2. dout' = dout
    <3>1. srch'.state = "SRCH_CONN_NEAR"
      BY <1>4, <2>1 DEF SearchRegs
    <3> QED BY <3>1, DoutStep DEF Waits
  <2>3. ins_state' = "INS_CONN_NEW"
    BY <1>1, <1>2 DEF Insert_
  <2> QED BY <1>1, <1>2, <2>1, <2>2, <2>3, NewNodeStays
<1>14. /\ srch'.state = "SRCH_CONN_NEAR" /\ srch'.uR = dout.rptr /\ ~srch'.first_node
       /\ srch'.level = q.level /\ srch'.l = q.l /\ srch'.n = q.n /\ srch'.d = q.d /\ srch'.u = q.u
       /\ srch'.lVal = q.lVal /\ srch'.cons_nodes = q.cons_nodes /\ srch'.store_d = q.store_d
       /\ srch'.dR = q.dR /\ srch'.dD = q.dD
  BY <1>3, <1>4, <1>13 DEF SearchRegs
<1>15. Third(on, lv, at, mem', srch', K, M)
  <2> HIDE DEF q, K, M
  <2>1. \A m2, q2 : /\ \A y \in on : m2[y] = mem[y]
                    /\ q2.level = q.level /\ q2.l = q.l /\ q2.n = q.n /\ q2.d = q.d /\ q2.u = q.u
                    /\ q2.lVal = q.lVal /\ q2.cons_nodes = q.cons_nodes /\ q2.store_d = q.store_d
                    /\ q2.dR = q.dR /\ q2.dD = q.dD
                    => Third(on, lv, at, m2, q2, K, M)
    BY <1>2, <1>3, <1>4, FrameThird
  <2> QED BY <1>9, <1>14, <2>1
<1>16. AtNear(mem', srch', dout', w)
  <2>1. q.u \in on
    BY <1>3 DEF Third, Under, Placed, Last
  <2> QED BY <1>3, <1>8, <1>9, <1>13, <1>14, <2>1 DEF AtNear
<1>17. Seeking(on, lv, at, mem', srch', dout', K, M, w)
  BY <1>14, <1>15, <1>16 DEF Seeking
<1>18. Searching(on, lv, at)'
  BY <1>2, <1>12, <1>13, <1>14, <1>17 DEF Searching
<1> QED BY <1>2, <1>11, <1>12, <1>18 DEF ListInv

(* INS_CONN_NEW once the search is done: the new node is filled in. *)
LEMMA StepInsertNew ==
  ASSUME NEW on, NEW lv, NEW at, ListInv(on, lv, at), Flags, MachinesInv, RegsTyped,
         NEW e, NEW remove, Allowed(e, remove), ins_state = "INS_CONN_NEW", search_done
  PROVE  ListInv(on, lv, at)'
<1> DEFINE K == sl_in.rank
           M == curr_max_lvl
           q == srch
           w == new_node
<1> USE DEF s
<1>1. srch.state = "SRCH_IDLE" /\ ~start_search /\ ~get_next_node
  BY DEF MachinesInv, SearchWithinInsert, Flags
<1>2. /\ Shape(on, lv, at, mem, NULL) /\ Books(on, lv) /\ Searching(on, lv, at) /\ Search /\ List
      /\ Insert_(remove) /\ sl_in' = sl_in /\ sl_num_entries' = sl_num_entries /\ sl_in \in Entry
      /\ sl_num_entries \in Nat /\ ~Lower /\ ~Lower' /\ Torn' = NULL /\ ~Unlinks
      /\ Removing(on, lv)' /\ ~sl_insert' /\ ~start_search' /\ free_list_in = NULL
  BY <1>1, WhileInserting, CycleParts DEF ListInv
<1>3. Found(on, lv, mem, q, K, M, -1) /\ ~q.first_node
  <2>1. Found(on, lv, mem, srch, sl_in.rank, curr_max_lvl, -1)
    BY <1>1, <1>2 DEF Searching
  <2>2. ~srch.first_node
    BY <1>1, <1>2 DEF Searching, Seeking
  <2> QED BY <2>1, <2>2
<1>4. M \in Lvls /\ q \in SearchRegs
  BY <1>2 DEF Books, RegsTyped
<1>5. w \in Nodes /\ w \notin on
  <2>1. Room(on, 1)
    BY <1>3 DEF Found
  <2> HIDE DEF w, q
  <2> QED BY <1>1, <1>2, <2>1, NewNode DEF w
<1>6. mem \in [Addr -> Node] /\ w \in Addr /\ mem[w] \in Node
  BY <1>2, <1>5, Addresses DEF Shape, Typed
<1> DEFINE x == [mem[w] EXCEPT !.rank = sl_in.rank, !.meta = sl_in.meta,
                               !.rptr = q.dR, !.lptr = q.d, !.uptr = NULL]
<1>7. mem' = [mem EXCEPT ![w] = x]
  <2>1. SearchWrites(mem) = mem
    BY <1>1 DEF SearchWrites
  <2>2. InsertWrites(mem) = [mem EXCEPT ![w] = x]
    BY DEF InsertWrites
  <2>3. \A m : RemoveWrites(m) = m
    BY <1>2 DEF RemoveWrites
  <2> QED BY <1>2, <2>1, <2>2, <2>3 DEF List
<1>8. /\ x \in Node /\ x.rank = sl_in.rank /\ x.meta = sl_in.meta /\ x.rptr = q.dR /\ x.lptr = q.d
      /\ x.uptr = NULL
  BY <1>2, <1>4, <1>6, Addresses DEF Node, SearchRegs, Entry
<1> HIDE DEF x
<1>9. mem' \in [Addr -> Node] /\ mem'[w] = x /\ \A y \in on : mem'[y] = mem[y]
  BY <1>5, <1>6, <1>7, <1>8
<1>10. Shape(on, lv, at, mem', NULL)
  <2>1. \A m2 \in [Addr -> Node] : (\A y \in on : m2[y] = mem[y]) => Shape(on, lv, at, m2, NULL)
    BY <1>2, FrameShape
  <2> QED BY <1>9, <2>1
<1>11. Shape(on, lv, at, mem, Torn)'
  BY <1>2, <1>10
<1>12. Books(on, lv)' /\ M' = M
  BY <1>1, <1>2, <1>9, BooksFrame
<1>13. srch' = srch /\ w' = w /\ ins_state' = "INS_CONN_NEAR"
  <2>1. srch' = srch
    BY <1>1, <1>2 DEF Search, SrchIdle
  <2>2. ins_state' = "INS_CONN_NEAR"
    BY <1>2 DEF Insert_
  <2> QED BY <1>1, <1>2, <2>1, <2>2, NewNodeStays
<1>14. Found(on, lv, mem', q, K, M, -1)
  <2> HIDE DEF q, K, M
  <2>1. \A m2 : (\A y \in on : m2[y] = mem[y]) => Found(on, lv, m2, q, K, M, -1)
    BY <1>2, <1>3, FrameFound
  <2> QED BY <1>9, <2>1
<1>15. Seeking(on, lv, at, mem', srch', dout', K, M, w)
  BY <1>1, <1>3, <1>13 DEF Seeking
<1>16. Searching(on, lv, at)'
  BY <1>2, <1>8, <1>9, <1>12, <1>13, <1>14, <1>15 DEF Searching
<1> QED BY <1>2, <1>11, <1>12, <1>16 DEF ListInv

-----------------------------------------------------------------------------
(* A cycle in which no machine writes.                                     *)

(* The remove machine in a cycle in which it writes nothing. *)
LEMMA RemoveQuiet ==
  ASSUME NEW on, NEW lv, NEW at, ListInv(on, lv, at), Flags, MachinesInv, RegsTyped,
         NEW e, NEW remove, Allowed(e, remove), ~Unlinks, ins_state # "INS_CONN_NEAR",
         mem' = mem
  PROVE  /\ Removing(on, lv)' /\ Torn' = Torn
         /\ sl_num_entries' \in Nat
         /\ sl_num_entries' + (IF Lower' THEN 1 ELSE 0) = sl_num_entries + (IF Lower THEN 1 ELSE 0)
<1> USE DEF s
<1>1. /\ RemoveNode(e) /\ Count(e) /\ Reads /\ rmv.state \in RemoveStates
      /\ Books(on, lv) /\ Removing(on, lv) /\ sl_num_entries \in Nat
      /\ rmv \in [state : RemoveStates, node : Addr, lvl : Nat]
  BY CycleParts DEF MachinesInv, StatesOK, ListInv, Books, RegsTyped
<1>2. sl_num_entries' = sl_num_entries - (IF Moves(e) THEN 1 ELSE 0)
  <2>1. ~insert_done
    BY DEF Flags
  <2> QED BY <1>1, <2>1 DEF Count
<1>3. CASE rmv.state = "RMV_IDLE"
  <2>1. ~Moves(e) /\ ~Lower /\ ~Upper /\ sl_num_entries' = sl_num_entries
    BY <1>1, <1>2, <1>3 DEF Moves, Lower, Upper
  <2>2. \/ rmv'.state = "RMV_IDLE"
        \/ rmv'.state = "RMV_CHK_BUSY" /\ sl_num_entries > 0
    BY <1>1, <1>3 DEF RemoveNode, MayMove
  <2>3. ~Lower' /\ ~Upper'
    BY <2>2 DEF Lower, Upper
  <2>4. Removing(on, lv)'
    BY <2>1, <2>2, <2>3 DEF Removing
  <2> QED BY <1>1, <2>1, <2>3, <2>4 DEF Torn
<1>4. CASE rmv.state = "RMV_CHK_BUSY"
  <2>1. ~Lower /\ ~Upper /\ Torn = NULL
    BY <1>4 DEF Lower, Upper, Torn
  <2>2. CASE ~Moves(e)
    <3>1. rmv'.state = "RMV_IDLE"
      BY <1>1, <1>4, <2>2 DEF RemoveNode, NoRemoval
    <3>2. ~Lower' /\ ~Upper' /\ Torn' = NULL /\ Removing(on, lv)'
      BY <3>1 DEF Lower, Upper, Torn, Removing
    <3> QED BY <1>1, <1>2, <2>1, <2>2, <3>2
  <2>3. CASE Moves(e)
    <3>1. rmv' = [state |-> "RMV_WAIT_MEM_RD1", node |-> lptr_tail, lvl |-> 0]
      BY <1>1, <1>4, <2>3 DEF RemoveNode
    <3>2. sl_num_entries > 0 /\ Shape(on, lv, at, mem, NULL)
      BY <1>1, <1>4, <2>1 DEF Removing, ListInv
    <3>3. /\ lptr_tail \in on /\ lptr_tail \in Nodes
          /\ lv[lptr_tail] = 0 /\ mem[lptr_tail].rptr = tail(0)
      BY <1>1, <2>1, <3>2, TailNode
    <3>4. Lower' /\ ~Upper' /\ Torn' = NULL
      BY <3>1 DEF Lower, Upper, Torn
    <3>5. Removing(on, lv)'
      BY <3>1, <3>3, <3>4 DEF Removing
    <3>6. /\ sl_num_entries' = sl_num_entries - 1 /\ sl_num_entries - 1 \in Nat
          /\ (sl_num_entries - 1) + 1 = sl_num_entries + 0
      BY <1>1, <1>2, <2>3, <3>2
    <3> QED BY <2>1, <3>4, <3>5, <3>6
  <2> QED BY <2>2, <2>3
<1>5. CASE rmv.state \in {"RMV_WAIT_MEM_RD1", "RMV_WAIT_MEM_RD2"}
  <2>1. ~Moves(e) /\ sl_num_entries' = sl_num_entries
    BY <1>1, <1>2, <1>5 DEF Moves
  <2>2. srch.state = "SRCH_IDLE"
    BY <1>5 DEF MachinesInv, OneAtATime
  <2>3. bram_rd1 => dout' = mem[rmv.node]
    BY <1>1, <2>2 DEF Reads, Waits
  <2>4. /\ rmv'.node = rmv.node /\ rmv'.lvl = rmv.lvl
        /\ IF bram_rd1
           THEN rmv'.state = IF rmv.state = "RMV_WAIT_MEM_RD1" THEN "RMV_DEQ_NODE"
                             ELSE "RMV_CONN_LEFT_TAIL"
           ELSE rmv'.state = rmv.state
    BY <1>1, <1>5 DEF RemoveNode
  <2>5. (Lower' <=> Lower) /\ (Upper' <=> Upper)
    BY <1>5, <2>4 DEF Lower, Upper
  <2>6. Torn' = Torn
    BY <2>4, <2>5 DEF Torn
  <2>7. Removing(on, lv)'
    BY <1>1, <1>5, <2>3, <2>4, <2>5 DEF Removing
  <2> QED BY <1>1, <2>1, <2>5, <2>6, <2>7
<1> QED BY <1>1, <1>3, <1>4, <1>5 DEF RemoveStates, Unlinks

(* A cycle in which no machine writes. *)
LEMMA StepQuiet ==
  ASSUME NEW on, NEW lv, NEW at, ListInv(on, lv, at), Flags, MachinesInv, RegsTyped,
         NEW e, NEW remove, Allowed(e, remove),
         ~Unlinks, ins_state # "INS_CONN_NEAR",
         srch.state \notin {"SRCH_CONN_NEW", "SRCH_CONN_NEAR"},
         ~(ins_state = "INS_CONN_NEW" /\ search_done)
  PROVE  ListInv(on, lv, at)'
<1> USE DEF s
<1>1. /\ Books(on, lv) /\ Searching(on, lv, at) /\ Shape(on, lv, at, mem, Torn)
      /\ List /\ Search /\ Insert_(remove) /\ ins_state \in InsertStates
  BY CycleParts DEF ListInv, MachinesInv, StatesOK
<1>2. mem' = mem
  <2>1. SearchWrites(mem) = mem
    BY DEF SearchWrites
  <2>2. InsertWrites(mem) = mem
    BY DEF InsertWrites
  <2>3. RemoveWrites(mem) = mem
    BY DEF RemoveWrites
  <2> QED BY <1>1, <2>1, <2>2, <2>3 DEF List
<1>3. /\ Removing(on, lv)' /\ Torn' = Torn
      /\ sl_num_entries' \in Nat
      /\ sl_num_entries' + (IF Lower' THEN 1 ELSE 0) = sl_num_entries + (IF Lower THEN 1 ELSE 0)
  BY <1>2, RemoveQuiet
<1>4. Books(on, lv)' /\ curr_max_lvl' = curr_max_lvl
  BY <1>1, <1>2, <1>3, BooksFrame
<1>5. Shape(on, lv, at, mem, Torn)'
  BY <1>1, <1>2, <1>3
<1>6. sl_insert' \/ start_search' => Room(on, NUM_LVLS + 1)
  BY RoomStep
<1>7. CASE ins_state = "INS_IDLE"
  <2>1. srch.state = "SRCH_IDLE" /\ ~start_search
    BY <1>7 DEF MachinesInv, SearchWithinInsert
  <2>2. srch' = NoSearch
    BY <1>1, <1>7, <2>1 DEF Search, SrchIdle
  <2>3. srch'.state = "SRCH_IDLE" /\ ~srch'.first_node
    BY <2>2 DEF NoSearch
  <2>4. \/ ins_state' = "INS_IDLE"
        \/ ins_state' = "INS_CONN_NEW" /\ start_search'
    BY <1>1, <1>7 DEF Insert_
  <2> QED BY <1>3, <1>4, <1>5, <1>6, <2>3, <2>4 DEF ListInv, Searching, Seeking
<1>8. CASE ins_state = "INS_CONN_NEW" /\ ~search_done
  <2>1. ins_state' = "INS_CONN_NEW"
    BY <1>1, <1>8 DEF Insert_
  <2>2. sl_in' = sl_in /\ ~sl_insert' /\ ~start_search'
    BY <1>8, WhileInserting
  <2>3. /\ Seeking(on, lv, at, mem, srch', dout', sl_in.rank, curr_max_lvl, new_node')
        /\ srch'.state = "SRCH_IDLE" =>
             Found(on, lv, mem, srch', sl_in.rank, curr_max_lvl, -1)
    BY <1>8, SearchQuiet
  <2>4. Searching(on, lv, at)'
    BY <1>2, <1>4, <2>1, <2>2, <2>3 DEF Searching
  <2> QED BY <1>3, <1>4, <1>5, <2>4 DEF ListInv
<1> QED BY <1>1, <1>7, <1>8 DEF InsertStates

-----------------------------------------------------------------------------
(* INS_CONN_NEAR: the new node is linked on the lowest level.              *)

(* INS_CONN_NEAR: the new node is linked on the lowest level.  The places  *)
(* are doubled to make room for its own.                                   *)
LEMMA StepInsertNear ==
  ASSUME NEW on, NEW lv, NEW at, ListInv(on, lv, at), Flags, MachinesInv, RegsTyped,
         NEW e, NEW remove, Allowed(e, remove), ins_state = "INS_CONN_NEAR"
  PROVE  \E on2, lv2, at2 : ListInv(on2, lv2, at2)'
<1> USE DEF s
<1>1. srch.state = "SRCH_IDLE" /\ ~start_search /\ ~get_next_node
  BY DEF MachinesInv, SearchWithinInsert, Flags
<1>2. /\ Shape(on, lv, at, mem, NULL) /\ Books(on, lv) /\ Searching(on, lv, at) /\ Search /\ List
      /\ Insert_(remove) /\ Copies /\ sl_num_entries' = sl_num_entries + 1 /\ sl_in \in Entry
      /\ sl_num_entries \in Nat /\ ~Lower /\ ~Lower' /\ Torn' = NULL /\ ~Unlinks
      /\ rmv'.state = "RMV_IDLE" /\ ~Upper'
      /\ ~sl_insert' /\ ~start_search' /\ free_list_in = NULL /\ free_list_in' = NULL
  BY WhileInserting, CycleParts DEF ListInv
<1>3. PICK w, m, m2, d, v, K, M, at1, on2, lv2, p, at2 :
        /\ w = new_node /\ m = mem /\ m2 = mem' /\ d = srch.d /\ v = srch.dR /\ K = sl_in.rank
        /\ M = curr_max_lvl /\ at1 = [x \in Addr |-> 2 * at[x]] /\ on2 = on \cup {w}
        /\ lv2 = [lv EXCEPT ![w] = 0] /\ p = 2 * at[d] + 1 /\ at2 = [at1 EXCEPT ![w] = p]
  OBVIOUS
<1>4. Found(on, lv, mem, srch, sl_in.rank, curr_max_lvl, -1) /\ ~srch.first_node
  <2>1. Found(on, lv, mem, srch, sl_in.rank, curr_max_lvl, -1)
    BY <1>1, <1>2 DEF Searching
  <2>2. ~srch.first_node
    BY <1>1, <1>2 DEF Searching, Seeking
  <2> QED BY <2>1, <2>2
<1>5. /\ Last(on, lv, m, K, 0, d) /\ Slack(on, m, d) /\ v = m[d].rptr /\ Room(on, 1)
  BY <1>3, <1>4 DEF Found, Placed, Kept
<1>6. w \in Nodes /\ w \notin on /\ new_node' = w /\ free' = Nodes \ on
  <2>1. Room(on, 1)
    BY <1>5
  <2> QED BY <1>1, <1>2, <1>3, <2>1, NewNode, NewNodeStays
<1>7. /\ m[w].rank = K /\ m[w].meta = sl_in.meta /\ m[w].rptr = v /\ m[w].lptr = d
      /\ m[w].uptr = NULL
  BY <1>2, <1>3 DEF Searching
<1>8. m \in [Addr -> Node] /\ w \in Addr /\ K \in Ranks /\ sl_in.meta \in Metas /\ w # NULL
  BY <1>2, <1>3, <1>6, Addresses DEF Shape, Typed, Entry
<1>9. /\ d \in on /\ lv[d] = 0 /\ d # tail(0) /\ v \in on /\ lv[v] = 0 /\ v # d /\ v # w /\ d # w
      /\ at[d] < at[v] /\ v # head(0) /\ d \in Addr /\ v \in Addr /\ at[d] \in Nat /\ at[v] \in Nat
      /\ m[d].rank >= K /\ m[v].rank <= K /\ m[d].rank \in Nat /\ m[v].rank \in Nat
  <2>1. d \in on /\ lv[d] = 0 /\ d # tail(0) /\ m[d].rank >= K /\ m[v].rank <= K
    BY <1>5 DEF Last
  <2>2. v \in on /\ lv[v] = 0 /\ at[d] < at[v] /\ v # d /\ v # head(0)
    BY <1>2, <1>3, <1>5, <2>1, Neighbours
  <2>3. /\ d \in Addr /\ at[d] \in Nat /\ m[d].rank \in Nat
        /\ v \in Addr /\ at[v] \in Nat /\ m[v].rank \in Nat
    BY <1>2, <1>3, <2>1, <2>2, OnTyped
  <2> QED BY <1>6, <2>1, <2>2, <2>3
<1>10. m2 = [m EXCEPT ![v].lptr = w, ![d].rptr = w]
  <2>1. SearchWrites(mem) = mem
    BY <1>1 DEF SearchWrites
  <2>2. InsertWrites(mem) = [mem EXCEPT ![srch.dR].lptr = new_node, ![srch.d].rptr = new_node]
    BY DEF InsertWrites
  <2>3. \A x : RemoveWrites(x) = x
    BY <1>2 DEF RemoveWrites
  <2> QED BY <1>2, <1>3, <2>1, <2>2, <2>3 DEF List
<1>11. /\ m2 = [x \in Addr |-> IF x = v THEN [m[x] EXCEPT !.lptr = w]
                               ELSE IF x = d THEN [m[x] EXCEPT !.rptr = w] ELSE m[x]]
  BY <1>8, <1>9, <1>10
<1>12. m2 \in [Addr -> Node]
  <2>1. \A x \in Addr : m[x] \in Node
    BY <1>8
  <2>2. \A x \in Addr : [m[x] EXCEPT !.lptr = w] \in Node /\ [m[x] EXCEPT !.rptr = w] \in Node
    BY <1>8, <2>1 DEF Node
  <2> QED BY <1>11, <2>1, <2>2
<1>13. \A x \in Addr :
         /\ m2[x].rank = m[x].rank /\ m2[x].meta = m[x].meta /\ m2[x].dptr = m[x].dptr
         /\ m2[x].uptr = m[x].uptr
         /\ m2[x].rptr = IF x = d THEN w ELSE m[x].rptr
         /\ m2[x].lptr = IF x = v THEN w ELSE m[x].lptr
  <2>1. SUFFICES ASSUME NEW x \in Addr
                 PROVE  /\ m2[x].rank = m[x].rank /\ m2[x].meta = m[x].meta /\ m2[x].dptr = m[x].dptr
                        /\ m2[x].uptr = m[x].uptr
                        /\ m2[x].rptr = IF x = d THEN w ELSE m[x].rptr
                        /\ m2[x].lptr = IF x = v THEN w ELSE m[x].lptr
    OBVIOUS
  <2>2. m[x] \in Node
    BY <1>8
  <2>3. m2[x] = IF x = v THEN [m[x] EXCEPT !.lptr = w]
                ELSE IF x = d THEN [m[x] EXCEPT !.rptr = w] ELSE m[x]
    BY <1>11
  <2> QED BY <1>9, <2>2, <2>3 DEF Node
<1>14. Relinked(on, m, m2, d, v, w, NULL)
  <2>1. \A x \in on : x \in Addr /\ x # NULL
    BY <1>2, OnTyped
  <2> QED BY <1>13, <2>1 DEF Relinked
<1>15. Written(m2, 0, d, v, w, NULL, K)
  BY <1>7, <1>8, <1>9, <1>12, <1>13 DEF Written
<1>16. Shape(on, lv, at1, m, NULL)
  BY <1>2, <1>3, ScaleShape
<1>17. Ready(on, lv, at1, m, 0, d, v, w, NULL, p, K)
  <2>1. at1[d] = 2 * at[d] /\ at1[v] = 2 * at[v]
    BY <1>3, <1>9
  <2>2. p \in Nat /\ at1[d] < p /\ p < at1[v]
    BY <1>3, <1>9, <2>1
  <2>3. K <= m[d].rank
    BY <1>8, <1>9, MaxRankAssumption DEF Ranks
  <2> QED BY <1>5, <1>6, <1>8, <1>9, <2>2, <2>3, Addresses DEF Ready
<1>18. Shape(on2, lv2, at2, m2, NULL)
  BY <1>3, <1>14, <1>15, <1>16, <1>17, LinkShape
<1>19. \A x \in on : lv2[x] = lv[x]
  <2>1. lv \in [Addr -> Nat] /\ \A x \in on : x \in Addr
    BY <1>2, OnTyped DEF Shape, Typed
  <2> QED BY <1>3, <1>6, <2>1
<1>20. lv2[w] = 0
  BY <1>2, <1>3, <1>8 DEF Shape, Typed
<1>21. Books(on2, lv2)'
  <2>1. free' \subseteq Nodes /\ FreeNow' = Nodes \ on2
    <3>1. get_next_node' = TRUE
      BY <1>2 DEF List
    <3> QED BY <1>2, <1>3, <1>6, <3>1 DEF FreeNow
  <2>2. curr_max_lvl' = M
    BY <1>1, <1>2, <1>3 DEF Copies, Unlinks
  <2>3. M \in Lvls /\ M \in Nat /\ \A x \in on \cap Nodes : lv[x] <= M
    BY <1>2, <1>3, Addresses DEF Books
  <2>4. \A x \in on2 \cap Nodes : lv2[x] <= M
    BY <1>3, <1>19, <1>20, <2>3
  <2>5. rptr_head' \in [Lvls -> Addr] /\ \A l \in Lvls : rptr_head'[l] = m2[head(l)].rptr
    <3>1. rptr_head' = [l \in Lvls |-> IF l = 0 /\ d = head(0) THEN w ELSE rptr_head[l]]
      BY <1>1, <1>2, <1>3 DEF Copies
    <3>2. rptr_head \in [Lvls -> Addr] /\ \A l \in Lvls : rptr_head[l] = m[head(l)].rptr
      BY <1>2, <1>3 DEF Books
    <3>3. ASSUME NEW l \in Lvls PROVE rptr_head'[l] = m2[head(l)].rptr
      <4>1. head(l) \in Addr /\ lv[head(l)] = l
        BY <1>2, Addresses DEF Shape, Ends
      <4>2. head(l) = d <=> l = 0 /\ d = head(0)
        BY <1>9, <4>1
      <4> QED BY <1>13, <3>1, <3>2, <4>1, <4>2
    <3> QED BY <1>8, <3>1, <3>2, <3>3
  <2>6. lptr_tail' = m2[tail(0)].lptr \/ m2[tail(0)].lptr = head(0)
    <3>1. lptr_tail' = IF v = tail(0) THEN w ELSE lptr_tail
      BY <1>2, <1>3 DEF Copies, Unlinks
    <3>2. tail(0) \in Addr
      BY Addresses
    <3>3. m2[tail(0)].lptr = IF v = tail(0) THEN w ELSE m[tail(0)].lptr
      BY <1>13, <3>2
    <3> QED BY <1>2, <1>3, <3>1, <3>3 DEF Books
  <2>7. Cardinality(Lowest(on2, lv2)) = sl_num_entries' + (IF Lower' THEN 1 ELSE 0)
    <3>1. Lowest(on2, lv2) = Lowest(on, lv) \cup {w}
      BY <1>3, <1>6, <1>19, <1>20 DEF Lowest
    <3>2. w \notin Lowest(on, lv)
      BY <1>6 DEF Lowest
    <3>3. Lowest(on, lv) = Level(on, lv, 0)
      BY DEF Lowest, Level
    <3>4. IsFiniteSet(Lowest(on, lv))
      BY <3>3, LevelsFinite
    <3>5. Cardinality(Lowest(on, lv) \cup {w}) = Cardinality(Lowest(on, lv)) + 1
      BY <3>2, <3>4, FS_AddElement
    <3>6. Cardinality(Lowest(on, lv)) = sl_num_entries + 0
      BY <1>2 DEF Books
    <3> QED BY <1>2, <3>1, <3>5, <3>6
  <2>8. sl_num_entries' \in Nat
    BY <1>2
  <2> QED BY <1>3, <2>1, <2>2, <2>3, <2>4, <2>5, <2>6, <2>7, <2>8 DEF Books
<1>22. Removing(on2, lv2)'
  BY <1>2 DEF Removing, Lower, Upper
<1>23. Searching(on2, lv2, at2)'
  <2>1. srch' = srch
    BY <1>1, <1>2 DEF Search, SrchIdle
  <2>2. ins_state' = "INS_IDLE"
    BY <1>2 DEF Insert_
  <2> QED BY <1>1, <1>2, <1>4, <2>1, <2>2 DEF Searching, Seeking
<1>24. Shape(on2, lv2, at2, mem, Torn)'
  BY <1>2, <1>3, <1>18
<1> QED BY <1>21, <1>22, <1>23, <1>24 DEF ListInv

-----------------------------------------------------------------------------
(* RMV_DEQ_NODE and RMV_CONN_LEFT_TAIL.                                    *)

(* A level whose head points at its tail is empty. *)
LEMMA NothingBetween ==
  ASSUME NEW on, NEW lv, NEW at, NEW m, NEW z, Shape(on, lv, at, m, z),
         NEW l \in Lvls, m[head(l)].rptr = tail(l),
         NEW y \in on \cap Nodes
  PROVE  lv[y] # l
<1>1. SUFFICES ASSUME lv[y] = l PROVE FALSE
  OBVIOUS
<1>2. head(l) # tail(l) /\ 0 \in Lvls
  BY Addresses
<1>3. /\ head(l) \in on /\ lv[head(l)] = l /\ at[head(l)] = 0 /\ at[tail(l)] = at[tail(0)]
      /\ 0 < at[y] /\ at[y] < at[tail(0)] /\ tail(0) \in on
  BY <1>2 DEF Shape, Ends
<1>4. at[y] <= at[head(l)] \/ at[tail(l)] <= at[y]
  BY <1>1, <1>2, <1>3 DEF Shape, Rights
<1>5. at[y] \in Nat /\ at[tail(0)] \in Nat
  BY <1>3, OnTyped
<1> QED BY <1>3, <1>4, <1>5

(* DEQ_NODE and CONN_LEFT_TAIL: the last node of a level is unlinked.      *)
LEMMA StepUnlink ==
  ASSUME NEW on, NEW lv, NEW at, ListInv(on, lv, at), Flags, MachinesInv, RegsTyped,
         NEW e, NEW remove, Allowed(e, remove), Unlinks
  PROVE  \E on2 : ListInv(on2, lv, at)'
<1> USE DEF s
<1>1. /\ srch.state = "SRCH_IDLE" /\ ins_state = "INS_IDLE" /\ ~sl_insert /\ ~start_search
      /\ ~insert_done
  BY DEF MachinesInv, OneAtATime, SearchWithinInsert, Flags, Unlinks
<1>2. ~sl_insert' /\ ~start_search'
  BY RoomStep
<1>3. /\ Books(on, lv) /\ Shape(on, lv, at, mem, Torn) /\ Removing(on, lv)
      /\ List /\ Search /\ Insert_(remove) /\ RemoveNode(e) /\ Copies /\ Count(e)
  BY CycleParts DEF ListInv
<1>4. PICK m, m2, x, l, q, u, z, on2, M :
        /\ m = mem /\ m2 = mem' /\ x = rmv.node /\ l = rmv.lvl /\ q = dout.lptr /\ u = dout.uptr
        /\ z = Torn /\ on2 = on \ {x} /\ M = curr_max_lvl
  OBVIOUS
<1>5. /\ x \in on /\ x \in Nodes /\ lv[x] = l /\ m[x].rptr = tail(l) /\ dout = m[x]
      /\ z = (IF l = 0 THEN NULL ELSE x)
      /\ (rmv.state = "RMV_DEQ_NODE" <=> l = 0) /\ (Lower <=> l = 0)
      /\ (rmv.state = "RMV_CONN_LEFT_TAIL" <=> l > 0)
  BY <1>3, <1>4 DEF Removing, Lower, Upper, Unlinks, Torn
<1>6. /\ l \in Lvls /\ l \in Nat /\ lv \in [Addr -> Nat] /\ m \in [Addr -> Node] /\ x \in Addr /\ x # NULL
      /\ Shape(on, lv, at, m, z)
  BY <1>3, <1>4, <1>5, OnTyped DEF Shape, Typed
<1>7. /\ x # head(l) /\ x # tail(l) /\ tail(l) \in Addr /\ head(l) \in Addr /\ tail(l) # head(l)
      /\ tail(l) \in on /\ head(l) \in on /\ lv[head(l)] = l
  BY <1>5, <1>6, Addresses DEF Shape, Ends
<1>8. q = m[x].lptr /\ u = m[x].uptr
  BY <1>4, <1>5
<1>9. q \in on /\ lv[q] = l /\ q # tail(l) /\ q # x /\ q \in Addr
  <2>1. m[x].lptr \in on /\ lv[m[x].lptr] = l /\ m[m[x].lptr].rptr = x /\ m[x].lptr # tail(l)
    BY <1>5, <1>6, <1>7 DEF Shape, Lefts
  <2>2. q # x
    BY <1>5, <1>7, <1>8, <2>1
  <2> QED BY <1>6, <1>8, <2>1, <2>2, OnTyped
<1>10. m2 = [m EXCEPT ![q].rptr = tail(l), ![tail(l)].lptr = q, ![x] = Blank]
  <2>1. SearchWrites(mem) = mem /\ InsertWrites(mem) = mem
    BY <1>1 DEF SearchWrites, InsertWrites
  <2>2. RemoveWrites(mem) = [m EXCEPT ![q].rptr = tail(l), ![tail(l)].lptr = q, ![x] = Blank]
    BY <1>4 DEF RemoveWrites
  <2> QED BY <1>3, <1>4, <2>1, <2>2 DEF List
<1>11. m2 = [y \in Addr |-> IF y = x THEN Blank
                            ELSE IF y = tail(l) THEN [m[y] EXCEPT !.lptr = q]
                            ELSE IF y = q THEN [m[y] EXCEPT !.rptr = tail(l)] ELSE m[y]]
  BY <1>6, <1>7, <1>9, <1>10
<1>12. m2 \in [Addr -> Node]
  <2>1. Blank \in Node
    BY Addresses, MaxRankAssumption DEF Blank, Node, Ranks
  <2>2. \A y \in Addr : m[y] \in Node
    BY <1>6
  <2>3. \A y \in Addr : [m[y] EXCEPT !.lptr = q] \in Node /\ [m[y] EXCEPT !.rptr = tail(l)] \in Node
    BY <1>7, <1>9, <2>2 DEF Node
  <2> QED BY <1>11, <2>1, <2>2, <2>3
<1>13. \A y \in Addr \ {x} :
         /\ m2[y].rank = m[y].rank /\ m2[y].meta = m[y].meta /\ m2[y].dptr = m[y].dptr
         /\ m2[y].uptr = m[y].uptr
         /\ m2[y].rptr = IF y = q THEN tail(l) ELSE m[y].rptr
         /\ m2[y].lptr = IF y = tail(l) THEN q ELSE m[y].lptr
  <2>1. SUFFICES ASSUME NEW y \in Addr, y # x
                 PROVE  /\ m2[y].rank = m[y].rank /\ m2[y].meta = m[y].meta
                        /\ m2[y].dptr = m[y].dptr /\ m2[y].uptr = m[y].uptr
                        /\ m2[y].rptr = IF y = q THEN tail(l) ELSE m[y].rptr
                        /\ m2[y].lptr = IF y = tail(l) THEN q ELSE m[y].lptr
    OBVIOUS
  <2>2. m[y] \in Node
    BY <1>6
  <2>3. m2[y] = IF y = tail(l) THEN [m[y] EXCEPT !.lptr = q]
                ELSE IF y = q THEN [m[y] EXCEPT !.rptr = tail(l)] ELSE m[y]
    BY <1>11, <2>1
  <2> QED BY <1>9, <2>2, <2>3 DEF Node
<1>14. Unlinked(on, m, m2, l, x, q)
  <2>1. \A y \in on : y \in Addr
    BY <1>6, OnTyped
  <2> QED BY <1>12, <1>13, <2>1 DEF Unlinked
<1>15. /\ Shape(on2, lv, at, m2, u)
       /\ u # NULL => /\ u \in on2 \cap Nodes /\ lv[u] = l + 1 /\ m2[u].rptr = tail(l + 1)
       /\ m2[tail(l)].lptr = q /\ m2[q].rptr = tail(l)
  <2>1. on2 = on \ {x}
    BY <1>4
  <2> QED BY <1>5, <1>6, <1>8, <1>14, <2>1, UnlinkShape
<1>16. /\ Torn' = u /\ Removing(on2, lv)' /\ ~Lower'
  <2>1. rmv' = NextUp
    BY <1>3 DEF RemoveNode, Unlinks
  <2>2. CASE u = NULL
    <3>1. rmv'.state = "RMV_IDLE"
      BY <1>4, <2>1, <2>2 DEF NextUp, NoRemoval
    <3> QED BY <2>2, <3>1 DEF Torn, Upper, Lower, Removing
  <2>3. CASE u # NULL
    <3>1. rmv'.state = "RMV_WAIT_MEM_RD2" /\ rmv'.node = u /\ rmv'.lvl = l + 1
      BY <1>4, <2>1, <2>3 DEF NextUp
    <3>2. Upper' /\ ~Lower'
      BY <3>1 DEF Upper, Lower
    <3>3. l + 1 > 0
      BY <1>6
    <3>4. Removing(on2, lv)'
      BY <1>4, <1>15, <2>3, <3>1, <3>2, <3>3 DEF Removing
    <3> QED BY <3>1, <3>2, <3>4 DEF Torn
  <2> QED BY <2>2, <2>3
<1>17. Shape(on2, lv, at, mem, Torn)'
  BY <1>4, <1>15, <1>16
<1>18. Books(on2, lv)'
  <2>1. free' \subseteq Nodes /\ FreeNow' = Nodes \ on2
    <3>1. free' = Nodes \ on /\ get_next_node' = FALSE /\ free_list_in' = x
      BY <1>1, <1>3, <1>4, FreeStep
    <3> QED BY <1>4, <1>5, <1>6, <3>1 DEF FreeNow
  <2>2. M \in Lvls /\ M \in Nat /\ \A y \in on \cap Nodes : lv[y] <= M
    BY <1>3, <1>4, Addresses DEF Books
  <2>3. curr_max_lvl' = IF l > 0 /\ u = NULL /\ q = head(l) THEN M - 1 ELSE M
    BY <1>1, <1>3, <1>4, <1>5 DEF Copies
  <2>4. curr_max_lvl' \in Lvls /\ \A y \in on2 \cap Nodes : lv[y] <= curr_max_lvl'
    <3>1. CASE l > 0 /\ u = NULL /\ q = head(l)
      <4>1. m2[head(l)].rptr = tail(l)
        BY <1>15, <3>1
      <4>2. Shape(on2, lv, at, m2, NULL)
        BY <1>15, <3>1
      <4>3. \A y \in on2 \cap Nodes : lv[y] # l
        BY <1>6, <4>1, <4>2, NothingBetween
      <4>4. \A y \in on2 \cap Nodes : lv[y] < l
        BY <1>6, <4>2, <4>3, EmptyAbove
      <4>5. l <= M
        BY <1>5, <2>2
      <4>6. \A y \in on2 \cap Nodes : lv[y] \in Nat
        BY <4>2, OnTyped
      <4>7. \A y \in on2 \cap Nodes : lv[y] <= M - 1
        BY <1>6, <2>2, <4>4, <4>5, <4>6
      <4>8. M - 1 \in Lvls
        BY <1>6, <2>2, <3>1, <4>5, Addresses DEF Lvls
      <4> QED BY <2>3, <3>1, <4>7, <4>8
    <3>2. CASE ~(l > 0 /\ u = NULL /\ q = head(l))
      <4>1. curr_max_lvl' = M
        BY <2>3, <3>2
      <4> QED BY <1>4, <2>2, <4>1
    <3> QED BY <3>1, <3>2
  <2>5. \A k \in Lvls : head(k) \in Addr \ {x} /\ lv[head(k)] = k
    BY <1>5, <1>6, Addresses DEF Shape, Ends
  <2>6. rptr_head' \in [Lvls -> Addr] /\ \A k \in Lvls : rptr_head'[k] = m2[head(k)].rptr
    <3>1. rptr_head' = [k \in Lvls |-> IF k = l /\ q = head(k) THEN tail(k) ELSE rptr_head[k]]
      BY <1>1, <1>3, <1>4 DEF Copies
    <3>2. rptr_head \in [Lvls -> Addr] /\ \A k \in Lvls : rptr_head[k] = m[head(k)].rptr
      BY <1>3, <1>4 DEF Books
    <3>3. ASSUME NEW k \in Lvls PROVE rptr_head'[k] = m2[head(k)].rptr
      <4>1. head(k) = q <=> k = l /\ q = head(k)
        BY <1>9, <2>5
      <4> QED BY <1>13, <2>5, <3>1, <3>2, <4>1
    <3>4. \A k \in Lvls : tail(k) \in Addr
      BY Addresses
    <3> QED BY <3>1, <3>2, <3>3, <3>4
  <2>7. lptr_tail' = m2[tail(0)].lptr \/ m2[tail(0)].lptr = head(0)
    <3>1. CASE l = 0
      <4>1. lptr_tail' = q
        BY <1>3, <1>4, <1>5, <3>1 DEF Copies
      <4> QED BY <1>15, <3>1, <4>1
    <3>2. CASE l # 0
      <4>1. lptr_tail' = lptr_tail
        BY <1>1, <1>3, <1>4, <1>5, <3>2 DEF Copies
      <4>2. tail(0) # tail(l) /\ tail(0) \in Addr /\ tail(0) # x
        BY <1>5, <1>6, <3>2, Addresses
      <4>3. m2[tail(0)].lptr = m[tail(0)].lptr
        BY <1>13, <4>2
      <4> QED BY <1>3, <1>4, <4>1, <4>3 DEF Books
    <3> QED BY <3>1, <3>2
  <2>8. sl_num_entries' = sl_num_entries /\ sl_num_entries \in Nat
    <3>1. ~Moves(e)
      BY DEF Moves, Unlinks
    <3> QED BY <1>1, <1>3, <3>1 DEF Count, Books
  <2>9. Cardinality(Lowest(on2, lv)) = sl_num_entries'
    <3>1. Lowest(on, lv) = Level(on, lv, 0)
      BY DEF Lowest, Level
    <3>2. IsFiniteSet(Lowest(on, lv))
      BY <3>1, LevelsFinite
    <3>3. Cardinality(Lowest(on, lv)) = sl_num_entries + (IF l = 0 THEN 1 ELSE 0)
      BY <1>3, <1>5 DEF Books
    <3>4. CASE l = 0
      <4>1. Lowest(on2, lv) = Lowest(on, lv) \ {x} /\ x \in Lowest(on, lv)
        BY <1>4, <1>5, <3>4 DEF Lowest
      <4>2. Cardinality(Lowest(on, lv) \ {x}) = Cardinality(Lowest(on, lv)) - 1
        BY <3>2, <4>1, FS_RemoveElement
      <4> QED BY <2>8, <3>3, <3>4, <4>1, <4>2
    <3>5. CASE l # 0
      <4>1. Lowest(on2, lv) = Lowest(on, lv)
        BY <1>4, <1>5, <3>5 DEF Lowest
      <4> QED BY <2>8, <3>3, <3>5, <4>1
    <3> QED BY <3>4, <3>5
  <2>10. Cardinality(Lowest(on2, lv)) = sl_num_entries' + (IF Lower' THEN 1 ELSE 0)
    BY <1>16, <2>8, <2>9
  <2> QED BY <1>4, <2>1, <2>4, <2>6, <2>7, <2>8, <2>10 DEF Books
<1>19. Searching(on2, lv, at)'
  <2>1. srch' = NoSearch
    BY <1>1, <1>3 DEF Search, SrchIdle
  <2>2. srch'.state = "SRCH_IDLE" /\ ~srch'.first_node
    BY <2>1 DEF NoSearch
  <2>3. ins_state' = "INS_IDLE"
    BY <1>1, <1>3 DEF Insert_, Starts
  <2> QED BY <1>2, <2>2, <2>3 DEF Searching, Seeking
<1> QED BY <1>16, <1>17, <1>18, <1>19 DEF ListInv

-----------------------------------------------------------------------------
(* SRCH_CONN_NEAR: a node is promoted.                                     *)

(* What SRCH_CONN_NEAR writes: node w goes above q.l, between q.u and q.uR. *)
Raised(m, q, w, m2) ==
  /\ m2 \in [Addr -> Node]
  /\ \A x \in Addr :
       /\ m2[x].rank = m[x].rank /\ m2[x].meta = m[x].meta /\ m2[x].dptr = m[x].dptr
       /\ m2[x].rptr = IF x = q.u THEN w ELSE m[x].rptr
       /\ m2[x].lptr = IF x = q.uR THEN w ELSE m[x].lptr
       /\ m2[x].uptr = IF x = q.l THEN w ELSE m[x].uptr

(* The new node fits into the level above. *)
LEMMA RaiseReady ==
  ASSUME NEW on, NEW lv, NEW at, NEW m, Shape(on, lv, at, m, NULL),
         NEW K, NEW M \in Lvls, NEW q, Third(on, lv, at, m, q, K, M), q.uR = m[q.u].rptr,
         NEW w, w \in Nodes, w \notin on
  PROVE  /\ Ready(on, lv, at, m, q.level + 1, q.u, q.uR, w, q.l, at[q.l], m[q.l].rank)
         /\ m[q.uR].rank <= K
<1> DEFINE l == q.level
           a == q.l
           n == q.n
           b == m[a].lptr
           u == q.u
           v == q.uR
<1>1. /\ l \in 0 .. M /\ l + 1 < NUM_LVLS /\ a \in on /\ lv[a] = l /\ n = m[a].rptr
      /\ Un(m, n) /\ Un(m, a) /\ Un(m, b)
      /\ Under(on, lv, at, m, K, l, u, n) /\ at[u] < at[a]
  BY DEF Third
<1>2. l \in Nat /\ l + 1 \in Lvls /\ (l + 1) - 1 = l /\ l + 1 > 0 /\ l + 1 # 0
  BY <1>1, Addresses DEF Lvls
<1>3. /\ u \in on /\ lv[u] = l + 1 /\ u # tail(l + 1) /\ Slack(on, m, u) /\ at[n] < at[v]
      /\ m[v].rank <= K
  BY <1>1 DEF Under, Placed, Last
<1>4. v \in on /\ lv[v] = l + 1 /\ v # u
  BY <1>3, Neighbours
<1>5. a \in Nodes /\ n \in on /\ lv[n] = l /\ at[a] < at[n]
  BY <1>1, UnNode
<1>6. b \in on
  BY <1>1, UnNode
<1>7. b \in Nodes
  <2> HIDE DEF b
  <2> QED BY <1>1, <1>6, UnNode
<1>8. /\ at[a] \in Nat /\ at[n] \in Nat /\ at[v] \in Nat /\ at[u] \in Nat /\ m[a].rank \in Ranks
      /\ m[a].rank \in Nat /\ m[u].rank \in Nat /\ m[v].rank \in Nat
  BY <1>1, <1>3, <1>4, <1>5, OnTyped
<1>9. at[a] < at[v]
  BY <1>1, <1>3, <1>5, <1>8
<1>10. u # NULL /\ v # NULL
  BY <1>3, <1>4, OnTyped
<1>11. /\ m[u].dptr \in on /\ lv[m[u].dptr] = l /\ at[m[u].dptr] = at[u]
       /\ m[m[u].dptr].rank = m[u].rank
  BY <1>2, <1>3, <1>10 DEF Shape, Downs
<1>12. /\ m[v].dptr \in on /\ lv[m[v].dptr] = l /\ at[m[v].dptr] = at[v]
       /\ m[m[v].dptr].rank = m[v].rank
  BY <1>2, <1>4, <1>10 DEF Shape, Downs
<1>13. Sorted(on, lv, at, m)
  BY DEF Shape
<1>14. m[u].rank >= m[a].rank
  BY <1>1, <1>11, <1>13 DEF Sorted
<1>15. m[a].rank >= m[v].rank
  BY <1>1, <1>9, <1>12, <1>13 DEF Sorted
<1>16. m[a].rank <= m[u].rank /\ m[v].rank <= m[a].rank
  BY <1>8, <1>14, <1>15
<1> HIDE DEF l, a, b, n, u, v
<1>17. Ready(on, lv, at, m, l + 1, u, v, w, a, at[a], m[a].rank)
  <2>1. b = m[a].lptr /\ n = m[a].rptr /\ v = m[u].rptr
    BY <1>1 DEF b, a, v, u
  <2> QED BY <1>1, <1>2, <1>3, <1>5, <1>7, <1>8, <1>9, <1>16, <2>1 DEF Ready
<1> QED BY <1>3, <1>17 DEF l, u, v, a

(* After SRCH_CONN_NEAR the list has its shape, and the search knows where *)
(* it is on the level it came from.                                        *)
LEMMA Raise ==
  ASSUME NEW on, NEW lv, NEW at, NEW m, Shape(on, lv, at, m, NULL),
         NEW K, NEW M \in Lvls, NEW q, NEW o, Third(on, lv, at, m, q, K, M),
         NEW w, w \in Nodes, w \notin on, AtNear(m, q, o, w),
         NEW m2, Raised(m, q, w, m2),
         NEW on2, on2 = on \cup {w}, NEW lv2, lv2 = [lv EXCEPT ![w] = q.level + 1],
         NEW at2, at2 = [at EXCEPT ![w] = at[q.l]]
  PROVE  /\ Shape(on2, lv2, at2, m2, NULL)
         /\ Placed(on2, lv2, m2, K, q.level, q.d) /\ Kept(m2, q, q.level)
         /\ Room(on2, q.level + 1)
         /\ Small(on2, lv2, m2, q, K, q.uR)
<1> DEFINE l == q.level
           a == q.l
           n == q.n
           b == m[a].lptr
           c == m[b].lptr
           x == m[n].rptr
           d == q.d
<1>1. /\ l \in 0 .. M /\ l + 1 < NUM_LVLS /\ a \in on /\ lv[a] = l /\ n = m[a].rptr
      /\ Un(m, n) /\ Un(m, a) /\ Un(m, b) /\ ~Un(m, c) /\ d \in {n, a, b, c}
      /\ Last(on, lv, m, K, l, d) /\ q.lVal = m[a].rank /\ Kept(m, q, l) /\ Room(on, l + 2)
  BY DEF Third
<1>2. q.uR = m[q.u].rptr
  BY DEF AtNear
<1>3. /\ Ready(on, lv, at, m, l + 1, q.u, q.uR, w, a, at[a], m[a].rank)
      /\ m[q.uR].rank <= K
  BY <1>2, RaiseReady
<1>4. /\ q.u \in on /\ lv[q.u] = l + 1 /\ l + 1 \in Lvls /\ a \in Nodes /\ q.u # tail(l + 1)
      /\ l \in Nat /\ l # l + 1
  BY <1>1, <1>3, Addresses DEF Ready
<1>5. q.uR \in on /\ lv[q.uR] = l + 1 /\ q.uR # head(l + 1)
  BY <1>2, <1>4, Neighbours
<1>6. /\ \A y \in on : y \in Addr
      /\ w \in Addr /\ w # NULL /\ lv \in [Addr -> Nat]
  BY OnTyped, Addresses DEF Shape, Typed
<1>7. Relinked(on, m, m2, q.u, q.uR, w, a)
  BY <1>6 DEF Relinked, Raised
<1>8. Written(m2, l + 1, q.u, q.uR, w, a, m[a].rank)
  <2>1. w # q.u /\ w # q.uR /\ w # a
    BY <1>1, <1>4, <1>5
  <2> QED BY <1>1, <1>4, <1>6, <2>1 DEF Written, Raised, AtNear
<1>9. Shape(on2, lv2, at2, m2, NULL)
  BY <1>3, <1>7, <1>8, LinkShape
<1>10. \A y \in on : lv2[y] = lv[y]
  BY <1>6
<1>11. n \in on /\ b \in on /\ lv[n] = l /\ lv[b] = l /\ m[b].rptr = a /\ m[n].lptr = a
  BY <1>1, UnNode
<1> HIDE DEF b, n
<1>12. c \in on /\ lv[c] = l /\ m[c].rptr = b /\ x \in on /\ lv[x] = l
  BY <1>1, <1>11, UnNode
<1>13. ~Un(m, x)
  <2>1. Un3(m, b)
    BY <1>1, <1>11 DEF Un3
  <2> QED BY <1>1, <1>11, <2>1 DEF Shape, Gaps
<1> HIDE DEF c, x
<1>14. \A y \in on : lv[y] = l => m2[y].rptr = m[y].rptr /\ m2[y].lptr = m[y].lptr
  BY <1>4, <1>5, <1>6 DEF Raised
<1>15. \A y \in on : (Un(m2, y) <=> Un(m, y) /\ y # a)
  BY <1>6 DEF Raised, Un
<1>16. a # n /\ a # b
  <2>1. at[a] < at[n] /\ at[b] < at[a]
    <3>1. at[a] < at[n]
      BY <1>1, UnNode
    <3>2. at[b] < at[a]
      BY <1>1, <1>11, UnNode
    <3> QED BY <3>1, <3>2
  <2>2. at[a] \in Nat
    BY <1>1, OnTyped
  <2> QED BY <2>1, <2>2
<1>17. ~Un(m2, a) /\ ~Un(m2, c) /\ ~Un(m2, x)
  BY <1>1, <1>12, <1>13, <1>15
<1>18. /\ m2[n].rptr = x /\ m2[n].lptr = a /\ m2[a].rptr = n /\ m2[b].rptr = a /\ m2[b].lptr = c
       /\ m2[c].rptr = b
  BY <1>1, <1>11, <1>12, <1>14 DEF b, c, x
<1>19. d \in on /\ lv[d] = l /\ d # tail(l) /\ m[d].rank >= K /\ m[m[d].rptr].rank <= K
  BY <1>1 DEF Last
<1>20. m[d].rptr \in on
  BY <1>19, Neighbours
<1>21. Slack(on2, m2, d)
  <2>1. d \in on2 /\ d # tail(lv2[d])
    BY <1>10, <1>19
  <2>2. CASE d = n
    <3>1. ~Un3(m2, m2[d].rptr)
      BY <1>17, <1>18, <2>2 DEF Un3
    <3>2. ~Un(m2, m2[d].rptr) /\ ~Un(m2, m2[d].lptr)
      BY <1>17, <1>18, <2>2
    <3> HIDE DEF d
    <3> QED BY <1>9, <2>1, <3>1, <3>2, SlackFrom
  <2>3. CASE d = a
    <3>1. ~Un3(m2, m2[d].rptr)
      BY <1>17, <1>18, <2>3 DEF Un3
    <3>2. ~Un(m2, d)
      BY <1>17, <2>3
    <3> HIDE DEF d
    <3> QED BY <1>9, <2>1, <3>1, <3>2, SlackFrom
  <2>4. CASE d = b
    <3>1. ~Un3(m2, m2[d].rptr)
      BY <1>17, <1>18, <2>4 DEF Un3
    <3>2. ~Un(m2, m2[d].rptr) /\ ~Un(m2, m2[d].lptr)
      BY <1>17, <1>18, <2>4
    <3> HIDE DEF d
    <3> QED BY <1>9, <2>1, <3>1, <3>2, SlackFrom
  <2>5. CASE d = c
    <3>1. ~Un3(m2, m2[d].rptr)
      BY <1>17, <1>18, <2>5 DEF Un3
    <3>2. ~Un(m2, d)
      BY <1>17, <2>5
    <3> HIDE DEF d
    <3> QED BY <1>9, <2>1, <3>1, <3>2, SlackFrom
  <2> QED BY <1>1, <2>2, <2>3, <2>4, <2>5
<1>22. Last(on2, lv2, m2, K, l, d)
  <2>1. m2[d].rptr = m[d].rptr /\ m2[d].rank = m[d].rank /\ m2[m[d].rptr].rank = m[m[d].rptr].rank
    BY <1>6, <1>14, <1>19, <1>20 DEF Raised
  <2> QED BY <1>10, <1>19, <2>1 DEF Last
<1>23. Kept(m2, q, l)
  BY <1>1, <1>6, <1>14, <1>19 DEF Kept, Raised
<1>24. Room(on2, l + 1)
  <2>1. IsFiniteSet(Nodes \ on) /\ Cardinality(Nodes \ on) \in Nat
    BY LevelsFinite, FS_Subset, FS_CardinalityType
  <2>2. Nodes \ on2 = (Nodes \ on) \ {w} /\ w \in Nodes \ on
    OBVIOUS
  <2>3. Cardinality(Nodes \ on2) = Cardinality(Nodes \ on) - 1
    BY <2>1, <2>2, FS_RemoveElement
  <2>4. Cardinality(Nodes \ on) >= l + 2
    BY <1>1 DEF Room
  <2>5. Cardinality(Nodes \ on2) >= l + 1
    BY <1>4, <2>1, <2>3, <2>4
  <2> QED BY <2>5 DEF Room
<1>25. Small(on2, lv2, m2, q, K, q.uR)
  <2>1. m2[q.uR].rank = m[q.uR].rank
    BY <1>5, <1>6 DEF Raised
  <2> QED BY <1>3, <1>5, <1>10, <2>1 DEF Small
<1> QED BY <1>9, <1>21, <1>22, <1>23, <1>24, <1>25 DEF Placed

(* SRCH_CONN_NEAR: the new node is linked on the level above. *)
LEMMA StepConnNear ==
  ASSUME NEW on, NEW lv, NEW at, ListInv(on, lv, at), Flags, MachinesInv, RegsTyped,
         NEW e, NEW remove, Allowed(e, remove), srch.state = "SRCH_CONN_NEAR"
  PROVE  \E on2, lv2, at2 : ListInv(on2, lv2, at2)'
<1> USE DEF s
<1>1. ins_state = "INS_CONN_NEW" /\ ~search_done /\ ~get_next_node
  BY DEF MachinesInv, SearchWithinInsert, Flags
<1>2. /\ Shape(on, lv, at, mem, NULL) /\ Books(on, lv) /\ Searching(on, lv, at) /\ Search /\ List
      /\ Insert_(remove) /\ Copies /\ sl_in' = sl_in /\ sl_num_entries' = sl_num_entries
      /\ sl_num_entries \in Nat /\ ~Lower /\ ~Lower' /\ Torn' = NULL /\ ~Unlinks
      /\ rmv'.state = "RMV_IDLE" /\ ~Upper'
      /\ ~sl_insert' /\ ~start_search' /\ free_list_in = NULL /\ free_list_in' = NULL
  BY <1>1, WhileInserting, CycleParts DEF ListInv
<1>3. PICK w, m, m2, q, q2, o, K, M, l, on2, lv2, at2 :
        /\ w = new_node /\ m = mem /\ m2 = mem' /\ q = srch /\ q2 = srch' /\ o = dout
        /\ K = sl_in.rank /\ M = curr_max_lvl /\ l = q.level /\ on2 = on \cup {w}
        /\ lv2 = [lv EXCEPT ![w] = q.level + 1] /\ at2 = [at EXCEPT ![w] = at[q.l]]
  OBVIOUS
<1>4. Third(on, lv, at, m, q, K, M) /\ AtNear(m, q, o, w) /\ ~q.first_node
  <2>1. /\ Third(on, lv, at, mem, srch, sl_in.rank, curr_max_lvl)
        /\ AtNear(mem, srch, dout, new_node) /\ ~srch.first_node
    BY <1>2 DEF Searching, Seeking
  <2> QED BY <1>3, <2>1
<1>5. M \in Lvls /\ M \in Nat /\ q \in SearchRegs /\ \A y \in on \cap Nodes : lv[y] <= M
  BY <1>2, <1>3, Addresses DEF Books, RegsTyped
<1>6. /\ l \in 0 .. M /\ l + 1 < NUM_LVLS /\ l \in Nat /\ l + 1 \in Lvls /\ q.l \in on
      /\ Room(on, l + 2) /\ q.u \in on /\ lv[q.u] = l + 1 /\ q.u # tail(l + 1) /\ ~q.store_d
      /\ q.cons_nodes = 3 /\ lv[q.l] = l
  <2>1. /\ l \in 0 .. M /\ l + 1 < NUM_LVLS /\ q.l \in on /\ Room(on, l + 2) /\ ~q.store_d
        /\ q.cons_nodes = 3 /\ Under(on, lv, at, m, K, l, q.u, q.n) /\ lv[q.l] = l
    BY <1>3, <1>4 DEF Third
  <2>2. q.u \in on /\ lv[q.u] = l + 1 /\ q.u # tail(l + 1)
    BY <2>1 DEF Under, Placed, Last
  <2>3. l \in Nat /\ l + 1 \in Lvls
    BY <1>5, <2>1, Addresses DEF Lvls
  <2> QED BY <2>1, <2>2, <2>3
<1>7. w \in Nodes /\ w \notin on /\ new_node' = w /\ free' = Nodes \ on
  <2>1. l + 2 \in Nat /\ l + 2 > 0
    BY <1>6
  <2> QED BY <1>1, <1>2, <1>3, <1>6, <2>1, NewNode, NewNodeStays
<1>8. /\ m \in [Addr -> Node] /\ w \in Addr /\ lv \in [Addr -> Nat]
      /\ q.uR = m[q.u].rptr /\ o.rptr = q.uR
  BY <1>2, <1>3, <1>4, <1>7, Addresses DEF Shape, Typed, AtNear
<1>9. /\ q.uR \in on /\ lv[q.uR] = l + 1 /\ q.uR # q.u /\ q.uR # q.l /\ q.u # q.l
      /\ q.uR \in Addr /\ q.u \in Addr /\ q.l \in Addr
  <2>1. q.uR \in on /\ lv[q.uR] = l + 1 /\ q.uR # q.u
    BY <1>2, <1>3, <1>6, <1>8, Neighbours
  <2>2. q.uR # q.l /\ q.u # q.l
    BY <1>6, <2>1
  <2>3. \A y \in on : y \in Addr
    BY <1>2, OnTyped
  <2> QED BY <1>6, <2>1, <2>2, <2>3
<1>10. m2 = [m EXCEPT ![q.uR].lptr = w, ![q.u].rptr = w, ![q.l].uptr = w]
  <2>1. SearchWrites(mem) = [mem EXCEPT ![srch.uR].lptr = new_node, ![srch.u].rptr = new_node,
                                        ![srch.l].uptr = new_node]
    BY DEF SearchWrites
  <2>2. \A x : InsertWrites(x) = x
    BY <1>1 DEF InsertWrites
  <2>3. \A x : RemoveWrites(x) = x
    BY <1>2 DEF RemoveWrites
  <2> QED BY <1>2, <1>3, <2>1, <2>2, <2>3 DEF List
<1>11. m2 = [x \in Addr |-> IF x = q.uR THEN [m[x] EXCEPT !.lptr = w]
                            ELSE IF x = q.u THEN [m[x] EXCEPT !.rptr = w]
                            ELSE IF x = q.l THEN [m[x] EXCEPT !.uptr = w] ELSE m[x]]
  BY <1>8, <1>9, <1>10
<1>12. Raised(m, q, w, m2)
  <2>1. \A x \in Addr : m[x] \in Node
    BY <1>8
  <2>2. \A r \in Node : /\ [r EXCEPT !.lptr = w] \in Node
                        /\ [r EXCEPT !.rptr = w] \in Node
                        /\ [r EXCEPT !.uptr = w] \in Node
    <3>1. SUFFICES ASSUME NEW r \in Node
                   PROVE  /\ [r EXCEPT !.lptr = w] \in Node
                          /\ [r EXCEPT !.rptr = w] \in Node
                          /\ [r EXCEPT !.uptr = w] \in Node
      OBVIOUS
    <3>2. [r EXCEPT !.lptr = w] \in Node
      BY <1>8 DEF Node
    <3>3. [r EXCEPT !.rptr = w] \in Node
      BY <1>8 DEF Node
    <3>4. [r EXCEPT !.uptr = w] \in Node
      BY <1>8 DEF Node
    <3> QED BY <3>2, <3>3, <3>4
  <2>3. m2 \in [Addr -> Node]
    BY <1>11, <2>1, <2>2
  <2>4. ASSUME NEW x \in Addr
        PROVE  /\ m2[x].rank = m[x].rank /\ m2[x].meta = m[x].meta /\ m2[x].dptr = m[x].dptr
               /\ m2[x].rptr = IF x = q.u THEN w ELSE m[x].rptr
               /\ m2[x].lptr = IF x = q.uR THEN w ELSE m[x].lptr
               /\ m2[x].uptr = IF x = q.l THEN w ELSE m[x].uptr
    <3>1. m2[x] = IF x = q.uR THEN [m[x] EXCEPT !.lptr = w]
                  ELSE IF x = q.u THEN [m[x] EXCEPT !.rptr = w]
                  ELSE IF x = q.l THEN [m[x] EXCEPT !.uptr = w] ELSE m[x]
      BY <1>11
    <3>2. m[x] \in Node
      BY <2>1
    <3> QED BY <1>9, <3>1, <3>2 DEF Node
  <2> QED BY <2>3, <2>4 DEF Raised
<1>13. /\ Shape(on2, lv2, at2, m2, NULL)
       /\ Placed(on2, lv2, m2, K, l, q.d) /\ Kept(m2, q, l)
       /\ Room(on2, l + 1) /\ Small(on2, lv2, m2, q, K, q.uR)
  <2>1. Shape(on, lv, at, m, NULL)
    BY <1>2, <1>3
  <2>2. /\ Shape(on2, lv2, at2, m2, NULL)
        /\ Placed(on2, lv2, m2, K, q.level, q.d) /\ Kept(m2, q, q.level)
        /\ Room(on2, q.level + 1) /\ Small(on2, lv2, m2, q, K, q.uR)
    BY <1>3, <1>4, <1>5, <1>7, <1>12, <2>1, Raise
  <2> QED BY <1>3, <2>2
<1>14. /\ \A x \in on : lv2[x] = lv[x]
       /\ lv2[w] = l + 1
  <2>1. \A y \in on : y \in Addr
    BY <1>2, OnTyped
  <2> QED BY <1>3, <1>7, <1>8, <2>1
<1>15. curr_max_lvl' = (IF l + 1 > M THEN M + 1 ELSE M)
  BY <1>2, <1>3 DEF Copies, Unlinks
<1>16. Books(on2, lv2)'
  <2>1. free' \subseteq Nodes /\ FreeNow' = Nodes \ on2
    <3>1. get_next_node' = TRUE
      BY <1>2 DEF List
    <3> QED BY <1>2, <1>3, <1>7, <3>1 DEF FreeNow
  <2>2. curr_max_lvl' \in Lvls /\ \A x \in on2 \cap Nodes : lv2[x] <= curr_max_lvl'
    <3>1. CASE l + 1 > M
      <4>1. l = M /\ curr_max_lvl' = M + 1
        BY <1>5, <1>6, <1>15, <3>1
      <4>2. \A x \in on \cap Nodes : lv[x] \in Nat
        BY <1>2, OnTyped
      <4>3. \A x \in on \cap Nodes : lv2[x] <= M + 1
        BY <1>5, <1>14, <4>2
      <4> QED BY <1>3, <1>6, <1>14, <4>1, <4>3
    <3>2. CASE ~(l + 1 > M)
      <4>1. l + 1 <= M /\ curr_max_lvl' = M
        BY <1>5, <1>6, <1>15, <3>2
      <4> QED BY <1>3, <1>5, <1>14, <4>1
    <3> QED BY <3>1, <3>2
  <2>3. rptr_head' \in [Lvls -> Addr] /\ \A k \in Lvls : rptr_head'[k] = m2[head(k)].rptr
    <3>1. rptr_head' = [k \in Lvls |-> IF k = l + 1 /\ q.u = head(k) THEN w ELSE rptr_head[k]]
      BY <1>1, <1>2, <1>3 DEF Copies
    <3>2. rptr_head \in [Lvls -> Addr] /\ \A k \in Lvls : rptr_head[k] = m[head(k)].rptr
      BY <1>2, <1>3 DEF Books
    <3>3. ASSUME NEW k \in Lvls PROVE rptr_head'[k] = m2[head(k)].rptr
      <4>1. head(k) \in Addr /\ lv[head(k)] = k
        BY <1>2, Addresses DEF Shape, Ends
      <4>2. head(k) = q.u <=> k = l + 1 /\ q.u = head(k)
        BY <1>6, <4>1
      <4> QED BY <1>12, <3>1, <3>2, <4>1, <4>2 DEF Raised
    <3> QED BY <1>8, <3>1, <3>2, <3>3
  <2>4. lptr_tail' = m2[tail(0)].lptr \/ m2[tail(0)].lptr = head(0)
    <3>1. lptr_tail' = lptr_tail
      BY <1>1, <1>2 DEF Copies, Unlinks
    <3>2. tail(0) \in Addr /\ lv[tail(0)] = 0
      BY <1>2, Addresses DEF Shape, Ends
    <3>3. tail(0) # q.uR
      BY <1>6, <1>9, <3>2
    <3>4. m2[tail(0)].lptr = m[tail(0)].lptr
      BY <1>12, <3>2, <3>3 DEF Raised
    <3> QED BY <1>2, <1>3, <3>1, <3>4 DEF Books
  <2>5. Cardinality(Lowest(on2, lv2)) = sl_num_entries' + (IF Lower' THEN 1 ELSE 0)
    <3>1. l + 1 # 0
      BY <1>6
    <3>2. Lowest(on2, lv2) = Lowest(on, lv)
      BY <1>3, <1>14, <3>1 DEF Lowest
    <3> QED BY <1>2, <3>2 DEF Books
  <2>6. sl_num_entries' \in Nat
    BY <1>2
  <2> QED BY <1>3, <2>1, <2>2, <2>3, <2>4, <2>5, <2>6 DEF Books
<1>17. Removing(on2, lv2)'
  BY <1>2 DEF Removing, Lower, Upper
<1>18. Shape(on2, lv2, at2, mem, Torn)'
  BY <1>2, <1>3, <1>13
<1>19. ins_state' = "INS_CONN_NEW"
  BY <1>1, <1>2 DEF Insert_
<1>20. q2 = IF l + 1 > M
            THEN [q EXCEPT !.state = "GO_DOWN", !.u = q.d, !.n = q.dD, !.level = l - 1]
            ELSE [q EXCEPT !.state = "GO_RIGHT1"]
  <2>1. srch' = ConnNear
    BY <1>2 DEF Search
  <2> QED BY <1>3, <2>1 DEF ConnNear
<1>21. CASE l + 1 > M
  <2>1. /\ q2.state = "GO_DOWN" /\ ~q2.first_node /\ q2.u = q.d /\ q2.d = q.d /\ q2.n = q.dD
        /\ q2.level = l - 1 /\ ~q2.store_d /\ q2.dR = q.dR /\ q2.dD = q.dD
    BY <1>4, <1>5, <1>6, <1>20, <1>21 DEF SearchRegs
  <2>2. l = M /\ (l - 1) + 1 = l /\ (l - 1) + 2 = l + 1 /\ l - 1 \in -1 .. (M + 1) - 1
    BY <1>5, <1>6, <1>21
  <2>3. Kept(m2, q2, l)
    BY <1>13, <2>1 DEF Kept
  <2>4. Found(on2, lv2, m2, q2, K, M + 1, l - 1)
    BY <1>13, <2>1, <2>2, <2>3 DEF Found
  <2>5. l - 1 >= 0 => l > 0
    BY <1>6
  <2>6. AtDown(on2, lv2, m2, q2, K, M + 1)
    BY <2>1, <2>3, <2>4, <2>5 DEF AtDown, Kept
  <2>7. Seeking(on2, lv2, at2, m2, q2, dout', K, M + 1, new_node')
    BY <2>1, <2>6 DEF Seeking
  <2>8. curr_max_lvl' = M + 1
    BY <1>15, <1>21
  <2>9. Searching(on2, lv2, at2)'
    <3>1. srch'.state # "SRCH_IDLE"
      BY <1>3, <2>1
    <3> QED BY <1>2, <1>3, <1>19, <2>7, <2>8, <3>1 DEF Searching
  <2> QED BY <1>16, <1>17, <1>18, <2>9 DEF ListInv
<1>22. CASE ~(l + 1 > M)
  <2>1. /\ q2.state = "GO_RIGHT1" /\ ~q2.first_node /\ q2.d = q.d /\ q2.cons_nodes = 3
        /\ q2.level = l /\ ~q2.store_d /\ q2.dR = q.dR /\ q2.dD = q.dD
    BY <1>3, <1>4, <1>5, <1>6, <1>20, <1>22 DEF SearchRegs
  <2>2. l \in 0 .. M - 1
    BY <1>5, <1>6, <1>22
  <2>3. Kept(m2, q2, l)
    BY <1>13, <2>1 DEF Kept
  <2>4. Beyond(on2, lv2, m2, q2, K, M)
    BY <1>13, <2>1, <2>2, <2>3 DEF Beyond
  <2>5. dout' = o
    <3>1. srch'.state # "SRCH_IDLE"
      BY <1>3, <2>1
    <3> QED BY <1>3, <3>1, DoutStep DEF Waits
  <2>6. Small(on2, lv2, m2, q2, K, o.rptr)
    BY <1>3, <1>8, <1>13, <2>1 DEF Small
  <2>7. Seeking(on2, lv2, at2, m2, q2, dout', K, M, new_node')
    BY <2>1, <2>4, <2>5, <2>6 DEF Seeking, AtRight1
  <2>8. curr_max_lvl' = M
    BY <1>15, <1>22
  <2>9. Searching(on2, lv2, at2)'
    <3>1. srch'.state # "SRCH_IDLE"
      BY <1>3, <2>1
    <3> QED BY <1>2, <1>3, <1>19, <2>7, <2>8, <3>1 DEF Searching
  <2> QED BY <1>16, <1>17, <1>18, <2>9 DEF ListInv
<1> QED BY <1>21, <1>22

-----------------------------------------------------------------------------
(* The invariant holds.                                                    *)

(* The invariant.  Somewhere there is a set of linked nodes, with a level  *)
(* and a place for each, that explains the RAMs and what every machine has *)
(* in its registers.                                                       *)
ListHolds == \E on, lv, at : ListInv(on, lv, at)
WholeInv == ListHolds /\ Flags /\ RegisterHolds /\ RegsTyped /\ MachinesInv

(* Heads and tails as the initialisation leaves them. *)
LEMMA InitEnds ==
  ASSUME NEW l \in Lvls
  PROVE  /\ head(l) \in 0 .. 2 * NUM_LVLS - 1 /\ tail(l) \in 0 .. 2 * NUM_LVLS - 1
         /\ head(l) \div 2 = l /\ tail(l) \div 2 = l /\ head(l) % 2 = 0 /\ tail(l) % 2 = 1
         /\ InitMem[head(l)] =
              [rank |-> MAX_RANK, meta |-> NoMeta, rptr |-> tail(l), lptr |-> NULL,
               uptr |-> Above(l, head(l)), dptr |-> Below(l, head(l))]
         /\ InitMem[tail(l)] =
              [rank |-> 0, meta |-> NoMeta, rptr |-> NULL, lptr |-> head(l),
               uptr |-> Above(l, tail(l)), dptr |-> Below(l, tail(l))]
<1>1. l \in Nat /\ l < NUM_LVLS /\ NUM_LVLS \in Nat
  BY Addresses DEF Lvls
<1>2. head(l) = 2 * l /\ tail(l) = 2 * l + 1
  BY DEF head, tail
<1>3. /\ 2 * l \in 0 .. 2 * NUM_LVLS - 1 /\ 2 * l + 1 \in 0 .. 2 * NUM_LVLS - 1
      /\ (2 * l) \div 2 = l /\ (2 * l + 1) \div 2 = l /\ (2 * l) % 2 = 0 /\ (2 * l + 1) % 2 = 1
  BY <1>1
<1>4. /\ head(l) \in Addr /\ tail(l) \in Addr /\ head(l) # tail(l)
      /\ ~(head(l) >= 2 * NUM_LVLS) /\ ~(tail(l) >= 2 * NUM_LVLS)
  BY <1>1, <1>2, <1>3, Addresses
<1> QED BY <1>2, <1>3, <1>4 DEF InitMem

(* What the initialisation writes to the ends of a level.                  *)
LEMMA InitPointers ==
  ASSUME NEW l \in Lvls, NEW x, x \in {head(l), tail(l)}
  PROVE  /\ Above(l, x) \in Addr /\ Above(l, x) # NULL
         /\ Below(l, x) \in Addr
         /\ l > 0 => /\ l - 1 \in Lvls
                     /\ x = head(l) => Below(l, x) = head(l - 1)
                     /\ x = tail(l) => Below(l, x) = tail(l - 1)
                     /\ Above(l - 1, Below(l, x)) = x
<1>1. l \in Nat /\ l < NUM_LVLS /\ NUM_LVLS \in Nat /\ MAX_SIZE \in Nat /\ MAX_SIZE > 3 * NUM_LVLS + 1
  BY Addresses DEF Lvls
<1>2. x = 2 * l \/ x = 2 * l + 1
  BY DEF head, tail
<1>3. x \in Nat /\ x + 2 < MAX_SIZE /\ 0 # MAX_SIZE - 1 /\ 0 \in Addr /\ NULL = MAX_SIZE - 1
  BY <1>1, <1>2 DEF Addr, NULL
<1>4. l < NUM_LVLS - 1 => x + 2 < MAX_SIZE - 1
  BY <1>1, <1>2
<1>5. Above(l, x) \in Addr /\ Above(l, x) # NULL
  <2>1. CASE l < NUM_LVLS - 1
    <3>1. x + 2 \in Addr /\ x + 2 # NULL
      BY <1>1, <1>3, <1>4, <2>1 DEF Addr
    <3> QED BY <2>1, <3>1 DEF Above
  <2>2. CASE ~(l < NUM_LVLS - 1)
    BY <1>3, <2>2 DEF Above
  <2> QED BY <2>1, <2>2
<1>6. CASE l > 0
  <2>1. l - 1 \in Lvls /\ l - 1 < NUM_LVLS - 1
    BY <1>1, <1>6 DEF Lvls
  <2>2. Below(l, x) = x - 2
    BY <1>6 DEF Below
  <2>3. x - 2 \in Addr /\ (x - 2) + 2 = x
    BY <1>1, <1>2, <1>3, <1>6 DEF Addr
  <2>4. Above(l - 1, Below(l, x)) = x
    BY <2>1, <2>2, <2>3 DEF Above
  <2>5. 2 * l - 2 = 2 * (l - 1) /\ (2 * l + 1) - 2 = 2 * (l - 1) + 1
    BY <1>1
  <2> QED BY <1>5, <2>1, <2>2, <2>3, <2>4, <2>5 DEF head, tail
<1>7. CASE ~(l > 0)
  BY <1>3, <1>5, <1>7 DEF Below
<1> QED BY <1>6, <1>7

(* What InitMem holds, field by field. *)
InitFields(m) ==
  \A l \in Lvls :
    /\ m[head(l)].rank = MAX_RANK /\ m[head(l)].rptr = tail(l)
    /\ m[head(l)].uptr = Above(l, head(l)) /\ m[head(l)].dptr = Below(l, head(l))
    /\ m[tail(l)].rank = 0 /\ m[tail(l)].rptr = NULL
    /\ m[tail(l)].lptr = head(l)
    /\ m[tail(l)].uptr = Above(l, tail(l)) /\ m[tail(l)].dptr = Below(l, tail(l))

(* What the initialisation writes, field by field.                         *)
LEMMA InitMemFields == InitFields(InitMem) /\ InitMem \in [Addr -> Node]
<1>1. InitFields(InitMem)
  <2>1. SUFFICES ASSUME NEW l \in Lvls
                 PROVE  /\ InitMem[head(l)].rank = MAX_RANK /\ InitMem[head(l)].rptr = tail(l)
                        /\ InitMem[head(l)].uptr = Above(l, head(l))
                        /\ InitMem[head(l)].dptr = Below(l, head(l))
                        /\ InitMem[tail(l)].rank = 0 /\ InitMem[tail(l)].rptr = NULL
                        /\ InitMem[tail(l)].lptr = head(l)
                        /\ InitMem[tail(l)].uptr = Above(l, tail(l))
                        /\ InitMem[tail(l)].dptr = Below(l, tail(l))
    BY DEF InitFields
  <2>2. /\ InitMem[head(l)] =
             [rank |-> MAX_RANK, meta |-> NoMeta, rptr |-> tail(l), lptr |-> NULL,
              uptr |-> Above(l, head(l)), dptr |-> Below(l, head(l))]
        /\ InitMem[tail(l)] =
             [rank |-> 0, meta |-> NoMeta, rptr |-> NULL, lptr |-> head(l),
              uptr |-> Above(l, tail(l)), dptr |-> Below(l, tail(l))]
    BY InitEnds
  <2> QED BY <2>2
<1>2. Blank \in Node /\ MAX_RANK \in Ranks /\ 0 \in Ranks /\ NULL \in Addr
  BY Addresses, MaxRankAssumption DEF Blank, Node, Ranks
<1>3. ASSUME NEW x \in Addr PROVE InitMem[x] \in Node
  <2>1. CASE x >= 2 * NUM_LVLS
    BY <1>2, <2>1 DEF InitMem
  <2>2. CASE ~(x >= 2 * NUM_LVLS)
    <3>1. x \in Nat /\ x < 2 * NUM_LVLS /\ NUM_LVLS \in Nat
      BY <2>2, Addresses DEF Addr
    <3>2. x \div 2 \in Lvls /\ (x = 2 * (x \div 2) \/ x = 2 * (x \div 2) + 1)
      BY <3>1 DEF Lvls
    <3>3. PICK l \in Lvls : x = head(l) \/ x = tail(l)
      BY <3>2 DEF head, tail
    <3>4. Above(l, x) \in Addr /\ Below(l, x) \in Addr
      BY <3>3, InitPointers
    <3>5. head(l) \in Addr /\ tail(l) \in Addr
      BY Addresses
    <3>6. CASE x = head(l)
      <4>1. InitMem[x] = [rank |-> MAX_RANK, meta |-> NoMeta, rptr |-> tail(l), lptr |-> NULL,
                          uptr |-> Above(l, x), dptr |-> Below(l, x)]
        BY <3>6, InitEnds
      <4> QED BY <1>2, <3>4, <3>5, <4>1 DEF Node
    <3>7. CASE x = tail(l)
      <4>1. InitMem[x] = [rank |-> 0, meta |-> NoMeta, rptr |-> NULL, lptr |-> head(l),
                          uptr |-> Above(l, x), dptr |-> Below(l, x)]
        BY <3>7, InitEnds
      <4> QED BY <1>2, <3>4, <3>5, <4>1 DEF Node
    <3> QED BY <3>3, <3>6, <3>7
  <2> QED BY <2>1, <2>2
<1>4. InitMem = [x \in Addr |-> InitMem[x]]
  BY DEF InitMem
<1>5. InitMem \in [Addr -> Node]
  BY <1>3, <1>4
<1> QED BY <1>1, <1>5

(* An initialised memory is a list with nothing in it.                     *)
LEMMA InitShape ==
  ASSUME NEW on, on \subseteq 0 .. MAX_SIZE - 2, on \cap Nodes = {},
         \A x \in on : \E l \in Lvls : x = head(l) \/ x = tail(l),
         NEW lv \in [Addr -> Nat], NEW at \in [Addr -> Nat],
         \A l \in Lvls : /\ head(l) \in on /\ lv[head(l)] = l /\ at[head(l)] = 0
                         /\ tail(l) \in on /\ lv[tail(l)] = l /\ at[tail(l)] = 1,
         NEW m \in [Addr -> Node], InitFields(m)
  PROVE  Shape(on, lv, at, m, NULL)
<1>2. 0 \in Lvls /\ \A l \in Lvls : head(l) # tail(l)
  BY Addresses
<1>3. ASSUME NEW x \in on
      PROVE  lv[x] \in Lvls /\ (x = head(lv[x]) \/ x = tail(lv[x]))
  <2>1. PICK l \in Lvls : x = head(l) \/ x = tail(l)
    OBVIOUS
  <2>2. lv[x] = l
    BY <2>1
  <2> QED BY <2>1, <2>2
<1>4. Typed(on, lv, at, m)
  BY <1>3 DEF Typed
<1>5. ASSUME NEW x \in on PROVE ~Un(m, x)
  <2>1. x \in {head(lv[x]), tail(lv[x])} /\ lv[x] \in Lvls
    BY <1>3
  <2>2. Above(lv[x], x) # NULL
    BY <2>1, InitPointers
  <2>3. m[x].uptr = Above(lv[x], x)
    BY <2>1 DEF InitFields
  <2> QED BY <2>2, <2>3 DEF Un
<1>6. Ends(on, lv, at, m)
  <2>1. \A l \in Lvls : m[head(l)].uptr # NULL /\ m[tail(l)].uptr # NULL
    BY <1>5 DEF Un
  <2>2. at[tail(0)] = 1 /\ 0 < 1
    BY <1>2
  <2>3. \A l \in Lvls : at[tail(l)] = at[tail(0)]
    BY <2>2
  <2>4. \A l \in Lvls : m[head(l)].rank = MAX_RANK /\ m[tail(l)].rank = 0 /\ m[tail(l)].rptr = NULL
    BY DEF InitFields
  <2> QED BY <2>1, <2>2, <2>3, <2>4 DEF Ends
<1>7. Alone(on, lv, at)
  <2>1. SUFFICES ASSUME NEW x \in on, NEW y \in on, lv[x] = lv[y], at[x] = at[y] PROVE x = y
    BY DEF Alone
  <2>2. /\ x \in {head(lv[x]), tail(lv[x])} /\ y \in {head(lv[x]), tail(lv[x])} /\ lv[x] \in Lvls
    BY <1>3, <2>1
  <2>3. at[head(lv[x])] = 0 /\ at[tail(lv[x])] = 1
    BY <2>2
  <2> QED BY <2>1, <2>2, <2>3
<1>8. Rights(on, lv, at, m)
  <2>1. SUFFICES ASSUME NEW x \in on, x # tail(lv[x])
                 PROVE  /\ m[x].rptr \in on /\ lv[m[x].rptr] = lv[x] /\ at[x] < at[m[x].rptr]
                        /\ m[m[x].rptr].lptr = x
                        /\ \A w \in on : lv[w] = lv[x] => at[w] <= at[x] \/ at[m[x].rptr] <= at[w]
    BY DEF Rights
  <2>2. PICK l : l = lv[x] /\ x = head(l) /\ l \in Lvls
    BY <1>3, <2>1
  <2>3. m[x].rptr = tail(l) /\ at[x] = 0 /\ at[tail(l)] = 1 /\ lv[tail(l)] = l /\ m[tail(l)].lptr = x
        /\ tail(l) \in on
    BY <2>2 DEF InitFields
  <2>4. ASSUME NEW w \in on, lv[w] = l PROVE w = x \/ w = tail(l)
    BY <1>3, <2>2, <2>4
  <2>5. 0 < 1 /\ 0 <= 0 /\ 1 <= 1
    OBVIOUS
  <2> QED BY <2>2, <2>3, <2>4, <2>5
<1>9. Lefts(on, lv, m)
  <2>1. SUFFICES ASSUME NEW x \in on, x # head(lv[x])
                 PROVE  /\ m[x].lptr \in on /\ lv[m[x].lptr] = lv[x] /\ m[m[x].lptr].rptr = x
                        /\ m[x].lptr # tail(lv[x])
    BY DEF Lefts
  <2>2. PICK l : l = lv[x] /\ x = tail(l) /\ l \in Lvls
    BY <1>3, <2>1
  <2>3. m[x].lptr = head(l) /\ m[head(l)].rptr = x /\ head(l) \in on /\ lv[head(l)] = l
    BY <2>2 DEF InitFields
  <2> QED BY <1>2, <2>2, <2>3
<1>10. Downs(on, lv, at, m, NULL)
  <2>1. SUFFICES ASSUME NEW x \in on, lv[x] > 0
                 PROVE  /\ m[x].dptr \in on /\ lv[m[x].dptr] = lv[x] - 1 /\ at[m[x].dptr] = at[x]
                        /\ m[m[x].dptr].rank = m[x].rank /\ m[m[x].dptr].uptr = x
                        /\ x \in Nodes <=> m[x].dptr \in Nodes
    BY DEF Downs
  <2>2. PICK l : l = lv[x] /\ x \in {head(l), tail(l)} /\ l \in Lvls
    BY <1>3
  <2>3. /\ l - 1 \in Lvls /\ Above(l - 1, Below(l, x)) = x
        /\ x = head(l) => Below(l, x) = head(l - 1)
        /\ x = tail(l) => Below(l, x) = tail(l - 1)
    BY <2>1, <2>2, InitPointers
  <2>4. CASE x = head(l)
    <3>1. m[x].dptr = head(l - 1) /\ m[head(l - 1)].uptr = x /\ m[x].rank = MAX_RANK
          /\ m[head(l - 1)].rank = MAX_RANK
      BY <2>2, <2>3, <2>4 DEF InitFields
    <3>2. /\ head(l - 1) \in on /\ lv[head(l - 1)] = l - 1 /\ at[head(l - 1)] = 0 /\ at[x] = 0
      BY <2>2, <2>3, <2>4
    <3> QED BY <2>2, <3>1, <3>2
  <2>5. CASE x = tail(l)
    <3>1. m[x].dptr = tail(l - 1) /\ m[tail(l - 1)].uptr = x /\ m[x].rank = 0
          /\ m[tail(l - 1)].rank = 0
      BY <2>2, <2>3, <2>5 DEF InitFields
    <3>2. /\ tail(l - 1) \in on /\ lv[tail(l - 1)] = l - 1 /\ at[tail(l - 1)] = 1 /\ at[x] = 1
      BY <2>2, <2>3, <2>5
    <3> QED BY <2>2, <3>1, <3>2
  <2> QED BY <2>2, <2>4, <2>5
<1>11. Ups(on, lv, m, NULL) /\ Spread(on, m) /\ Labels(on, lv, m)
  BY DEF Ups, Spread, Labels
<1>12. Gaps(on, m)
  BY <1>5 DEF Gaps, Un3
<1>13. Sorted(on, lv, at, m)
  <2>1. SUFFICES ASSUME NEW x \in on, NEW y \in on, lv[x] = lv[y], at[x] < at[y]
                 PROVE  m[x].rank >= m[y].rank
    BY DEF Sorted
  <2>2. PICK l : l = lv[x] /\ x \in {head(l), tail(l)} /\ y \in {head(l), tail(l)} /\ l \in Lvls
    BY <1>3, <2>1
  <2>3. at[head(l)] = 0 /\ at[tail(l)] = 1
    BY <2>2
  <2>4. x = head(l) /\ y = tail(l)
    <3>1. at[x] \in {0, 1} /\ at[y] \in {0, 1} /\ ~(0 < 0) /\ ~(1 < 1) /\ ~(1 < 0)
      BY <2>2, <2>3
    <3>2. at[x] = 0 /\ at[y] = 1
      BY <2>1, <3>1
    <3> QED BY <2>2, <2>3, <3>2
  <2>5. m[x].rank = MAX_RANK /\ m[y].rank = 0
    BY <2>2, <2>4 DEF InitFields
  <2> QED BY <2>5, MaxRankAssumption
<1> QED BY <1>4, <1>6, <1>7, <1>8, <1>9, <1>10, <1>11, <1>12, <1>13 DEF Shape

(* The invariant holds after the initialisation.                           *)
LEMMA WholeInit == Init => WholeInv
<1> SUFFICES ASSUME Init PROVE WholeInv
  OBVIOUS
<1> USE DEF s
<1>1. PICK on, lv, at : /\ on = 0 .. 2 * NUM_LVLS - 1
                        /\ lv = [x \in Addr |-> x \div 2] /\ at = [x \in Addr |-> x % 2]
  OBVIOUS
<1>2. NUM_LVLS \in Nat /\ NUM_LVLS > 0 /\ MAX_SIZE \in Nat /\ MAX_SIZE > 3 * NUM_LVLS + 1
  BY Addresses
<1>3. on \subseteq 0 .. MAX_SIZE - 2 /\ on \cap Nodes = {} /\ Nodes \ on = Nodes
  BY <1>1, <1>2 DEF Nodes
<1>4. \A x \in on : \E l \in Lvls : x = head(l) \/ x = tail(l)
  <2>1. SUFFICES ASSUME NEW x \in on PROVE \E l \in Lvls : x = head(l) \/ x = tail(l)
    OBVIOUS
  <2>2. x \in Nat /\ x < 2 * NUM_LVLS
    BY <1>1, <1>2
  <2>3. x \div 2 \in Lvls /\ (x = 2 * (x \div 2) \/ x = 2 * (x \div 2) + 1)
    BY <1>2, <2>2 DEF Lvls
  <2> QED BY <2>3 DEF head, tail
<1>5. lv \in [Addr -> Nat] /\ at \in [Addr -> Nat]
  BY <1>1, <1>2 DEF Addr
<1>6. \A l \in Lvls : /\ head(l) \in on /\ lv[head(l)] = l /\ at[head(l)] = 0
                      /\ tail(l) \in on /\ lv[tail(l)] = l /\ at[tail(l)] = 1
  BY <1>1, InitEnds, Addresses
<1>7. mem = InitMem /\ mem \in [Addr -> Node] /\ InitFields(mem)
  BY InitMemFields DEF Init
<1>8. rmv.state = "RMV_IDLE" /\ srch = NoSearch /\ srch.state = "SRCH_IDLE" /\ ~srch.first_node
      /\ ins_state = "INS_IDLE"
  BY DEF Init, NoRemoval, NoSearch
<1>9. Torn = NULL /\ ~Lower /\ ~Upper
  BY <1>8 DEF Torn, Lower, Upper
<1>10. Shape(on, lv, at, mem, Torn)
  <2>1. Shape(on, lv, at, mem, NULL)
    BY <1>3, <1>4, <1>5, <1>6, <1>7, InitShape
  <2> QED BY <1>9, <2>1
<1>11. Books(on, lv)
  <2>1. free \subseteq Nodes /\ FreeNow = Nodes \ on
    <3>1. MAX_SIZE - 2 \in Nodes /\ MAX_SIZE - 2 # NULL
      BY <1>2 DEF Nodes, NULL
    <3>2. free = Nodes \ {MAX_SIZE - 2} /\ free_list_in = MAX_SIZE - 2 /\ get_next_node = FALSE
      BY DEF Init
    <3> QED BY <1>3, <3>1, <3>2 DEF FreeNow
  <2>2. curr_max_lvl \in Lvls /\ \A x \in on \cap Nodes : lv[x] <= curr_max_lvl
    BY <1>3, Addresses DEF Init
  <2>3. rptr_head \in [Lvls -> Addr] /\ \A l \in Lvls : rptr_head[l] = mem[head(l)].rptr
    <3>1. rptr_head = [l \in Lvls |-> tail(l)]
      BY DEF Init
    <3>2. \A l \in Lvls : tail(l) \in Addr
      BY Addresses
    <3> QED BY <1>7, <3>1, <3>2 DEF InitFields
  <2>4. mem[tail(0)].lptr = head(0)
    BY <1>7, Addresses DEF InitFields
  <2>5. sl_num_entries = 0
    BY DEF Init
  <2>6. Cardinality(Lowest(on, lv)) = 0
    BY <1>3, FS_EmptySet DEF Lowest
  <2> QED BY <1>9, <2>1, <2>2, <2>3, <2>4, <2>5, <2>6 DEF Books
<1>12. Removing(on, lv)
  BY <1>8, <1>9 DEF Removing
<1>13. Searching(on, lv, at)
  BY <1>8 DEF Searching, Seeking, Init
<1>14. ListHolds
  BY <1>10, <1>11, <1>12, <1>13 DEF ListHolds, ListInv
<1>15. Flags
  <2>1. MAX_SIZE - 2 # NULL
    BY <1>2 DEF NULL
  <2> QED BY <1>8 DEF Flags, Init
<1>16. RegisterHolds
  <2>1. REG_WIDTH \in Nat /\ 0 \in 0 .. REG_WIDTH
    BY RegWidthAssumption
  <2>2. reg = RegInit /\ pr_in = NoEntry /\ given = 0 /\ remove_last = FALSE
    BY DEF Init
  <2>3. /\ reg.slots = [i \in Slots |-> NoEntry] /\ reg.num_entries = 0
        /\ reg.insert_ltch = NoEntry /\ reg.full = FALSE /\ reg.valid_out = FALSE
    BY <2>2 DEF RegInit
  <2>4. NoEntry \in MaybeEntry
    BY DEF MaybeEntry
  <2>5. reg.slots \in [Slots -> MaybeEntry]
    BY <2>3, <2>4
  <2>6. \A i \in Slots : ~(i < 0)
    BY <2>1 DEF Slots
  <2> QED BY <2>1, <2>2, <2>3, <2>4, <2>5, <2>6 DEF RegisterHolds
<1>17. RegsTyped
  <2>1. NULL \in Addr /\ 0 \in Ranks
    BY Addresses, MaxRankAssumption DEF Ranks
  <2>2. NoSearch \in SearchRegs
    BY <1>2, <2>1 DEF NoSearch, SearchRegs, SearchStates
  <2>3. Blank \in Node
    BY <2>1 DEF Blank, Node
  <2>4. NoRemoval \in [state : RemoveStates, node : Addr, lvl : Nat]
    BY <2>1 DEF NoRemoval, RemoveStates
  <2> QED BY <2>2, <2>3, <2>4 DEF RegsTyped, Init
<1> QED BY <1>14, <1>15, <1>16, <1>17, MachinesInit DEF WholeInv

(* Every cycle keeps the invariant: three machines write, one at a time.   *)
LEMMA WholeStep ==
  ASSUME WholeInv, [Next]_vars
  PROVE  WholeInv'
<1> USE DEF s
<1>0. MachinesInv'
  BY MachinesStep DEF WholeInv
<1>1. CASE UNCHANGED vars
  <2>1. /\ UNCHANGED <<reg, pr_in, sl_in, main_state, sl_insert, sl_blk_ins_if_rmv>>
        /\ UNCHANGED <<sl_num_entries, srch, start_search, search_done, insert_done, ins_state>>
        /\ UNCHANGED <<rmv, ins_busy, rmv_busy, curr_max_lvl, rptr_head, lptr_tail, mem, dout>>
        /\ UNCHANGED <<bram_rd, bram_rd1, free, get_next_node, free_list_in, remove_last, given>>
    BY <1>1 DEF vars, port, main, machines, list, client
  <2>2. PICK on, lv, at : ListInv(on, lv, at)
    BY DEF WholeInv, ListHolds
  <2>3. Torn' = Torn /\ (Lower' <=> Lower) /\ (Upper' <=> Upper) /\ new_node' = new_node
        /\ FreeNow' = FreeNow
    BY <2>1 DEF Torn, Lower, Upper, new_node, FreeNow
  <2>4. Shape(on, lv, at, mem, Torn)'
    BY <2>1, <2>2, <2>3 DEF ListInv
  <2>5. Books(on, lv)'
    BY <2>1, <2>2, <2>3 DEF ListInv, Books
  <2>6. Removing(on, lv)'
    BY <2>1, <2>2, <2>3 DEF ListInv, Removing
  <2>7. Searching(on, lv, at)'
    BY <2>1, <2>2, <2>3 DEF ListInv, Searching
  <2>8. ListHolds'
    BY <2>4, <2>5, <2>6, <2>7 DEF ListHolds, ListInv
  <2>9. Flags'
    BY <2>1 DEF WholeInv, Flags
  <2>10. RegisterHolds' /\ RegsTyped'
    BY <2>1 DEF WholeInv, RegisterHolds, RegsTyped
  <2> QED BY <1>0, <2>8, <2>9, <2>10 DEF WholeInv
<1>2. CASE Next
  <2>1. PICK e, remove : Allowed(e, remove)
    BY <1>2, NextAllowed DEF WholeInv
  <2>2. PICK on, lv, at : ListInv(on, lv, at)
    BY DEF WholeInv, ListHolds
  <2>3. Flags /\ RegisterHolds /\ RegsTyped /\ MachinesInv /\ "state" \in DOMAIN srch
        /\ ins_state \in InsertStates
    BY DEF WholeInv, MachinesInv, StatesOK
  <2>4. RegsTyped'
    BY <2>1, <2>2, <2>3, RegsStep
  <2>5. Flags'
    BY <2>1, <2>3, FlagsStep
  <2>6. RegisterHolds'
    <3>1. ASSUME rmv.state = "RMV_DEQ_NODE"
          PROVE  dout.rank \in Ranks /\ dout.meta \in Metas
      <4>1. Removing(on, lv) /\ Shape(on, lv, at, mem, Torn)
        BY <2>2 DEF ListInv
      <4>2. dout = mem[rmv.node] /\ rmv.node \in on \cap Nodes /\ lv[rmv.node] = 0
        BY <3>1, <4>1 DEF Removing, Lower
      <4>3. mem[rmv.node].rank \in Ranks
        BY <4>1, <4>2, OnTyped
      <4>4. mem[rmv.node].meta \in Metas
        BY <4>1, <4>2 DEF Shape, Labels
      <4> QED BY <4>2, <4>3, <4>4
    <3> QED BY <2>1, <2>3, <3>1, RegisterStep
  <2>7. ListHolds'
    <3>1. CASE Unlinks
      <4>1. \E on2 : ListInv(on2, lv, at)'
        BY <2>1, <2>2, <2>3, <3>1, StepUnlink
      <4> QED BY <4>1 DEF ListHolds
    <3>2. CASE srch.state = "SRCH_CONN_NEW"
      <4>1. ListInv(on, lv, at)'
        BY <2>1, <2>2, <2>3, <3>2, StepConnNew
      <4> QED BY <4>1 DEF ListHolds
    <3>3. CASE srch.state = "SRCH_CONN_NEAR"
      <4>1. \E on2, lv2, at2 : ListInv(on2, lv2, at2)'
        BY <2>1, <2>2, <2>3, <3>3, StepConnNear
      <4> QED BY <4>1 DEF ListHolds
    <3>4. CASE ins_state = "INS_CONN_NEW" /\ search_done
      <4>1. ListInv(on, lv, at)'
        BY <2>1, <2>2, <2>3, <3>4, StepInsertNew
      <4> QED BY <4>1 DEF ListHolds
    <3>5. CASE ins_state = "INS_CONN_NEAR"
      <4>1. \E on2, lv2, at2 : ListInv(on2, lv2, at2)'
        BY <2>1, <2>2, <2>3, <3>5, StepInsertNear
      <4> QED BY <4>1 DEF ListHolds
    <3>6. CASE /\ ~Unlinks /\ ins_state # "INS_CONN_NEAR"
               /\ srch.state \notin {"SRCH_CONN_NEW", "SRCH_CONN_NEAR"}
               /\ ~(ins_state = "INS_CONN_NEW" /\ search_done)
      <4>1. ListInv(on, lv, at)'
        BY <2>1, <2>2, <2>3, <3>6, StepQuiet
      <4> QED BY <4>1 DEF ListHolds
    <3> QED BY <3>1, <3>2, <3>3, <3>4, <3>5, <3>6
  <2> QED BY <1>0, <2>4, <2>5, <2>6, <2>7 DEF WholeInv
<1> QED BY <1>1, <1>2

(* Whenever the machines of det_skip_list.v rest, every level runs from    *)
(* its head to its tail with both pointers agreeing, in the order of the   *)
(* ranks, every node above another is linked with it, and what is not      *)
(* linked is in the free list; the counter and the copied pointers are     *)
(* right, and nothing is above the level where searches start.             *)
THEOREM ListStaysSound == Spec => []ListSound
<1>1. Init => WholeInv
  BY WholeInit
<1>2. WholeInv /\ [Next]_vars => WholeInv'
  BY WholeStep
<1>3. WholeInv => ListSound
  BY InvSound DEF WholeInv, ListHolds
<1> QED BY <1>1, <1>2, <1>3, PTL DEF Spec

(* Whenever the machines rest, no more than MAX_CONS_NODES nodes in a row  *)
(* have nothing on them: the nodes that SRCH_CONN_NEAR promotes on the way *)
(* of an insert are enough, while removes take away nodes at the end.      *)
THEOREM ListStaysDeterministic == Spec => []GapsBounded
<1>1. Init => WholeInv
  BY WholeInit
<1>2. WholeInv /\ [Next]_vars => WholeInv'
  BY WholeStep
<1>3. WholeInv => GapsBounded
  BY InvGaps DEF WholeInv, ListHolds
<1> QED BY <1>1, <1>2, <1>3, PTL DEF Spec

-----------------------------------------------------------------------------
(* What pifo_top.v sees: the places an entry can be in.                    *)

(* The entries wait in four places: in the register, on their way to it,   *)
(* on their way to a node, and in the nodes.                               *)
InReg == Held(reg)

(* On the register's port.                                                 *)
ToReg == {pr_in} \ {NoEntry}

(* The register is full and takes a smaller entry: its maximum is to go to *)
(* the list.                                                               *)
Passing == sl_insert /\ sl_blk_ins_if_rmv

(* Taken by the main machine for the list, and not in a node yet.          *)
ToNode ==
  IF main_state = "INSERT" /\ ins_state # "INS_CONN_NEAR" /\ ~Passing THEN {sl_in} ELSE {}

(* The nodes that carry an entry.                                          *)
Carried == {x \in Nodes : mem[x].meta # NoMeta}

(* The entry in node x.                                                    *)
EntryOf(x) == [rank |-> mem[x].rank, meta |-> mem[x].meta]

(* What the list holds, wherever it is.                                    *)
AllHeld == InReg \cup ToReg \cup ToNode \cup ListEntries

(* No entry is in two places.                                              *)
Apart ==
  /\ InReg \cap ToReg = {} /\ InReg \cap ToNode = {} /\ InReg \cap ListEntries = {}
  /\ ToReg \cap ToNode = {} /\ ToReg \cap ListEntries = {} /\ ToNode \cap ListEntries = {}

(* Every entry has a number of its own.                                    *)
AllNumbered ==
  /\ AllHeld \subseteq Entry /\ inside \subseteq Entry
  /\ given \in 0 .. Cardinality(Metas)
  /\ \A x \in AllHeld \cup inside : x.meta <= given
  /\ \A x, y \in AllHeld : x.meta = y.meta => x = y

(* 1 for what is so, 0 for what is not.                                    *)
One(p) == IF p THEN 1 ELSE 0

(* sl_num_entries counts the nodes that carry an entry, but for one that   *)
(* is being linked or unlinked; no entry is in two nodes.                  *)
CarriedOK ==
  /\ Cardinality(Carried) = sl_num_entries + One(Lower) + One(ins_state = "INS_CONN_NEAR")
  /\ \A x, y \in Carried : EntryOf(x) = EntryOf(y) => x = y

(* The register holds the smallest ranks, and what is on its way to it is  *)
(* not larger than what stays in the nodes.                                *)
Ordered ==
  /\ \A a \in InReg : \A d \in ToNode \cup ListEntries : a.rank <= d.rank
  /\ \A b \in ToReg : \A d \in ListEntries : b.rank <= d.rank
  /\ ~insert_d1 => \A a \in InReg : \A b \in ToReg : a.rank <= b.rank

(* How the flags of the ports go with what is under way: what moves keeps  *)
(* the list busy, and two things never move at once.                       *)
PortFlags ==
  /\ insert_d1 \in BOOLEAN /\ pr_insert_d1 \in BOOLEAN
  /\ pr_in # NoEntry =>
       /\ reg.insert_ltch = NoEntry /\ (reg.calc_min_max => remove_last)
       /\ insert_d1 \/ rmv_busy
       /\ main_state = "INSERT" \/ reg.num_entries = REG_WIDTH => Passing
  /\ reg.insert_ltch # NoEntry =>
       /\ pr_in = NoEntry /\ remove_last /\ pr_insert_d1 /\ main_state = "RUN"
       /\ reg.num_entries < REG_WIDTH /\ ~reg.valid_out
  /\ sl_insert => insert_d1
  /\ Passing => /\ pr_in # NoEntry /\ reg.num_entries = REG_WIDTH /\ sl_in = MaxOut(reg)
                /\ pr_in.rank < sl_in.rank
  /\ rmv.state \in {"RMV_CHK_BUSY", "RMV_WAIT_MEM_RD1", "RMV_DEQ_NODE"} =>
       /\ pr_in = NoEntry /\ ~pr_insert_d1 /\ reg.insert_ltch = NoEntry /\ ~reg.full
       /\ main_state = "RUN"
  /\ main_state = "RUN" => sl_in = NoEntry

(* How the flags of the register go with what it and the nodes hold: it is *)
(* empty only when the nodes are.                                          *)
RegFlags ==
  /\ reg.valid_out => reg.num_entries > 0
  /\ reg.valid_out /\ reg.calc_min_max /\ ~remove_last => reg.num_entries >= 2
  /\ reg.num_entries = REG_WIDTH => reg.full
  /\ reg.empty => reg.num_entries = 0
  /\ reg.num_entries = 0 /\ ~reg.empty => sl_num_entries = 0 /\ main_state = "RUN"
  /\ sl_num_entries = 0 => pr_fill_thresh = 0 \/ rmv.state = "RMV_WAIT_MEM_RD1"

(* In none of the last k cycles did the list say it was available.         *)
Unavailable(k) == \A i \in 1 .. SEL_LATENCY : i <= k => ~was_available[i]

(* A list that has just said it was available has room: an insert that     *)
(* uses up the last nodes keeps the list busy for longer than the choice   *)
(* of a list may be old.                                                   *)
Lately ==
  /\ was_available \in [1 .. SEL_LATENCY -> BOOLEAN]
  /\ srch.state # "SRCH_IDLE" => Unavailable(1)
  /\ srch.state = "GO_DOWN" => Unavailable(2)
  /\ search_done => Unavailable(3)
  /\ ins_state = "INS_CONN_NEAR" => Unavailable(4)
  /\ get_next_node /\ ins_state = "INS_IDLE" => Unavailable(5)
  /\ full \/ free_nodes_avail \/ ins_busy \/ Unavailable(SEL_LATENCY)

(* The invariant of what pifo_top.v sees.                                  *)
PortInv ==
  /\ SlotsOK(reg) /\ Apart /\ AllNumbered /\ CarriedOK /\ Ordered
  /\ PortFlags /\ RegFlags /\ Lately

(* Entries move between four sets: from the fourth to the second, from     *)
(* there to the first, from the first to the third and from there to the   *)
(* fourth.                                                                 *)
LEMMA Flow ==
  ASSUME NEW A, NEW B, NEW C, NEW D, NEW A1, NEW B1, NEW C1, NEW D1,
         NEW Out, NEW Mx, NEW Up, NEW Dq, NEW E1, NEW E2,
         A \cap B = {}, A \cap C = {}, A \cap D = {}, B \cap C = {}, B \cap D = {}, C \cap D = {},
         Out \subseteq A, Mx \subseteq A, Up \subseteq C, Dq \subseteq D, Out \cap Mx = {},
         (E1 \cup E2) \cap (A \cup B \cup C \cup D) = {}, E1 \cap E2 = {},
         A1 = (A \ (Out \cup Mx)) \cup B, B1 = Dq \cup E1,
         C1 = ((C \cup Mx) \ Up) \cup E2, D1 = (D \ Dq) \cup Up
  PROVE  /\ A1 \cap B1 = {} /\ A1 \cap C1 = {} /\ A1 \cap D1 = {}
         /\ B1 \cap C1 = {} /\ B1 \cap D1 = {} /\ C1 \cap D1 = {}
         /\ A1 \cup B1 \cup C1 \cup D1 = ((A \cup B \cup C \cup D) \ Out) \cup (E1 \cup E2)
<1>1. A1 \cap B1 = {}
  OBVIOUS
<1>2. A1 \cap C1 = {}
  OBVIOUS
<1>3. A1 \cap D1 = {}
  OBVIOUS
<1>4. B1 \cap C1 = {}
  OBVIOUS
<1>5. B1 \cap D1 = {}
  OBVIOUS
<1>6. C1 \cap D1 = {}
  OBVIOUS
<1>7. A1 \cup B1 \cup C1 \cup D1 = ((A \cup B \cup C \cup D) \ Out) \cup (E1 \cup E2)
  OBVIOUS
<1> QED BY <1>1, <1>2, <1>3, <1>4, <1>5, <1>6, <1>7

(* Four sets apart from each other. *)
LEMMA FourApart ==
  ASSUME NEW A, NEW B, NEW C, NEW D,
         IsFiniteSet(A), IsFiniteSet(B), IsFiniteSet(C), IsFiniteSet(D),
         A \cap B = {}, A \cap C = {}, A \cap D = {}, B \cap C = {}, B \cap D = {}, C \cap D = {}
  PROVE  /\ IsFiniteSet(A \cup B \cup C \cup D)
         /\ Cardinality(A \cup B \cup C \cup D)
              = Cardinality(A) + Cardinality(B) + Cardinality(C) + Cardinality(D)
<1>0. Cardinality({}) = 0
  BY FS_EmptySet
<1>1. IsFiniteSet(A \cup B) /\ Cardinality(A \cup B) = Cardinality(A) + Cardinality(B) - 0
  BY <1>0, FS_Union
<1>2. (A \cup B) \cap C = {}
  OBVIOUS
<1>3. /\ IsFiniteSet((A \cup B) \cup C)
      /\ Cardinality((A \cup B) \cup C) = Cardinality(A \cup B) + Cardinality(C) - 0
  BY <1>0, <1>1, <1>2, FS_Union
<1>4. ((A \cup B) \cup C) \cap D = {}
  OBVIOUS
<1>5. /\ IsFiniteSet(((A \cup B) \cup C) \cup D)
      /\ Cardinality(((A \cup B) \cup C) \cup D) = Cardinality((A \cup B) \cup C) + Cardinality(D) - 0
  BY <1>0, <1>3, <1>4, FS_Union
<1>6. /\ Cardinality(A) \in Nat /\ Cardinality(B) \in Nat /\ Cardinality(C) \in Nat
      /\ Cardinality(D) \in Nat
  BY FS_CardinalityType
<1> QED BY <1>1, <1>3, <1>5, <1>6

(* What a function that tells its arguments apart makes of a set. *)
LEMMA SameNumber ==
  ASSUME NEW S, IsFiniteSet(S), NEW f, f \in [S -> {f[x] : x \in S}],
         \A x, y \in S : f[x] = f[y] => x = y
  PROVE  IsFiniteSet({f[x] : x \in S}) /\ Cardinality({f[x] : x \in S}) = Cardinality(S)
<1>1. f \in Bijection(S, {f[x] : x \in S})
  BY DEF Bijection, Injection, IsInjective, Surjection
<1> QED BY <1>1, FS_Bijection DEF ExistsBijection

-----------------------------------------------------------------------------
(* What a cycle does to the nodes, the register and the ports.             *)

(* Carried nodes are the lowest ones and one that is about to be linked. *)
LEMMA WhatIsCarried ==
  ASSUME NEW on, NEW lv, NEW at, ListInv(on, lv, at), Flags, MachinesInv, CarriedOK
  PROVE  /\ Carried = Lowest(on, lv) \cup (IF ins_state = "INS_CONN_NEAR" THEN {new_node} ELSE {})
         /\ IsFiniteSet(Carried) /\ sl_num_entries \in Nat
         /\ ins_state = "INS_CONN_NEAR" =>
              /\ new_node \in Nodes /\ new_node \notin on /\ ~Lower
              /\ EntryOf(new_node) = [rank |-> sl_in.rank, meta |-> sl_in.meta]
<1> DEFINE N == IF ins_state = "INS_CONN_NEAR" THEN {new_node} ELSE {}
<1>1. /\ Shape(on, lv, at, mem, Torn) /\ Books(on, lv) /\ Searching(on, lv, at)
      /\ sl_num_entries \in Nat
      /\ Cardinality(Lowest(on, lv)) = sl_num_entries + One(Lower)
  BY DEF ListInv, Books, One
<1>2. NoMeta \notin Metas
  BY MetasAssumption DEF NoMeta
<1>3. Lowest(on, lv) \subseteq Carried
  BY <1>1, <1>2 DEF Lowest, Shape, Labels, Carried
<1>4. ASSUME ins_state = "INS_CONN_NEAR"
      PROVE  /\ new_node \in Nodes /\ new_node \notin on /\ ~Lower
             /\ EntryOf(new_node) = [rank |-> sl_in.rank, meta |-> sl_in.meta]
             /\ new_node \in Carried
  <2>1. srch.state = "SRCH_IDLE" /\ ~start_search /\ ~get_next_node /\ ~Lower /\ free_list_in = NULL
    BY <1>4 DEF MachinesInv, SearchWithinInsert, OneAtATime, Flags, Lower
  <2>2. Found(on, lv, mem, srch, sl_in.rank, curr_max_lvl, -1)
        /\ mem[new_node].rank = sl_in.rank /\ mem[new_node].meta = sl_in.meta
    BY <1>1, <1>4, <2>1 DEF Searching, s
  <2>3. Room(on, -1 + 2)
    BY <2>2 DEF Found
  <2>4. new_node \in Nodes /\ new_node \notin on
    BY <1>1, <2>1, <2>3, NewNode
  <2>5. sl_in.meta \in Metas
    BY <1>4 DEF Flags, Entry
  <2> QED BY <2>1, <2>2, <2>4, <2>5, <1>2 DEF EntryOf, Carried
<1>5. IsFiniteSet(Nodes)
  BY FS_Interval, Addresses DEF Nodes
<1>6. IsFiniteSet(Carried) /\ IsFiniteSet(Lowest(on, lv))
  BY <1>5, FS_Subset DEF Carried, Lowest
<1>7. Lowest(on, lv) \cup N \subseteq Carried
  BY <1>3, <1>4
<1>8. Cardinality(Lowest(on, lv) \cup N) = Cardinality(Lowest(on, lv)) + One(ins_state = "INS_CONN_NEAR")
  <2>1. CASE ins_state = "INS_CONN_NEAR"
    <3>1. new_node \notin Lowest(on, lv)
      BY <1>4, <2>1 DEF Lowest
    <3> QED BY <3>1, <2>1, <1>6, FS_AddElement DEF One
  <2>2. CASE ins_state # "INS_CONN_NEAR"
    <3>1. Lowest(on, lv) \cup N = Lowest(on, lv) /\ Cardinality(Lowest(on, lv)) \in Nat
      BY <2>2, <1>6, FS_CardinalityType
    <3> QED BY <3>1, <2>2 DEF One
  <2> QED BY <2>1, <2>2
<1>9. Lowest(on, lv) \cup N = Carried
  <2>1. Cardinality(Carried) = Cardinality(Lowest(on, lv) \cup N)
    BY <1>1, <1>8 DEF CarriedOK
  <2> QED BY <2>1, <1>6, <1>7, FS_Subset
<1> QED BY <1>1, <1>4, <1>6, <1>9

(* The new node is filled in.                                              *)
Fills == ins_state = "INS_CONN_NEW" /\ search_done

(* The last node is emptied.                                               *)
Drops == rmv.state = "RMV_DEQ_NODE"

(* Node x carries on with what it carries.                                 *)
Same(x) == mem'[x].rank = mem[x].rank /\ mem'[x].meta = mem[x].meta

(* What a cycle does to the ranks and meta data of the nodes. *)
LEMMA MemFlow ==
  ASSUME NEW on, NEW lv, NEW at, ListInv(on, lv, at), Flags, MachinesInv, CarriedOK,
         NEW e, NEW remove, Allowed(e, remove)
  PROVE  /\ Unlinks => /\ rmv.node \in Nodes /\ rmv.node \in on /\ mem'[rmv.node] = Blank /\ ~Fills
                       /\ ins_state = "INS_IDLE" /\ dout = mem[rmv.node]
                       /\ \A x \in Nodes \ {rmv.node} : Same(x)
         /\ Fills => /\ new_node \in Nodes /\ new_node \notin on /\ ~Lower
                     /\ mem'[new_node].rank = sl_in.rank /\ mem'[new_node].meta = sl_in.meta
                     /\ \A x \in Nodes \ {new_node} : Same(x)
         /\ ~Unlinks /\ ~Fills => /\ \A x \in Nodes : mem'[x].meta = mem[x].meta
                                  /\ \A x \in Carried : Same(x)
<1> USE DEF s
<1>1. /\ Shape(on, lv, at, mem, Torn) /\ Books(on, lv) /\ Searching(on, lv, at)
      /\ Removing(on, lv) /\ List
      /\ mem' = RemoveWrites(InsertWrites(SearchWrites(mem)))
      /\ mem \in [Addr -> Node] /\ Nodes \subseteq Addr
  BY CycleParts, Addresses DEF ListInv, Shape, Typed, List
<1>2. \A x \in Nodes : mem[x] \in Node
  BY <1>1
<1>3. CASE Unlinks
  <2>1. srch.state = "SRCH_IDLE" /\ ins_state = "INS_IDLE"
    BY <1>3 DEF MachinesInv, OneAtATime, Unlinks
  <2>2. SearchWrites(mem) = mem /\ InsertWrites(mem) = mem
    BY <2>1 DEF SearchWrites, InsertWrites
  <2>3. mem' = [mem EXCEPT ![dout.lptr].rptr = tail(rmv.lvl), ![tail(rmv.lvl)].lptr = dout.lptr,
                           ![rmv.node] = Blank]
    BY <1>1, <1>3, <2>2 DEF RemoveWrites
  <2>4. rmv.node \in on \cap Nodes /\ dout = mem[rmv.node]
    BY <1>1, <1>3 DEF Removing, Unlinks, Upper, Lower
  <2>5. mem'[rmv.node] = Blank
    BY <1>1, <2>3, <2>4
  <2>6. ASSUME NEW x \in Nodes \ {rmv.node} PROVE Same(x)
    BY <1>1, <1>2, <2>3, <2>6 DEF Same, Node
  <2> QED BY <1>3, <2>1, <2>4, <2>5, <2>6 DEF Fills
<1>4. CASE Fills
  <2>1. srch.state = "SRCH_IDLE" /\ ~start_search /\ ~get_next_node /\ ~Lower /\ free_list_in = NULL
        /\ ~Unlinks
    BY <1>4 DEF MachinesInv, SearchWithinInsert, OneAtATime, Flags, Lower, Fills, Unlinks
  <2>2. SearchWrites(mem) = mem
    BY <2>1 DEF SearchWrites
  <2>3. mem' = [mem EXCEPT ![new_node] = [@ EXCEPT !.rank = sl_in.rank, !.meta = sl_in.meta,
                                                   !.rptr = srch.dR, !.lptr = srch.d, !.uptr = NULL]]
    BY <1>1, <1>4, <2>1, <2>2 DEF RemoveWrites, InsertWrites, Fills
  <2>4. Found(on, lv, mem, srch, sl_in.rank, curr_max_lvl, -1)
    BY <1>1, <1>4, <2>1 DEF Searching, Fills
  <2>5. Room(on, -1 + 2)
    BY <2>4 DEF Found
  <2>6. new_node \in Nodes /\ new_node \notin on
    BY <1>1, <2>1, <2>5, NewNode
  <2>7. mem'[new_node].rank = sl_in.rank /\ mem'[new_node].meta = sl_in.meta
    BY <1>1, <1>2, <2>3, <2>6 DEF Node
  <2>8. ASSUME NEW x \in Nodes \ {new_node} PROVE Same(x)
    BY <1>1, <2>3, <2>8 DEF Same
  <2> QED BY <1>4, <2>1, <2>6, <2>7, <2>8
<1>5. CASE ~Unlinks /\ ~Fills
  <2>1. mem' = InsertWrites(SearchWrites(mem))
    BY <1>1, <1>5 DEF RemoveWrites
  <2>2. CASE srch.state = "SRCH_CONN_NEW"
    <3>1. ins_state = "INS_CONN_NEW" /\ ~get_next_node /\ free_list_in = NULL
      BY <2>2 DEF MachinesInv, SearchWithinInsert, Flags
    <3>2. Third(on, lv, at, mem, srch, sl_in.rank, curr_max_lvl)
      BY <1>1, <2>2 DEF Searching, Seeking
    <3>3. Room(on, srch.level + 2) /\ srch.level + 2 \in Nat /\ srch.level + 2 > 0
      <4>1. curr_max_lvl \in Nat /\ srch.level \in 0 .. curr_max_lvl
        BY <1>1, <3>2, Addresses DEF Books, Third
      <4> QED BY <3>2, <4>1 DEF Third
    <3>4. new_node \notin on
      BY <1>1, <3>1, <3>3, NewNode
    <3>5. \A x \in Carried : x # new_node
      BY <3>1, <3>4, WhatIsCarried DEF Lowest
    <3>6. mem' = [mem EXCEPT ![new_node] = [@ EXCEPT !.rank = srch.lVal, !.rptr = dout.rptr,
                                                !.lptr = srch.u, !.uptr = NULL, !.dptr = srch.l]]
      BY <1>5, <2>1, <2>2, <3>1 DEF SearchWrites, InsertWrites, Fills
    <3> QED BY <1>1, <1>2, <1>5, <3>5, <3>6 DEF Same, Node, Carried
  <2>3. CASE srch.state = "SRCH_CONN_NEAR"
    <3>1. ins_state = "INS_CONN_NEW"
      BY <2>3 DEF MachinesInv, SearchWithinInsert
    <3>2. mem' = [mem EXCEPT ![srch.uR].lptr = new_node, ![srch.u].rptr = new_node,
                             ![srch.l].uptr = new_node]
      BY <1>5, <2>1, <2>3, <3>1 DEF SearchWrites, InsertWrites, Fills
    <3>3. ASSUME NEW x \in Nodes PROVE Same(x)
      <4>1. PICK m1, m2 : /\ m1 = [mem EXCEPT ![srch.uR].lptr = new_node]
                          /\ m2 = [m1 EXCEPT ![srch.u].rptr = new_node]
        OBVIOUS
      <4>2. mem' = [m2 EXCEPT ![srch.l].uptr = new_node]
        BY <3>2, <4>1
      <4>3. x \in Addr /\ x \in DOMAIN m1 /\ x \in DOMAIN m2 /\ x \in DOMAIN mem
        BY <1>1, <4>1
      <4>4. mem[x].rank = m1[x].rank /\ mem[x].meta = m1[x].meta /\ {"rank", "meta"} \subseteq DOMAIN m1[x]
        BY <1>2, <4>1, <4>3 DEF Node
      <4>5. m2[x].rank = m1[x].rank /\ m2[x].meta = m1[x].meta /\ {"rank", "meta"} \subseteq DOMAIN m2[x]
        BY <4>1, <4>3, <4>4
      <4>6. mem'[x].rank = m2[x].rank /\ mem'[x].meta = m2[x].meta
        BY <4>2, <4>3, <4>5
      <4> QED BY <4>4, <4>5, <4>6 DEF Same
    <3> QED BY <1>5, <3>3 DEF Same, Carried
  <2>4. CASE srch.state \notin {"SRCH_CONN_NEW", "SRCH_CONN_NEAR"}
    <3>1. mem' = InsertWrites(mem)
      BY <2>1, <2>4 DEF SearchWrites
    <3>2. mem' = mem \/ mem' = [mem EXCEPT ![srch.dR].lptr = new_node, ![srch.d].rptr = new_node]
      BY <1>5, <3>1 DEF InsertWrites, Fills
    <3>3. CASE mem' = mem
      BY <1>5, <3>3 DEF Same, Carried
    <3>4. CASE mem' = [mem EXCEPT ![srch.dR].lptr = new_node, ![srch.d].rptr = new_node]
      <4>1. \A x \in Nodes : Same(x)
        BY <1>1, <1>2, <3>4 DEF Same, Node
      <4> QED BY <1>5, <4>1 DEF Same, Carried
    <3> QED BY <3>2, <3>3, <3>4
  <2> QED BY <2>2, <2>3, <2>4
<1> QED BY <1>3, <1>4, <1>5

(* The entries in the nodes.                                               *)
LEMMA EntriesListed == ListEntries = {EntryOf(x) : x \in Carried}
BY DEF ListEntries, EntryOf, Carried

(* What leaves the nodes in this cycle.                                    *)
Leaving == IF Drops THEN {[rank |-> dout.rank, meta |-> dout.meta]} ELSE {}

(* What comes to them.                                                     *)
Coming == IF Fills THEN {sl_in} ELSE {}

(* What a cycle does to the entries in the list, and to their count.       *)
LEMMA ListFlow ==
  ASSUME NEW on, NEW lv, NEW at, ListInv(on, lv, at), Flags, MachinesInv, CarriedOK,
         NEW e, NEW remove, Allowed(e, remove),
         Fills => sl_in \notin ListEntries
  PROVE  /\ CarriedOK'
         /\ Leaving \subseteq ListEntries
         /\ ListEntries' = (ListEntries \ Leaving) \cup Coming
<1> USE DEF s
<1>1. /\ Carried = Lowest(on, lv) \cup (IF ins_state = "INS_CONN_NEAR" THEN {new_node} ELSE {})
      /\ IsFiniteSet(Carried) /\ sl_num_entries \in Nat
  BY WhatIsCarried
<1>2. /\ \A x, y \in Carried : EntryOf(x) = EntryOf(y) => x = y
      /\ Cardinality(Carried) = sl_num_entries + One(Lower) + One(ins_state = "INS_CONN_NEAR")
  BY DEF CarriedOK
<1>3. /\ RemoveNode(e) /\ Count(e) /\ Insert_(remove) /\ rmv.state \in RemoveStates
      /\ ins_state \in InsertStates
      /\ insert_done <=> ins_state = "INS_CONN_NEAR"
      /\ main_state = "INSERT" <=> sl_insert \/ ins_state # "INS_IDLE"
  BY CycleParts DEF MachinesInv, StatesOK, Flags
<1>4. ins_state' = "INS_CONN_NEAR" <=> Fills
  BY <1>3 DEF Insert_, Fills, InsertStates
<1>5. ins_state # "INS_IDLE" => ~Lower /\ ~Moves(e) /\ ~Unlinks /\ rmv'.state = "RMV_IDLE" /\ ~Lower'
  BY WhileInserting
<1>6. sl_num_entries' = sl_num_entries + One(ins_state = "INS_CONN_NEAR") - One(Moves(e))
  <2>1. (main_state = "INSERT" /\ insert_done) <=> ins_state = "INS_CONN_NEAR"
    BY <1>3
  <2> QED BY <2>1, <1>3 DEF Count, One
<1>7. Lower' <=> (Moves(e) \/ rmv.state = "RMV_WAIT_MEM_RD1")
  <2>1. rmv.state = "RMV_IDLE" => rmv'.state \in {"RMV_IDLE", "RMV_CHK_BUSY"}
    BY <1>3 DEF RemoveNode, MachinesInv, StatesOK
  <2>2. rmv.state = "RMV_CHK_BUSY" =>
          rmv'.state = IF Moves(e) THEN "RMV_WAIT_MEM_RD1" ELSE "RMV_IDLE"
    BY <1>3 DEF RemoveNode, NoRemoval
  <2>3. rmv.state = "RMV_WAIT_MEM_RD1" => rmv'.state \in {"RMV_WAIT_MEM_RD1", "RMV_DEQ_NODE"}
    BY <1>3 DEF RemoveNode, MachinesInv, StatesOK
  <2>4. rmv.state = "RMV_WAIT_MEM_RD2" => rmv'.state \in {"RMV_WAIT_MEM_RD2", "RMV_CONN_LEFT_TAIL"}
    BY <1>3 DEF RemoveNode, MachinesInv, StatesOK
  <2>5. rmv.state \in {"RMV_DEQ_NODE", "RMV_CONN_LEFT_TAIL"} =>
          rmv'.state \in {"RMV_IDLE", "RMV_WAIT_MEM_RD2"}
    BY <1>3 DEF RemoveNode, NextUp, NoRemoval
  <2>6. Moves(e) => rmv.state = "RMV_CHK_BUSY"
    BY DEF Moves
  <2> QED BY <1>3, <2>1, <2>2, <2>3, <2>4, <2>5, <2>6 DEF Lower, RemoveStates
<1>8. Drops => Unlinks /\ Lower /\ rmv.node \in Carried
  <2>1. SUFFICES ASSUME Drops PROVE Unlinks /\ Lower /\ rmv.node \in Carried
    OBVIOUS
  <2>2. Removing(on, lv) /\ Unlinks /\ Lower
    BY <2>1 DEF ListInv, Drops, Unlinks, Lower
  <2>3. rmv.node \in Lowest(on, lv)
    BY <2>2 DEF Removing, Lowest
  <2> QED BY <2>2, <2>3, <1>1
<1>9. CASE Drops
  <2>1. /\ rmv.node \in Nodes /\ mem'[rmv.node] = Blank /\ ~Fills /\ ins_state = "INS_IDLE"
        /\ dout = mem[rmv.node]
        /\ \A x \in Nodes \ {rmv.node} : Same(x)
    BY <1>8, <1>9, MemFlow
  <2>2. Carried' = Carried \ {rmv.node}
    BY <2>1 DEF Carried, Same, Blank
  <2>3. \A x \in Carried' : EntryOf(x)' = EntryOf(x)
    BY <2>1, <2>2 DEF EntryOf, Same, Carried
  <2>4. EntryOf(rmv.node) = [rank |-> dout.rank, meta |-> dout.meta] /\ Leaving = {EntryOf(rmv.node)}
    BY <2>1, <1>9 DEF EntryOf, Leaving
  <2>5. ListEntries' = ListEntries \ {EntryOf(rmv.node)}
    <3>1. ListEntries' = {EntryOf(x) : x \in Carried'}
      <4>1. ListEntries' = {EntryOf(x)' : x \in Carried'}
        BY DEF ListEntries, EntryOf, Carried
      <4> QED BY <4>1, <2>3
    <3> QED BY <3>1, <2>2, <1>2, <1>8, <1>9, EntriesListed
  <2>6. Cardinality(Carried') = Cardinality(Carried) - 1
    BY <1>1, <1>8, <1>9, <2>2, FS_RemoveElement
  <2>7. ~Moves(e) /\ ~Lower' /\ Lower
    BY <1>7, <1>8, <1>9 DEF Moves, Drops
  <2>8. Cardinality(Carried') = sl_num_entries' + One(Lower') + One(ins_state' = "INS_CONN_NEAR")
    BY <1>1, <1>2, <1>4, <1>6, <2>1, <2>6, <2>7 DEF One
  <2>9. CarriedOK'
    <3>1. \A x, y \in Carried' : EntryOf(x)' = EntryOf(y)' => x = y
      BY <1>2, <2>2, <2>3
    <3> QED BY <3>1, <2>8 DEF CarriedOK, EntryOf, One
  <2>10. Leaving \subseteq ListEntries
    BY <2>4, <1>8, <1>9, EntriesListed
  <2> QED BY <2>1, <2>4, <2>5, <2>9, <2>10 DEF Coming
<1>10. CASE Fills
  <2>1. /\ new_node \in Nodes /\ new_node \notin on /\ ~Lower
        /\ mem'[new_node].rank = sl_in.rank /\ mem'[new_node].meta = sl_in.meta
        /\ \A x \in Nodes \ {new_node} : Same(x)
    BY <1>10, MemFlow
  <2>2. sl_in \in Entry /\ sl_in.meta # NoMeta /\ ~Drops /\ ins_state = "INS_CONN_NEW"
    <3>1. sl_in \in Entry /\ ins_state = "INS_CONN_NEW"
      BY <1>3, <1>10 DEF Flags, Fills
    <3> QED BY <3>1, <2>1, MetasAssumption DEF NoMeta, Entry, Drops, Lower
  <2>3. PICK w : w = new_node
    OBVIOUS
  <2>4. w \notin Carried
    BY <1>1, <2>1, <2>2, <2>3 DEF Lowest
  <2>5. Carried' = Carried \cup {w}
    BY <2>1, <2>2, <2>3 DEF Carried, Same
  <2>6. \A x \in Carried : EntryOf(x)' = EntryOf(x)
    BY <2>1, <2>3, <2>4 DEF EntryOf, Same, Carried
  <2>7. [rank |-> mem'[w].rank, meta |-> mem'[w].meta] = sl_in
    BY <2>1, <2>2, <2>3 DEF Entry
  <2>8. ListEntries' = ListEntries \cup {sl_in}
    <3>1. ListEntries' = {[rank |-> mem'[x].rank, meta |-> mem'[x].meta] : x \in Carried'}
      BY DEF ListEntries, Carried
    <3>2. \A x \in Carried : [rank |-> mem'[x].rank, meta |-> mem'[x].meta] = EntryOf(x)
      BY <2>6 DEF EntryOf
    <3> QED BY <3>1, <3>2, <2>5, <2>7, EntriesListed
  <2>9. Cardinality(Carried') = Cardinality(Carried) + 1
    BY <1>1, <2>4, <2>5, FS_AddElement
  <2>10. ~Moves(e) /\ ~Lower' /\ ~Lower
    BY <1>5, <2>2
  <2>11. Cardinality(Carried') = sl_num_entries' + One(Lower') + One(ins_state' = "INS_CONN_NEAR")
    BY <1>1, <1>2, <1>4, <1>6, <1>10, <2>2, <2>9, <2>10 DEF One
  <2>12. \A x, y \in Carried' : EntryOf(x)' = EntryOf(y)' => x = y
    <3>1. \A x \in Carried : EntryOf(x)' # sl_in
      BY <2>6, <1>10, EntriesListed
    <3>2. EntryOf(w)' = sl_in
      BY <2>7 DEF EntryOf
    <3> QED BY <1>2, <2>5, <2>6, <3>1, <3>2
  <2>13. CarriedOK'
    BY <2>11, <2>12 DEF CarriedOK, EntryOf, One
  <2> QED BY <1>10, <2>2, <2>8, <2>13 DEF Leaving, Coming
<1>11. CASE ~Drops /\ ~Fills
  <2>1. /\ Carried' = Carried /\ \A x \in Carried : Same(x)
    <3>1. CASE Unlinks
      <4>1. /\ rmv.node \in Nodes /\ mem'[rmv.node] = Blank /\ ins_state = "INS_IDLE"
            /\ \A x \in Nodes \ {rmv.node} : Same(x)
        BY <3>1, MemFlow
      <4>2. Removing(on, lv) /\ Upper
        BY <3>1, <1>11 DEF ListInv, Unlinks, Drops, Upper
      <4>3. rmv.node \notin Lowest(on, lv)
        <5>1. lv[rmv.node] # 0
          BY <4>2 DEF Removing
        <5> QED BY <5>1 DEF Lowest
      <4>4. rmv.node \notin Carried
        BY <4>1, <4>3, <1>1
      <4> QED BY <4>1, <4>4 DEF Carried, Same, Blank
    <3>2. CASE ~Unlinks
      BY <3>2, <1>11, MemFlow DEF Carried
    <3> QED BY <3>1, <3>2
  <2>2. \A x \in Carried : EntryOf(x)' = EntryOf(x)
    BY <2>1 DEF EntryOf, Same
  <2>3. ListEntries' = ListEntries
    <3>1. ListEntries' = {[rank |-> mem'[x].rank, meta |-> mem'[x].meta] : x \in Carried'}
      BY DEF ListEntries, Carried
    <3>2. \A x \in Carried : [rank |-> mem'[x].rank, meta |-> mem'[x].meta] = EntryOf(x)
      BY <2>2 DEF EntryOf
    <3> QED BY <3>1, <3>2, <2>1, EntriesListed
  <2>4. One(Lower') = One(Lower) + One(Moves(e))
    <3>1. Lower <=> rmv.state = "RMV_WAIT_MEM_RD1"
      BY <1>11 DEF Lower, Drops
    <3>2. ~(Moves(e) /\ Lower)
      BY DEF Moves, Lower
    <3> QED BY <1>7, <3>1, <3>2 DEF One
  <2>5. Cardinality(Carried') = sl_num_entries' + One(Lower') + One(ins_state' = "INS_CONN_NEAR")
    <3>1. One(Lower) \in Nat /\ One(Moves(e)) \in Nat /\ One(ins_state = "INS_CONN_NEAR") \in Nat
          /\ One(ins_state' = "INS_CONN_NEAR") = 0
      BY <1>4, <1>11 DEF One
    <3> QED BY <1>1, <1>2, <1>6, <2>1, <2>4, <3>1
  <2>6. CarriedOK'
    <3>1. \A x, y \in Carried' : EntryOf(x)' = EntryOf(y)' => x = y
      BY <1>2, <2>1, <2>2
    <3> QED BY <3>1, <2>5 DEF CarriedOK, EntryOf, One
  <2> QED BY <1>11, <2>3, <2>6 DEF Leaving, Coming
<1> QED BY <1>9, <1>10, <1>11

(* A cycle of the client: it inserts what has the next number. *)
PortStep(e, remove) ==
  /\ Cycle(e, remove) /\ remove \in BOOLEAN
  /\ e # NoEntry => MayInsert /\ e \in Entry /\ e.meta = given + 1
  /\ remove => MayRemove

(* Every step is such a cycle.                                             *)
LEMMA NextIsStep ==
  ASSUME Next, AllNumbered
  PROVE  \E e, remove : PortStep(e, remove)
<1>1. ASSUME NEW rank \in Ranks, MayInsert
      PROVE  Numbered(rank) \in Entry /\ Numbered(rank).meta = given + 1
  <2>1. Cardinality(Metas) \in Nat
    BY MetasAssumption, FS_CardinalityType
  <2>2. given + 1 \in Metas
    BY <1>1, <2>1, MetasAssumption DEF MayInsert, AllNumbered
  <2> QED BY <2>2 DEF Numbered, Entry
<1>2. CASE Remove
  BY <1>2 DEF Remove, PortStep
<1>3. CASE Idle
  BY <1>3 DEF Idle, PortStep
<1>4. ASSUME NEW rank \in Ranks, Insert(rank) \/ RemoveInsert(rank)
      PROVE  \E e, remove : PortStep(e, remove)
  <2>1. MayInsert /\ (\/ Cycle(Numbered(rank), FALSE)
                      \/ MayRemove /\ Cycle(Numbered(rank), TRUE))
    BY <1>4 DEF Insert, RemoveInsert
  <2>2. Numbered(rank) \in Entry /\ Numbered(rank).meta = given + 1
    BY <1>1, <2>1
  <2> QED BY <2>1, <2>2 DEF PortStep
<1> QED BY <1>2, <1>3, <1>4 DEF Next

(* The client obeys busy and full.                                         *)
LEMMA StepAllowed ==
  ASSUME NEW e, NEW remove, PortStep(e, remove)
  PROVE  Allowed(e, remove)
BY DEF PortStep, Allowed, MayInsert, MayRemove, Available, busy, int_busy, MaybeEntry

(* What the machines and the port do while an entry is given to the list.  *)
LEMMA WhenAvailable ==
  ASSUME PortInv, Flags, MachinesInv, RegisterHolds,
         NEW e, NEW remove, PortStep(e, remove), e # NoEntry
  PROVE  /\ pr_in = NoEntry /\ reg.insert_ltch = NoEntry /\ main_state = "RUN" /\ sl_in = NoEntry
         /\ ins_state = "INS_IDLE" /\ rmv.state = "RMV_IDLE" /\ ~sl_insert
         /\ ~insert_d1 /\ ~pr_insert_d1 /\ ~rmv_busy /\ ~ins_busy
         /\ given < Cardinality(Metas) /\ Taken(e) /\ e \in Entry
         /\ reg.full => reg.num_entries = REG_WIDTH
         /\ ~Fills /\ ~Drops /\ ~Lower /\ e.meta = given + 1
<1>1. /\ ~insert_d1 /\ ~pr_insert_d1 /\ ~rmv_busy /\ ~ins_busy /\ ~full
      /\ given < Cardinality(Metas) /\ e \in Entry /\ was_available[SEL_LATENCY] /\ e.meta = given + 1
  BY DEF PortStep, MayInsert, Available, busy, int_busy
<1>2. pr_in = NoEntry /\ reg.insert_ltch = NoEntry /\ ~sl_insert
  BY <1>1 DEF PortInv, PortFlags
<1>3. ins_state = "INS_IDLE" /\ rmv.state = "RMV_IDLE"
  BY <1>1 DEF MachinesInv, BusyWhenAtWork
<1>4. main_state = "RUN" /\ sl_in = NoEntry
  BY <1>2, <1>3 DEF Flags, PortInv, PortFlags
<1>5. reg.full => reg.num_entries = REG_WIDTH
  BY <1>2 DEF RegisterHolds
<1>6. free_nodes_avail
  <2>1. full \/ free_nodes_avail \/ ins_busy \/ Unavailable(SEL_LATENCY)
    BY DEF PortInv, Lately
  <2>2. ~Unavailable(SEL_LATENCY)
    BY <1>1, LatencyAssumption DEF Unavailable
  <2> QED BY <1>1, <2>1, <2>2
<1>7. Taken(e)
  BY <1>4, <1>6 DEF Taken
<1> QED BY <1>1, <1>2, <1>3, <1>4, <1>5, <1>7 DEF Fills, Drops, Lower

-----------------------------------------------------------------------------

(* What is removed from the register.                                      *)
Taking(remove) == IF remove THEN {MinOut(reg)} ELSE {}

(* What the register passes on to the list.                                *)
PassedOn(remove) == IF Passing /\ ~remove THEN {sl_in} ELSE {}

(* The register takes what is on its port, and gives away what leaves the  *)
(* list or, passing it on, its maximum.                                    *)
LEMMA RegFlow ==
  ASSUME PortInv, NEW e, NEW remove, PortStep(e, remove)
  PROVE  /\ SlotsOK(reg)' /\ InReg' = (InReg \ (Taking(remove) \cup PassedOn(remove))) \cup ToReg
         /\ Taking(remove) \subseteq InReg /\ PassedOn(remove) \subseteq InReg
         /\ remove => \A a \in InReg : MinOut(reg).rank <= a.rank
         /\ Passing => \A a \in InReg : a.rank <= sl_in.rank
         /\ remove => reg.num_entries > 0 /\ ~remove_last /\ reg.insert_ltch = NoEntry
                      /\ reg' = AfterRemove(reg, pr_in)
         /\ ~remove /\ pr_in # NoEntry => reg' = AfterInsert(reg, pr_in, pr_in, remove)
         /\ ~remove /\ pr_in = NoEntry /\ reg.insert_ltch # NoEntry =>
              reg' = AfterInsert(reg, reg.insert_ltch, NoEntry, remove)
         /\ ~remove /\ pr_in = NoEntry /\ reg.insert_ltch = NoEntry => reg' = AfterIdle(reg, remove)
<1>1. reg' = RegNext(reg, pr_in, remove) /\ remove \in BOOLEAN
  BY DEF PortStep, Cycle, Port
<1>2. /\ SlotsOK(reg) /\ Apart /\ PortFlags /\ RegFlags /\ AllHeld \subseteq Entry
  BY DEF PortInv, AllNumbered
<1>3. reg.num_entries \in Nat /\ reg.num_entries <= REG_WIDTH
  BY <1>2, FilledSlots
<1>4. pr_in # NoEntry => pr_in \in Entry /\ pr_in \notin Held(reg) /\ reg.insert_ltch = NoEntry
  BY <1>2 DEF AllHeld, ToReg, Apart, InReg, PortFlags
<1>5. remove => /\ reg.valid_out /\ ~remove_last /\ reg.num_entries > 0 /\ reg.insert_ltch = NoEntry
                /\ reg' = AfterRemove(reg, pr_in)
  BY <1>1, <1>2 DEF PortStep, MayRemove, RegFlags, PortFlags, RegNext
<1>6. ~remove => reg' = IF pr_in # NoEntry THEN AfterInsert(reg, pr_in, pr_in, remove)
                        ELSE IF reg.insert_ltch # NoEntry THEN AfterInsert(reg, reg.insert_ltch, NoEntry, remove)
                        ELSE AfterIdle(reg, remove)
  BY <1>1 DEF RegNext
<1>7. Passing => /\ sl_in \in Held(reg) /\ \A a \in Held(reg) : a.rank <= sl_in.rank
                 /\ pr_in # NoEntry
  <2>1. SUFFICES ASSUME Passing
                 PROVE  sl_in \in Held(reg) /\ \A a \in Held(reg) : a.rank <= sl_in.rank
    BY <1>2 DEF PortFlags
  <2>2. pr_in # NoEntry /\ reg.num_entries = REG_WIDTH /\ sl_in = MaxOut(reg)
    BY <1>2, <2>1 DEF PortFlags
  <2>3. /\ MaxOut(reg) \in Held(reg)
        /\ \A f \in Held(reg) : f.rank <= MaxOut(reg).rank
    BY <1>2, <1>4, <2>2, InsertEffect
  <2> QED BY <2>2, <2>3
<1>8. CASE remove
  <2>1. pr_in \in MaybeEntry /\ pr_in \notin Held(reg)
    <3>1. NoEntry \notin Held(reg)
      BY <1>2, NoEntryAssumption DEF AllHeld, InReg
    <3> QED BY <1>4, <3>1 DEF MaybeEntry
  <2>2. /\ SlotsOK(AfterRemove(reg, pr_in))
        /\ MinOut(reg) \in Held(reg)
        /\ \A a \in Held(reg) : MinOut(reg).rank <= a.rank
        /\ Held(AfterRemove(reg, pr_in)) = (Held(reg) \ {MinOut(reg)}) \cup ({pr_in} \ {NoEntry})
    BY <1>2, <1>5, <1>8, <2>1, RemoveEffect
  <2>3. SlotsOK(reg)' /\ InReg' = (InReg \ {MinOut(reg)}) \cup ToReg
    BY <1>5, <1>8, <2>2 DEF InReg, ToReg
  <2> QED BY <1>5, <1>7, <1>8, <2>2, <2>3 DEF Taking, PassedOn, InReg
<1>9. CASE ~remove /\ pr_in # NoEntry
  <2>1. reg' = AfterInsert(reg, pr_in, pr_in, remove)
    BY <1>6, <1>9
  <2> DEFINE q == AfterInsert(reg, pr_in, pr_in, remove)
  <2>2. \A a \in Entry : reg.insert_ltch = NoEntry /\ a \notin Held(reg) =>
          LET x == AfterInsert(reg, a, pr_in, remove)
          IN  /\ SlotsOK(x)
              /\ reg.num_entries < REG_WIDTH => Held(x) = Held(reg) \cup {a}
              /\ reg.num_entries = REG_WIDTH /\ a.rank < MaxOut(reg).rank =>
                   Held(x) = (Held(reg) \ {MaxOut(reg)}) \cup {a}
    BY <1>2, InsertEffect
  <2>3. CASE Passing
    <3>1. reg.num_entries = REG_WIDTH /\ sl_in = MaxOut(reg) /\ pr_in.rank < MaxOut(reg).rank
      BY <1>2, <2>3 DEF PortFlags
    <3>2. Held(AfterInsert(reg, pr_in, pr_in, remove)) = (Held(reg) \ {MaxOut(reg)}) \cup {pr_in}
      BY <2>2, <3>1, <1>4, <1>9
    <3>3. InReg' = (InReg \ {sl_in}) \cup ToReg
      BY <1>9, <2>1, <3>1, <3>2 DEF InReg, ToReg
    <3>4. SlotsOK(reg)'
      BY <2>1, <2>2, <1>4, <1>9
    <3> QED BY <1>7, <1>9, <2>1, <2>3, <3>3, <3>4 DEF Taking, PassedOn, InReg
  <2>4. CASE ~Passing
    <3>1. reg.num_entries < REG_WIDTH
      <4>1. reg.num_entries # REG_WIDTH
        BY <1>2, <1>9, <2>4 DEF PortFlags
      <4> QED BY <4>1, <1>3, RegWidthAssumption
    <3>2. Held(AfterInsert(reg, pr_in, pr_in, remove)) = Held(reg) \cup {pr_in}
      BY <2>2, <3>1, <1>4, <1>9
    <3>3. InReg' = InReg \cup ToReg
      BY <1>9, <2>1, <3>2 DEF InReg, ToReg
    <3>4. SlotsOK(reg)'
      BY <2>1, <2>2, <1>4, <1>9
    <3> QED BY <1>9, <2>1, <2>4, <3>3, <3>4 DEF Taking, PassedOn, InReg
  <2> QED BY <2>3, <2>4
<1>10. CASE ~remove /\ pr_in = NoEntry
  <2>1. ~Passing /\ ToReg = {}
    BY <1>7, <1>10 DEF ToReg
  <2>2. SlotsOK(reg)' /\ InReg' = InReg
    <3>1. CASE reg.insert_ltch # NoEntry
      <4>1. reg' = AfterInsert(reg, reg.insert_ltch, NoEntry, remove)
        BY <1>6, <1>10, <3>1
      <4>2. reg.insert_ltch \in Entry /\ reg.num_entries < REG_WIDTH /\ reg.insert_ltch \in Held(reg)
        BY <1>2, <3>1 DEF SlotsOK, MaybeEntry, PortFlags, Held
      <4> DEFINE a == reg.insert_ltch
                 q == AfterInsert(reg, a, NoEntry, remove)
      <4>3. /\ SlotsOK(q)
            /\ reg.num_entries < REG_WIDTH => Held(q) = Held(reg) \cup {a}
        BY <1>2, <4>2, InsertEffect
      <4> QED BY <4>1, <4>2, <4>3 DEF InReg
    <3>2. CASE reg.insert_ltch = NoEntry
      <4>1. reg' = AfterIdle(reg, remove)
        BY <1>6, <1>10, <3>2
      <4>2. SlotsOK(AfterIdle(reg, remove)) /\ Held(AfterIdle(reg, remove)) = Held(reg)
        BY <1>2, IdleEffect
      <4> QED BY <4>1, <4>2 DEF InReg
    <3> QED BY <3>1, <3>2
  <2> QED BY <1>6, <1>7, <1>10, <2>1, <2>2 DEF Taking, PassedOn
<1> QED BY <1>1, <1>8, <1>9, <1>10

(* What is given to the list and goes to the register.                     *)
ForReg(e) == IF Taken(e) /\ ToRegister(e) THEN {e} ELSE {}

(* What is given to the list and goes to a node.                           *)
ForNode(e) == IF Taken(e) /\ ~ToRegister(e) THEN {e} ELSE {}

(* The main machine takes what goes to a node, and lets go of what is in   *)
(* one.                                                                    *)
LEMMA MainFlow ==
  ASSUME PortInv, Flags, MachinesInv, RegisterHolds, RegsTyped,
         NEW e, NEW remove, PortStep(e, remove),
         Leaving \subseteq ListEntries
  PROVE  /\ ToReg' = Leaving \cup ForReg(e)
         /\ ToNode' = ((ToNode \cup PassedOn(remove)) \ Coming) \cup ForNode(e)
         /\ Coming \subseteq ToNode
         /\ ForReg(e) \cup ForNode(e) = {e} \ {NoEntry} /\ ForReg(e) \cap ForNode(e) = {}
<1>1. Allowed(e, remove) /\ Search /\ Insert_(remove) /\ RemoveNode(e) /\ Main(e, remove) /\ Port(e, remove)
  BY StepAllowed, CycleParts
<1>2. /\ ins_state \in InsertStates /\ sl_insert \in BOOLEAN /\ search_done \in BOOLEAN
      /\ ins_state # "INS_IDLE" => ins_busy
      /\ rmv.state # "RMV_IDLE" => rmv_busy
  BY DEF MachinesInv, StatesOK, BusyWhenAtWork
<1>3. /\ main_state \in {"RUN", "INSERT"}
      /\ main_state = "INSERT" <=> sl_insert \/ ins_state # "INS_IDLE"
      /\ main_state = "INSERT" => sl_in \in Entry
      /\ sl_blk_ins_if_rmv => sl_insert
      /\ sl_insert => ins_state = "INS_IDLE" /\ ~ins_busy
      /\ insert_done <=> ins_state = "INS_CONN_NEAR"
  BY DEF Flags
<1>4. /\ main_state' = IF main_state = "RUN"
                       THEN IF ToList(e, remove) # NoEntry THEN "INSERT" ELSE "RUN"
                       ELSE IF (remove /\ sl_blk_ins_if_rmv) \/ insert_done THEN "RUN" ELSE "INSERT"
      /\ sl_insert' = (ToList(e, remove) # NoEntry)
      /\ sl_in' = IF ToList(e, remove) # NoEntry THEN ToList(e, remove)
                  ELSE IF main_state' = "RUN" THEN NoEntry ELSE sl_in
      /\ sl_blk_ins_if_rmv' = PassesMax(e, remove)
  BY <1>1 DEF Main
<1>5. /\ ins_state' = CASE ins_state = "INS_IDLE" ->
                             IF Starts(remove) THEN "INS_CONN_NEW" ELSE "INS_IDLE"
                        [] ins_state = "INS_CONN_NEW" ->
                             IF search_done THEN "INS_CONN_NEAR" ELSE "INS_CONN_NEW"
                        [] ins_state = "INS_CONN_NEAR" -> "INS_IDLE"
  BY <1>1 DEF Insert_
<1>6. e # NoEntry => /\ main_state = "RUN" /\ rmv.state = "RMV_IDLE" /\ Taken(e)
  BY WhenAvailable
<1>7. e = NoEntry => ~Taken(e) /\ ToList(e, remove) = NoEntry /\ ~PassesMax(e, remove)
  BY DEF Taken, ToList, PassesMax
<1>8. ForReg(e) \cup ForNode(e) = {e} \ {NoEntry} /\ ForReg(e) \cap ForNode(e) = {}
  BY <1>6, <1>7 DEF ForReg, ForNode
<1>9. ToReg' = Leaving \cup ForReg(e)
  <2>1. pr_in' = IF Drops THEN [rank |-> dout.rank, meta |-> dout.meta]
                 ELSE IF Taken(e) /\ ToRegister(e) THEN e ELSE NoEntry
    BY <1>1 DEF Port, Drops
  <2>2. CASE Drops
    <3>1. [rank |-> dout.rank, meta |-> dout.meta] # NoEntry
      BY <2>2, NoEntryAssumption DEF Leaving, PortInv, AllNumbered, AllHeld
    <3>2. e = NoEntry
      BY <1>6, <2>2 DEF Drops
    <3> QED BY <2>1, <2>2, <3>1, <3>2, <1>7 DEF ToReg, Leaving, ForReg
  <2>3. CASE ~Drops
    BY <2>1, <2>3, <1>7 DEF ToReg, Leaving, ForReg
  <2> QED BY <2>2, <2>3
<1>10. Coming \subseteq ToNode
  BY <1>3 DEF Coming, Fills, ToNode, Passing
<1>11. ToNode' = ((ToNode \cup PassedOn(remove)) \ Coming) \cup ForNode(e)
  <2>1. CASE main_state = "RUN"
    <3>1. ToNode = {} /\ ~sl_insert /\ ins_state = "INS_IDLE" /\ ~Passing
      BY <1>3, <2>1 DEF ToNode, Passing
    <3>2. PassedOn(remove) = {} /\ Coming = {} /\ ins_state' = "INS_IDLE"
      BY <1>5, <3>1 DEF PassedOn, Coming, Fills, Starts
    <3>3. ToNode' = ForNode(e)
      <4>1. ToNode' = IF ToList(e, remove) # NoEntry /\ ~PassesMax(e, remove) THEN {sl_in'} ELSE {}
        BY <1>4, <2>1, <3>2 DEF ToNode, Passing
      <4>2. CASE Taken(e) /\ ~ToRegister(e)
        <5>1. ToList(e, remove) = e /\ ~PassesMax(e, remove) /\ e # NoEntry
          BY <4>2 DEF ToList, PassesMax, Taken
        <5> QED BY <4>1, <4>2, <5>1, <1>4 DEF ForNode
      <4>3. CASE ~(Taken(e) /\ ~ToRegister(e))
        BY <4>1, <4>3 DEF ToList, ForNode
      <4> QED BY <4>2, <4>3
    <3> QED BY <3>1, <3>2, <3>3
  <2>2. CASE main_state = "INSERT"
    <3>1. e = NoEntry /\ ForNode(e) = {} /\ ToList(e, remove) = NoEntry /\ ~Passing'
      BY <1>4, <1>6, <1>7, <2>2 DEF ForNode, Passing
    <3>2. CASE ins_state = "INS_CONN_NEAR"
      <4>1. main_state' = "RUN" /\ ~Passing
        BY <1>3, <1>4, <2>2, <3>2 DEF Passing
      <4> QED BY <3>1, <3>2, <4>1 DEF ToNode, PassedOn, Coming, Fills
    <3>3. CASE Passing /\ remove
      <4>1. main_state' = "RUN"
        BY <1>4, <2>2, <3>3 DEF Passing
      <4> QED BY <3>1, <3>3, <4>1 DEF ToNode, PassedOn
    <3>4. CASE Passing /\ ~remove
      <4>1. ins_state = "INS_IDLE"
        BY <1>3, <3>4 DEF Passing
      <4>2. main_state' = "INSERT" /\ sl_in' = sl_in /\ ins_state' # "INS_CONN_NEAR"
        BY <1>3, <1>4, <1>5, <2>2, <3>1, <3>4, <4>1
      <4> QED BY <3>1, <3>4, <4>1, <4>2 DEF ToNode, PassedOn, Coming, Fills
    <3>5. CASE ~Passing /\ ins_state # "INS_CONN_NEAR"
      <4>1. main_state' = "INSERT" /\ sl_in' = sl_in
        BY <1>3, <1>4, <2>2, <3>1, <3>5 DEF Passing
      <4>2. ToNode = {sl_in} /\ PassedOn(remove) = {}
        BY <2>2, <3>5 DEF ToNode, PassedOn
      <4>3. ins_state' = "INS_CONN_NEAR" <=> Fills
        BY <1>2, <1>5, <3>5 DEF Fills, InsertStates
      <4> QED BY <3>1, <4>1, <4>2, <4>3 DEF ToNode, Coming
    <3> QED BY <3>2, <3>3, <3>4, <3>5
  <2> QED BY <1>3, <2>1, <2>2
<1> QED BY <1>8, <1>9, <1>10, <1>11

-----------------------------------------------------------------------------
(* Entries move from place to place, and none is lost or doubled.          *)

(* The next number is a new one.                                           *)
LEMMA NewEntry ==
  ASSUME PortInv, NEW e, NEW remove, PortStep(e, remove)
  PROVE  /\ e # NoEntry => e \in Entry /\ e \notin AllHeld /\ e \notin inside /\ e.meta = given + 1
                           /\ given < Cardinality(Metas)
         /\ remove \in BOOLEAN
<1>1. e # NoEntry => e \in Entry /\ e.meta = given + 1 /\ given < Cardinality(Metas)
  BY DEF PortStep, MayInsert
<1>2. given \in Nat /\ \A x \in AllHeld \cup inside : x.meta <= given
  BY MetasAssumption, FS_CardinalityType DEF PortInv, AllNumbered
<1>3. ~(given + 1 <= given)
  BY <1>2
<1> QED BY <1>1, <1>2, <1>3 DEF PortStep

(* What a cycle does to the entries: each of the four places gives to the  *)
(* next one, and nothing is lost or doubled on the way.                    *)
LEMMA PortFlow ==
  ASSUME PortInv, WholeInv, NEW e, NEW remove, PortStep(e, remove)
  PROVE  /\ SlotsOK(reg)' /\ CarriedOK' /\ Apart'
         /\ AllHeld' = (AllHeld \ Taking(remove)) \cup ({e} \ {NoEntry})
         /\ InReg' = (InReg \ (Taking(remove) \cup PassedOn(remove))) \cup ToReg
         /\ ToReg' = Leaving \cup ForReg(e)
         /\ ToNode' = ((ToNode \cup PassedOn(remove)) \ Coming) \cup ForNode(e)
         /\ ListEntries' = (ListEntries \ Leaving) \cup Coming
         /\ Taking(remove) \subseteq InReg /\ PassedOn(remove) \subseteq InReg
         /\ Leaving \subseteq ListEntries /\ Coming \subseteq ToNode
<1>1. PICK on, lv, at : ListInv(on, lv, at)
  BY DEF WholeInv, ListHolds
<1>2. /\ Flags /\ MachinesInv /\ RegisterHolds /\ RegsTyped /\ Allowed(e, remove)
      /\ CarriedOK /\ Apart
  BY StepAllowed DEF WholeInv, PortInv
<1>3. Fills => sl_in \notin ListEntries
  <2>1. Fills => ins_state = "INS_CONN_NEW" /\ ~sl_insert /\ main_state = "INSERT"
    BY <1>2 DEF Fills, Flags
  <2>2. Fills => ToNode = {sl_in}
    BY <2>1 DEF ToNode, Passing
  <2> QED BY <1>2, <2>2 DEF Apart
<1>4. /\ CarriedOK' /\ Leaving \subseteq ListEntries
      /\ ListEntries' = (ListEntries \ Leaving) \cup Coming
  BY <1>1, <1>2, <1>3, ListFlow
<1>5. /\ SlotsOK(reg)' /\ InReg' = (InReg \ (Taking(remove) \cup PassedOn(remove))) \cup ToReg
      /\ Taking(remove) \subseteq InReg /\ PassedOn(remove) \subseteq InReg
  BY RegFlow
<1>6. /\ ToReg' = Leaving \cup ForReg(e)
      /\ ToNode' = ((ToNode \cup PassedOn(remove)) \ Coming) \cup ForNode(e)
      /\ Coming \subseteq ToNode
      /\ ForReg(e) \cup ForNode(e) = {e} \ {NoEntry} /\ ForReg(e) \cap ForNode(e) = {}
  BY <1>2, <1>4, MainFlow
<1>7. (ForReg(e) \cup ForNode(e)) \cap (InReg \cup ToReg \cup ToNode \cup ListEntries) = {}
  BY <1>6, NewEntry DEF AllHeld
<1>8. Taking(remove) \cap PassedOn(remove) = {}
  BY DEF Taking, PassedOn
<1> DEFINE A1 == InReg'
           B1 == ToReg'
           C1 == ToNode'
           D1 == ListEntries'
<1>9. /\ A1 = (InReg \ (Taking(remove) \cup PassedOn(remove))) \cup ToReg
      /\ B1 = Leaving \cup ForReg(e)
      /\ C1 = ((ToNode \cup PassedOn(remove)) \ Coming) \cup ForNode(e)
      /\ D1 = (ListEntries \ Leaving) \cup Coming
  BY <1>4, <1>5, <1>6
<1> HIDE DEF A1, B1, C1, D1
<1>10. /\ A1 \cap B1 = {} /\ A1 \cap C1 = {} /\ A1 \cap D1 = {}
       /\ B1 \cap C1 = {} /\ B1 \cap D1 = {} /\ C1 \cap D1 = {}
       /\ A1 \cup B1 \cup C1 \cup D1
            = ((InReg \cup ToReg \cup ToNode \cup ListEntries) \ Taking(remove)) \cup (ForReg(e) \cup ForNode(e))
  <2>1. /\ InReg \cap ToReg = {} /\ InReg \cap ToNode = {} /\ InReg \cap ListEntries = {}
        /\ ToReg \cap ToNode = {} /\ ToReg \cap ListEntries = {} /\ ToNode \cap ListEntries = {}
    BY <1>2 DEF Apart
  <2>2. /\ Taking(remove) \subseteq InReg /\ PassedOn(remove) \subseteq InReg
        /\ Coming \subseteq ToNode /\ Leaving \subseteq ListEntries
        /\ ForReg(e) \cap ForNode(e) = {}
    BY <1>4, <1>5, <1>6
  <2> QED BY <1>7, <1>8, <1>9, <2>1, <2>2, Flow
<1>11. Apart'
  BY <1>10 DEF Apart, A1, B1, C1, D1
<1>12. AllHeld' = (AllHeld \ Taking(remove)) \cup ({e} \ {NoEntry})
  BY <1>6, <1>10 DEF AllHeld, A1, B1, C1, D1
<1> QED BY <1>4, <1>5, <1>6, <1>11, <1>12

(* Every cycle keeps the entries numbered.                                 *)
LEMMA NumberedStep ==
  ASSUME PortInv, NEW e, NEW remove, PortStep(e, remove),
         AllHeld' = (AllHeld \ Taking(remove)) \cup ({e} \ {NoEntry})
  PROVE  AllNumbered'
<1>1. /\ inside' = (inside \cup ({e} \ {NoEntry})) \ (IF remove THEN {MinOut(reg)} ELSE {})
      /\ given' = given + (IF e = NoEntry THEN 0 ELSE 1)
  BY DEF PortStep, Cycle
<1>2. /\ AllHeld \subseteq Entry /\ inside \subseteq Entry
      /\ given \in 0 .. Cardinality(Metas) /\ Cardinality(Metas) \in Nat
      /\ \A x \in AllHeld \cup inside : x.meta <= given
      /\ \A x, y \in AllHeld : x.meta = y.meta => x = y
  BY MetasAssumption, FS_CardinalityType DEF PortInv, AllNumbered
<1>3. Metas \subseteq Nat
  BY <1>2, MetasAssumption
<1>4. e # NoEntry => e \in Entry /\ e.meta = given + 1 /\ given < Cardinality(Metas)
  BY NewEntry
<1>5. \A x \in AllHeld \cup inside : x.meta \in Nat
  BY <1>2, <1>3 DEF Entry
<1>6. given' \in 0 .. Cardinality(Metas)
  BY <1>1, <1>2, <1>4
<1>7. \A x \in AllHeld' \cup inside' : x.meta <= given'
  BY <1>1, <1>2, <1>4, <1>5
<1>8. \A x, y \in AllHeld' : x.meta = y.meta => x = y
  <2>1. \A x \in AllHeld : e # NoEntry => x.meta # e.meta
    BY <1>2, <1>4, <1>5
  <2> QED BY <1>2, <2>1
<1>9. AllHeld' \subseteq Entry /\ inside' \subseteq Entry
  BY <1>1, <1>2, <1>4
<1> QED BY <1>6, <1>7, <1>8, <1>9 DEF AllNumbered

(* What the client gives to the list is what SkipListPort is told. *)
LEMMA GivenIs ==
  ASSUME PortInv, NEW e, NEW remove, PortStep(e, remove)
  PROVE  Given = e
<1>1. inside' = (inside \cup ({e} \ {NoEntry})) \ Taking(remove)
  BY DEF PortStep, Cycle, Taking
<1>2. e # NoEntry => e \notin inside /\ e \notin AllHeld
  BY NewEntry
<1>3. Taking(remove) \subseteq AllHeld
  BY RegFlow DEF AllHeld
<1>4. CASE e = NoEntry
  BY <1>1, <1>4 DEF Given
<1>5. CASE e # NoEntry
  <2>1. e \in inside' /\ e \notin inside /\ \A x \in inside' : x \notin inside => x = e
    BY <1>1, <1>2, <1>3, <1>5
  <2>2. (CHOOSE x \in inside' : x \notin inside) = e
    BY <2>1
  <2> QED BY <2>1, <2>2 DEF Given
<1> QED BY <1>4, <1>5

-----------------------------------------------------------------------------
(* The smallest ranks are in the register.                                 *)

(* The maximum of a register that is not empty is in it.                   *)
LEMMA LargestInside ==
  ASSUME SlotsOK(reg), reg.num_entries > 0, reg.insert_ltch = NoEntry
  PROVE  MaxOut(reg) \in InReg /\ \A a \in InReg : a.rank <= MaxOut(reg).rank
<1>1. /\ SlotsTyped(reg) /\ Used(reg) = Filled(reg) /\ reg.num_entries \in Nat
      /\ REG_WIDTH \in Nat /\ REG_WIDTH >= 2
      /\ \A i \in Filled(reg) : reg.slots[i] \in Entry
      /\ Held(reg) = {reg.slots[i] : i \in Filled(reg)}
  BY FilledSlots DEF SlotsOK
<1>2. 0 \in Filled(reg)
  BY <1>1 DEF Filled, Slots
<1>3. /\ MaxIdx(reg) \in Used(reg)
      /\ \A j \in Used(reg) : reg.slots[MaxIdx(reg)].rank >= reg.slots[j].rank
  BY <1>1, <1>2, MaxIdxSelects
<1>4. \A i \in Filled(reg) : reg.slots[i].rank \in Nat
  BY <1>1, MaxRankAssumption DEF Entry, Ranks
<1> QED BY <1>1, <1>3, <1>4 DEF MaxOut, InReg

(* The node that leaves is the last one, and carries the smallest rank. *)
LEMMA LeastLeaves ==
  ASSUME NEW on, NEW lv, NEW at, ListInv(on, lv, at), Flags, MachinesInv, CarriedOK, Drops
  PROVE  \A d \in ListEntries : dout.rank <= d.rank
<1> DEFINE z == rmv.node
<1>1. Shape(on, lv, at, mem, Torn) /\ Removing(on, lv) /\ Lower /\ ins_state = "INS_IDLE"
  BY DEF ListInv, Drops, Lower, MachinesInv, OneAtATime
<1>2. /\ z \in on \cap Nodes /\ lv[z] = 0 /\ mem[z].rptr = tail(0) /\ dout = mem[z]
  BY <1>1 DEF Removing, Drops
<1>3. Carried = Lowest(on, lv)
  BY <1>1, WhatIsCarried
<1>4. z # tail(0) /\ at \in [Addr -> Nat] /\ on \subseteq Addr /\ 0 \in Lvls
  BY <1>1, <1>2, Addresses DEF Shape, Typed
<1>5. \A w \in on : lv[w] = 0 => at[w] <= at[z] \/ at[tail(0)] <= at[w]
  BY <1>1, <1>2, <1>4 DEF Shape, Rights
<1>6. ASSUME NEW x \in Carried
      PROVE  mem[z].rank <= mem[x].rank
  <2>1. x \in on \cap Nodes /\ lv[x] = 0
    BY <1>3 DEF Lowest
  <2>2. at[x] < at[tail(0)] /\ tail(0) \in on
    BY <1>1, <1>4, <2>1 DEF Shape, Ends
  <2>3. at[x] \in Nat /\ at[z] \in Nat /\ at[tail(0)] \in Nat
    BY <1>2, <1>4, <2>1, <2>2
  <2>4. at[x] <= at[z]
    BY <1>5, <2>1, <2>2, <2>3
  <2>5. mem[x].rank \in Nat /\ mem[z].rank \in Nat
    <3>1. mem[x].rank \in Ranks /\ mem[z].rank \in Ranks
      BY <1>1, <1>2, <2>1, OnTyped
    <3> QED BY <3>1, MaxRankAssumption DEF Ranks
  <2>6. CASE at[x] = at[z]
    <3>1. x = z
      BY <1>1, <1>2, <2>1, <2>6 DEF Shape, Alone
    <3> QED BY <2>5, <3>1
  <2>7. CASE at[x] < at[z]
    <3>1. mem[x].rank >= mem[z].rank
      BY <1>1, <1>2, <2>1, <2>7 DEF Shape, Sorted
    <3> QED BY <2>5, <3>1
  <2> QED BY <2>3, <2>4, <2>6, <2>7
<1> QED BY <1>2, <1>6, EntriesListed DEF EntryOf

(* An entry on the port has been compared with what the register and the   *)
(* nodes hold.                                                             *)
LEMMA Compared ==
  ASSUME PortInv, WholeInv, NEW e, NEW remove, PortStep(e, remove), e # NoEntry
  PROVE  /\ ~ToRegister(e) => \A a \in InReg : a.rank <= e.rank
         /\ ToRegister(e) => \A d \in ListEntries : e.rank <= d.rank
         /\ sl_num_entries = 0 => ListEntries = {}
<1>1. /\ Flags /\ MachinesInv /\ RegisterHolds /\ SlotsOK(reg) /\ CarriedOK /\ Ordered /\ RegFlags
      /\ AllHeld \subseteq Entry
  BY DEF WholeInv, PortInv, AllNumbered
<1>2. /\ reg.insert_ltch = NoEntry /\ main_state = "RUN" /\ ins_state = "INS_IDLE"
      /\ rmv.state = "RMV_IDLE" /\ e \in Entry
      /\ reg.full => reg.num_entries = REG_WIDTH
  BY <1>1, WhenAvailable
<1>3. PICK on, lv, at : ListInv(on, lv, at)
  BY DEF WholeInv, ListHolds
<1>4. IsFiniteSet(Carried) /\ Cardinality(Carried) = sl_num_entries
  <2>1. IsFiniteSet(Carried) /\ sl_num_entries \in Nat
    BY <1>1, <1>3, WhatIsCarried
  <2> QED BY <1>1, <1>2, <2>1 DEF CarriedOK, Lower, One
<1>5. sl_num_entries = 0 => ListEntries = {}
  <2>1. sl_num_entries = 0 => Carried = {}
    BY <1>4, FS_EmptySet
  <2> QED BY <2>1, EntriesListed
<1>6. /\ reg.num_entries \in Nat /\ REG_WIDTH \in Nat /\ REG_WIDTH >= 2
      /\ \A a \in InReg \cup ListEntries \cup {e} : a.rank \in Nat
  <2>1. InReg \cup ListEntries \cup {e} \subseteq Entry
    BY <1>1, <1>2 DEF AllHeld
  <2>2. \A a \in Entry : a.rank \in Nat
    BY MaxRankAssumption DEF Entry, Ranks
  <2> QED BY <1>1, <2>1, <2>2, FilledSlots
<1>7. reg.num_entries > 0 => MaxOut(reg) \in InReg /\ \A a \in InReg : a.rank <= MaxOut(reg).rank
  BY <1>1, <1>2, LargestInside
<1>8. reg.num_entries = 0 => InReg = {}
  <2>1. reg.num_entries = 0 => Filled(reg) = {}
    BY <1>6, RegWidthAssumption DEF Filled, Slots
  <2> QED BY <1>1, <1>2, <2>1, FilledSlots DEF InReg
<1>9. ASSUME ~ToRegister(e)
      PROVE  \A a \in InReg : a.rank <= e.rank
  <2>1. SUFFICES ASSUME reg.num_entries > 0 PROVE \A a \in InReg : a.rank <= e.rank
    BY <1>6, <1>8
  <2>2. ~reg.empty
    BY <1>1, <2>1 DEF RegFlags
  <2>3. ~(e.rank < MaxOut(reg).rank)
    BY <1>9, <2>2 DEF ToRegister, BeatsMax
  <2> QED BY <1>6, <1>7, <2>1, <2>3
<1>10. ASSUME ToRegister(e)
       PROVE  \A d \in ListEntries : e.rank <= d.rank
  <2>1. SUFFICES ASSUME sl_num_entries # 0 PROVE \A d \in ListEntries : e.rank <= d.rank
    BY <1>5
  <2>2. e.rank < MaxOut(reg).rank /\ (reg.full \/ ~reg.empty)
    BY <1>10, <2>1 DEF ToRegister, BeatsMax
  <2>3. reg.num_entries > 0
    BY <1>1, <1>2, <1>6, <2>1, <2>2 DEF RegFlags
  <2>4. \A d \in ListEntries : MaxOut(reg).rank <= d.rank
    BY <1>1, <1>7, <2>3 DEF Ordered
  <2>5. MaxOut(reg).rank \in Nat
    BY <1>6, <1>7, <2>3
  <2> QED BY <1>6, <2>2, <2>4, <2>5
<1> QED BY <1>5, <1>9, <1>10

(* Every cycle keeps the smallest ranks in the register.                   *)
LEMMA OrderedStep ==
  ASSUME PortInv, WholeInv, NEW e, NEW remove, PortStep(e, remove)
  PROVE  Ordered'
<1>1. PICK on, lv, at : ListInv(on, lv, at)
  BY DEF WholeInv, ListHolds
<1>2. /\ Flags /\ MachinesInv /\ RegisterHolds /\ CarriedOK /\ Ordered /\ PortFlags
      /\ AllHeld \subseteq Entry
  BY DEF WholeInv, PortInv, AllNumbered
<1>3. /\ InReg' = (InReg \ (Taking(remove) \cup PassedOn(remove))) \cup ToReg
      /\ ToReg' = Leaving \cup ForReg(e)
      /\ ToNode' = ((ToNode \cup PassedOn(remove)) \ Coming) \cup ForNode(e)
      /\ ListEntries' = (ListEntries \ Leaving) \cup Coming
      /\ PassedOn(remove) \subseteq InReg
      /\ Leaving \subseteq ListEntries /\ Coming \subseteq ToNode
  BY PortFlow
<1>4. /\ \A a \in InReg : \A d \in ToNode \cup ListEntries : a.rank <= d.rank
      /\ \A b \in ToReg : \A d \in ListEntries : b.rank <= d.rank
  BY <1>2 DEF Ordered
<1>5. ToReg # {} => ToNode = {}
  BY <1>2 DEF PortFlags, ToReg, ToNode, Passing
<1>6. \A d \in PassedOn(remove) : \A a \in InReg : a.rank <= d.rank
  BY RegFlow DEF PassedOn
<1>7. \A d \in PassedOn(remove) : \A b \in ToReg : b.rank <= d.rank
  <2>1. \A x \in InReg : x.rank \in Nat
    BY <1>2, MaxRankAssumption DEF AllHeld, Entry, Ranks
  <2>2. \A x \in ToReg : x.rank \in Nat
    BY <1>2, MaxRankAssumption DEF AllHeld, Entry, Ranks
  <2>3. Passing => pr_in.rank < sl_in.rank
    BY <1>2 DEF PortFlags
  <2> QED BY <1>3, <2>1, <2>2, <2>3 DEF PassedOn, ToReg
<1>8. e # NoEntry => ToReg = {} /\ Leaving = {} /\ Coming = {}
  BY <1>2, WhenAvailable DEF ToReg, Leaving, Coming
<1>9. ForReg(e) \cup ForNode(e) \subseteq {e} \ {NoEntry}
  BY DEF ForReg, ForNode, Taken
<1>10. \A d \in ForNode(e) : \A a \in InReg : a.rank <= d.rank
  <2>1. ForNode(e) # {} => ForNode(e) = {e} /\ ~ToRegister(e) /\ e # NoEntry
    BY DEF ForNode, Taken
  <2> QED BY <2>1, Compared
<1>11. \A b \in ForReg(e) : \A d \in ListEntries : b.rank <= d.rank
  <2>1. ForReg(e) # {} => ForReg(e) = {e} /\ ToRegister(e) /\ e # NoEntry
    BY DEF ForReg, Taken
  <2> QED BY <2>1, Compared
<1>12. \A b \in Leaving : \A d \in ListEntries : b.rank <= d.rank
  BY <1>1, <1>2, LeastLeaves DEF Leaving
<1>13. Leaving # {} => Coming = {} /\ ToReg = {}
  BY <1>2 DEF Leaving, Drops, Coming, Fills, MachinesInv, OneAtATime, PortFlags, ToReg
<1> DEFINE A1 == InReg'
           B1 == ToReg'
           C1 == ToNode'
           D1 == ListEntries'
<1>14. \A a \in A1 : \A d \in C1 \cup D1 : a.rank <= d.rank
  <2>1. SUFFICES ASSUME NEW a \in A1, NEW d \in C1 \cup D1 PROVE a.rank <= d.rank
    OBVIOUS
  <2>2. a \in InReg \/ a \in ToReg
    BY <1>3
  <2>3. d \in ToNode \/ d \in ListEntries \/ d \in PassedOn(remove) \/ d \in ForNode(e)
    BY <1>3
  <2>4. CASE a \in InReg
    BY <1>4, <1>6, <1>10, <2>3, <2>4
  <2>5. CASE a \in ToReg
    BY <1>4, <1>5, <1>7, <1>8, <1>9, <2>3, <2>5
  <2> QED BY <2>2, <2>4, <2>5
<1>15. \A b \in B1 : \A d \in D1 : b.rank <= d.rank
  <2>1. SUFFICES ASSUME NEW b \in B1, NEW d \in D1 PROVE b.rank <= d.rank
    OBVIOUS
  <2>2. CASE b \in Leaving
    BY <1>3, <1>12, <1>13, <2>2
  <2>3. CASE b \in ForReg(e)
    BY <1>3, <1>8, <1>9, <1>11, <2>3
  <2> QED BY <1>3, <2>2, <2>3
<1>16. ASSUME ~insert_d1', NEW a \in A1, NEW b \in B1
       PROVE  a.rank <= b.rank
  <2>1. e = NoEntry
    BY <1>16 DEF PortStep, Cycle, Port
  <2>2. b \in Leaving
    BY <1>3, <1>9, <2>1
  <2> QED BY <1>3, <1>4, <1>13, <2>2
<1> QED BY <1>14, <1>15, <1>16 DEF Ordered

-----------------------------------------------------------------------------
(* Flags of the ports and of the register.                                 *)

(* Nothing is on its way to the register.                                  *)
Rests == pr_in = NoEntry /\ reg.insert_ltch = NoEntry

(* What a cycle makes of the register, field by field.                     *)
LEMMA RegFields ==
  ASSUME PortInv, NEW e, NEW remove, PortStep(e, remove)
  PROVE  /\ remove =>
              /\ reg.num_entries > 0 /\ ~remove_last /\ reg.insert_ltch = NoEntry /\ reg.valid_out
              /\ reg'.num_entries = reg.num_entries - 1 /\ reg'.insert_ltch = pr_in
              /\ reg'.calc_min_max
              /\ reg'.valid_out <=> (reg.calc_min_max /\ reg.num_entries > 0)
              /\ reg'.full => pr_in # NoEntry
              /\ reg'.empty <=> (reg.num_entries = 1 \/ reg.empty)
         /\ ~remove /\ ~Rests =>
              /\ reg'.num_entries = IF reg.num_entries < REG_WIDTH THEN reg.num_entries + 1
                                    ELSE reg.num_entries
              /\ reg'.insert_ltch = NoEntry /\ reg'.calc_min_max
              /\ reg'.valid_out => reg.num_entries > 0
              /\ reg'.full <=> (reg.num_entries >= REG_WIDTH - 1)
              /\ ~reg'.empty
         /\ ~remove /\ Rests =>
              /\ reg'.slots = reg.slots /\ reg'.num_entries = reg.num_entries
              /\ reg'.insert_ltch = NoEntry /\ ~reg'.calc_min_max
              /\ reg'.valid_out <=> (reg.calc_min_max /\ reg.num_entries > 0) \/ reg.valid_out
              /\ reg'.full = reg.full /\ reg'.empty = reg.empty
         /\ reg.num_entries \in Nat /\ reg.num_entries <= REG_WIDTH
         /\ REG_WIDTH \in Nat /\ REG_WIDTH >= 2
<1>1. SlotsOK(reg) /\ RegFlags /\ PortFlags
  BY DEF PortInv
<1>2. /\ reg.num_entries \in Nat /\ reg.num_entries <= REG_WIDTH
      /\ REG_WIDTH \in Nat /\ REG_WIDTH >= 2
  BY <1>1, FilledSlots
<1>3. remove => reg.num_entries > 0 /\ ~remove_last /\ reg.insert_ltch = NoEntry
                /\ reg' = AfterRemove(reg, pr_in) /\ reg.valid_out
  BY RegFlow DEF PortStep, MayRemove
<1>4. ~remove /\ ~Rests => \E x : reg' = AfterInsert(reg, x, pr_in, remove)
  BY RegFlow DEF Rests
<1>5. ~remove /\ Rests => reg' = AfterIdle(reg, remove)
  BY RegFlow DEF Rests
<1>6. CASE remove
  <2>1. reg' = AfterRemove(reg, pr_in)
    BY <1>3, <1>6
  <2>2. /\ reg'.num_entries = reg.num_entries - 1 /\ reg'.insert_ltch = pr_in
        /\ reg'.calc_min_max
        /\ reg'.valid_out <=> ValidNext(reg, pr_in, TRUE)
        /\ reg'.full => pr_in # NoEntry
        /\ reg'.empty <=> (reg.num_entries = 1 \/ reg.empty)
    BY <2>1 DEF AfterRemove
  <2>3. ValidNext(reg, pr_in, TRUE) <=> (reg.calc_min_max /\ reg.num_entries > 0)
    BY DEF ValidNext
  <2> QED BY <1>2, <1>3, <1>6, <2>2, <2>3
<1>7. CASE ~remove /\ ~Rests
  <2>1. PICK x : reg' = AfterInsert(reg, x, pr_in, remove)
    BY <1>4, <1>7
  <2>2. reg.valid_out => reg.num_entries > 0
    BY <1>1 DEF RegFlags
  <2>3. /\ reg'.num_entries = IF reg.num_entries < REG_WIDTH THEN reg.num_entries + 1
                              ELSE reg.num_entries
        /\ reg'.insert_ltch = NoEntry /\ reg'.calc_min_max
        /\ reg'.valid_out = ValidNext(reg, pr_in, remove)
        /\ reg'.full <=> (reg.num_entries >= REG_WIDTH - 1)
        /\ ~reg'.empty
    BY <2>1 DEF AfterInsert
  <2> QED BY <1>2, <1>7, <2>2, <2>3 DEF ValidNext
<1>8. CASE ~remove /\ Rests
  <2>1. reg' = AfterIdle(reg, remove)
    BY <1>5, <1>8
  <2>2. /\ reg'.slots = reg.slots /\ reg'.num_entries = reg.num_entries
        /\ reg'.insert_ltch = reg.insert_ltch /\ ~reg'.calc_min_max
        /\ reg'.valid_out = ValidNext(reg, NoEntry, remove)
        /\ reg'.full = reg.full /\ reg'.empty = reg.empty
    BY <2>1 DEF AfterIdle
  <2> QED BY <1>2, <1>8, <2>2 DEF ValidNext, Rests
<1> QED BY <1>6, <1>7, <1>8

(* The parts of a cycle beside the RAMs. *)
LEMMA CycleFlags ==
  ASSUME PortInv, Flags, MachinesInv, NEW e, NEW remove, PortStep(e, remove)
  PROVE  /\ main_state \in {"RUN", "INSERT"}
         /\ main_state = "INSERT" <=> sl_insert \/ ins_state # "INS_IDLE"
         /\ main_state' = IF main_state = "RUN"
                          THEN IF ToList(e, remove) # NoEntry THEN "INSERT" ELSE "RUN"
                          ELSE IF (remove /\ sl_blk_ins_if_rmv) \/ insert_done THEN "RUN" ELSE "INSERT"
         /\ sl_insert' = (ToList(e, remove) # NoEntry)
         /\ sl_in' = IF ToList(e, remove) # NoEntry THEN ToList(e, remove)
                     ELSE IF main_state' = "RUN" THEN NoEntry ELSE sl_in
         /\ sl_blk_ins_if_rmv' = PassesMax(e, remove)
         /\ insert_d1' = (e # NoEntry) /\ pr_insert_d1' = (pr_in # NoEntry)
         /\ remove_last' = remove
         /\ pr_in' # NoEntry => Drops \/ (Taken(e) /\ ToRegister(e))
         /\ Drops => pr_in' = [rank |-> dout.rank, meta |-> dout.meta]
         /\ ~Drops => pr_in' = IF Taken(e) /\ ToRegister(e) THEN e ELSE NoEntry
         /\ e = NoEntry => ~Taken(e) /\ ToList(e, remove) = NoEntry /\ ~PassesMax(e, remove)
         /\ ToList(e, remove) # NoEntry => main_state = "RUN" /\ e # NoEntry
         /\ RemoveNode(e) /\ Insert_(remove) /\ Search /\ List /\ Count(e) /\ Throttle
         /\ rmv_busy' = IF rmv.state = "RMV_IDLE" THEN MayMove(e) ELSE rmv_busy
<1>1. Allowed(e, remove) /\ Main(e, remove) /\ Port(e, remove) /\ RemoveNode(e) /\ Insert_(remove)
      /\ Search /\ List /\ Count(e) /\ Throttle /\ remove_last' = remove
  BY StepAllowed, CycleParts DEF PortStep, Cycle
<1>2. /\ main_state \in {"RUN", "INSERT"}
      /\ main_state = "INSERT" <=> sl_insert \/ ins_state # "INS_IDLE"
  BY DEF Flags
<1>3. e = NoEntry => ~Taken(e) /\ ToList(e, remove) = NoEntry /\ ~PassesMax(e, remove)
  BY DEF Taken, ToList, PassesMax
<1>4. ToList(e, remove) # NoEntry => main_state = "RUN" /\ e # NoEntry
  BY DEF Taken, ToList, PassesMax
<1>5. /\ main_state' = IF main_state = "RUN"
                          THEN IF ToList(e, remove) # NoEntry THEN "INSERT" ELSE "RUN"
                          ELSE IF (remove /\ sl_blk_ins_if_rmv) \/ insert_done THEN "RUN" ELSE "INSERT"
      /\ sl_insert' = (ToList(e, remove) # NoEntry)
      /\ sl_in' = IF ToList(e, remove) # NoEntry THEN ToList(e, remove)
                  ELSE IF main_state' = "RUN" THEN NoEntry ELSE sl_in
      /\ sl_blk_ins_if_rmv' = PassesMax(e, remove)
  BY <1>1 DEF Main
<1>6. /\ insert_d1' = (e # NoEntry) /\ pr_insert_d1' = (pr_in # NoEntry)
      /\ pr_in' = IF rmv.state = "RMV_DEQ_NODE" THEN [rank |-> dout.rank, meta |-> dout.meta]
                  ELSE IF Taken(e) /\ ToRegister(e) THEN e ELSE NoEntry
  BY <1>1 DEF Port
<1>7. rmv_busy' = IF rmv.state = "RMV_IDLE" THEN MayMove(e) ELSE rmv_busy
  BY <1>1 DEF RemoveNode
<1>8. /\ pr_in' # NoEntry => Drops \/ (Taken(e) /\ ToRegister(e))
      /\ Drops => pr_in' = [rank |-> dout.rank, meta |-> dout.meta]
      /\ ~Drops => pr_in' = IF Taken(e) /\ ToRegister(e) THEN e ELSE NoEntry
  BY <1>6 DEF Drops
<1> QED BY <1>1, <1>2, <1>3, <1>4, <1>5, <1>6, <1>7, <1>8

(* Every cycle keeps the flags of the ports as they should be.             *)
LEMMA PortFlagsStep ==
  ASSUME PortInv, WholeInv, NEW e, NEW remove, PortStep(e, remove)
  PROVE  PortFlags'
<1>1. /\ Flags /\ MachinesInv /\ RegisterHolds /\ PortFlags /\ RegFlags /\ SlotsOK(reg)
      /\ remove \in BOOLEAN
  BY NewEntry DEF WholeInv, PortInv
<1>2. /\ pr_in # NoEntry =>
           /\ reg.insert_ltch = NoEntry /\ (reg.calc_min_max => remove_last)
           /\ insert_d1 \/ rmv_busy
           /\ main_state = "INSERT" \/ reg.num_entries = REG_WIDTH => Passing
      /\ reg.insert_ltch # NoEntry =>
           /\ pr_in = NoEntry /\ remove_last /\ pr_insert_d1 /\ main_state = "RUN"
           /\ reg.num_entries < REG_WIDTH /\ ~reg.valid_out
      /\ rmv.state \in {"RMV_CHK_BUSY", "RMV_WAIT_MEM_RD1", "RMV_DEQ_NODE"} =>
           /\ pr_in = NoEntry /\ ~pr_insert_d1 /\ reg.insert_ltch = NoEntry /\ ~reg.full
           /\ main_state = "RUN"
      /\ main_state = "RUN" => sl_in = NoEntry
  BY <1>1 DEF PortFlags
<1>3. e # NoEntry =>
        /\ pr_in = NoEntry /\ reg.insert_ltch = NoEntry /\ main_state = "RUN"
        /\ rmv.state = "RMV_IDLE" /\ ~Drops /\ Taken(e)
        /\ reg.full => reg.num_entries = REG_WIDTH
  BY <1>1, WhenAvailable
<1>4. Drops => pr_in = NoEntry /\ reg.insert_ltch = NoEntry /\ ~reg.full /\ main_state = "RUN"
               /\ e = NoEntry
  BY <1>2, <1>3 DEF Drops
<1>5. ToList(e, remove) # NoEntry <=> Taken(e) /\ (ToRegister(e) => PassesMax(e, remove))
  <2>1. PassesMax(e, remove) => MaxOut(reg) \in Entry
    BY <1>1, MaxOutEntry DEF PassesMax
  <2>2. Taken(e) => e # NoEntry
    BY DEF Taken
  <2> QED BY <2>1, <2>2, NoEntryAssumption DEF ToList, PassesMax
<1>6. insert_d1' \in BOOLEAN /\ pr_insert_d1' \in BOOLEAN
  BY <1>1, CycleFlags
<1>7. reg.num_entries = REG_WIDTH => reg.full
  BY <1>1 DEF RegFlags
<1>8. pr_in' # NoEntry => Rests
  BY <1>1, <1>3, <1>4, CycleFlags DEF Rests, Taken
<1>9. ASSUME pr_in' # NoEntry
      PROVE  /\ reg'.insert_ltch = NoEntry /\ (reg'.calc_min_max => remove_last')
             /\ insert_d1' \/ rmv_busy'
             /\ main_state' = "INSERT" \/ reg'.num_entries = REG_WIDTH => Passing'
  <2>1. reg'.insert_ltch = NoEntry /\ (reg'.calc_min_max => remove_last')
    <3>1. Rests
      BY <1>8, <1>9
    <3> QED BY <1>1, <3>1, RegFields, CycleFlags DEF Rests
  <2>2. insert_d1' \/ rmv_busy'
    <3>1. CASE Drops
      <4>1. rmv_busy
        BY <1>1, <3>1 DEF Drops, MachinesInv, BusyWhenAtWork
      <4> QED BY <1>1, <3>1, <4>1, CycleFlags DEF Drops
    <3>2. CASE ~Drops
      BY <1>1, <1>9, <3>2, CycleFlags DEF Taken
    <3> QED BY <3>1, <3>2
  <2>3. reg'.num_entries = REG_WIDTH => reg.num_entries = REG_WIDTH /\ ~remove
    <3>1. Rests
      BY <1>8, <1>9
    <3> QED BY <1>1, <3>1, RegFields
  <2>4. CASE Drops
    BY <1>1, <1>4, <1>7, <2>1, <2>2, <2>3, <2>4, CycleFlags
  <2>5. CASE ~Drops
    <3>1. Taken(e) /\ ToRegister(e) /\ e # NoEntry /\ main_state = "RUN"
      BY <1>1, <1>9, <2>5, CycleFlags DEF Taken
    <3>2. main_state' = "INSERT" => PassesMax(e, remove)
      BY <1>1, <1>5, <3>1, CycleFlags
    <3>3. reg'.num_entries = REG_WIDTH => PassesMax(e, remove)
      BY <1>7, <2>3, <3>1 DEF PassesMax
    <3>4. PassesMax(e, remove) => Passing'
      BY <1>1, <1>5, <3>1, CycleFlags DEF Passing
    <3> QED BY <2>1, <2>2, <3>2, <3>3, <3>4
  <2> QED BY <2>4, <2>5
<1>10. ASSUME reg'.insert_ltch # NoEntry
       PROVE  /\ pr_in' = NoEntry /\ remove_last' /\ pr_insert_d1' /\ main_state' = "RUN"
              /\ reg'.num_entries < REG_WIDTH /\ ~reg'.valid_out
  <2>1. remove /\ pr_in # NoEntry /\ ~remove_last
    BY <1>1, <1>10, RegFields
  <2>2. pr_in' = NoEntry /\ e = NoEntry
    BY <1>3, <1>8, <2>1 DEF Rests
  <2>3. main_state' = "RUN"
    <3>1. main_state = "INSERT" => sl_blk_ins_if_rmv
      BY <1>2, <2>1 DEF Passing
    <3> QED BY <1>1, <2>1, <2>2, <3>1, CycleFlags
  <2>4. ~reg.calc_min_max
    BY <1>2, <2>1
  <2>5. reg'.num_entries < REG_WIDTH /\ ~reg'.valid_out
    <3>1. /\ reg'.num_entries = reg.num_entries - 1 /\ reg.num_entries \in Nat
          /\ reg.num_entries <= REG_WIDTH /\ REG_WIDTH \in Nat
          /\ reg'.valid_out <=> (reg.calc_min_max /\ reg.num_entries > 0)
      BY <2>1, RegFields
    <3>2. reg'.num_entries < REG_WIDTH
      BY <3>1
    <3> QED BY <2>4, <3>1, <3>2
  <2>6. remove_last'
    <3>1. remove_last' = remove
      BY DEF PortStep, Cycle
    <3>2. remove
      BY <2>1
    <3> QED BY ONLY <3>1, <3>2
  <2>7. pr_insert_d1'
    BY <1>1, <2>1, CycleFlags
  <2> QED BY <2>2, <2>3, <2>5, <2>6, <2>7
<1>11. sl_insert' => insert_d1'
  BY <1>1, CycleFlags
<1>12. ASSUME Passing'
       PROVE  /\ pr_in' # NoEntry /\ reg'.num_entries = REG_WIDTH /\ sl_in' = MaxOut(reg')
              /\ pr_in'.rank < sl_in'.rank
  <2>1. PassesMax(e, remove)
    BY <1>1, <1>12, CycleFlags DEF Passing
  <2>2. Taken(e) /\ ToRegister(e) /\ reg.full /\ ~remove /\ e # NoEntry
    BY <2>1 DEF PassesMax, Taken
  <2>3. Rests /\ reg.num_entries = REG_WIDTH /\ ~Drops
    BY <1>3, <2>2 DEF Rests
  <2>4. reg'.num_entries = REG_WIDTH /\ reg'.slots = reg.slots
    BY <1>1, <2>2, <2>3, RegFields DEF Rests
  <2>5. MaxOut(reg') = MaxOut(reg)
    BY <2>4 DEF MaxOut, MaxIdx, Used
  <2>6. pr_in' = e /\ sl_in' = MaxOut(reg)
    <3>1. ToList(e, remove) = MaxOut(reg) /\ ToList(e, remove) # NoEntry
      BY <1>5, <2>1, <2>2 DEF ToList
    <3> QED BY <1>1, <2>2, <2>3, <3>1, CycleFlags
  <2>7. e.rank < MaxOut(reg).rank
    BY <2>2 DEF ToRegister, BeatsMax
  <2> QED BY <2>2, <2>4, <2>5, <2>6, <2>7
<1>13. ASSUME rmv'.state \in {"RMV_CHK_BUSY", "RMV_WAIT_MEM_RD1", "RMV_DEQ_NODE"}
       PROVE  /\ pr_in' = NoEntry /\ ~pr_insert_d1' /\ reg'.insert_ltch = NoEntry /\ ~reg'.full
              /\ main_state' = "RUN"
  <2>1. /\ rmv.state \in RemoveStates /\ RemoveNode(e) /\ StatesOK /\ BusyWhenAtWork
    BY <1>1, CycleFlags DEF MachinesInv, StatesOK
  <2>2. \/ rmv.state = "RMV_IDLE" /\ MayMove(e)
        \/ rmv.state \in {"RMV_CHK_BUSY", "RMV_WAIT_MEM_RD1"}
    <3>1. CASE rmv.state = "RMV_IDLE"
      BY <1>13, <2>1, <3>1 DEF RemoveNode, StatesOK
    <3>2. CASE rmv.state = "RMV_WAIT_MEM_RD2"
      BY <1>13, <2>1, <3>2 DEF RemoveNode, StatesOK
    <3>3. CASE rmv.state \in {"RMV_DEQ_NODE", "RMV_CONN_LEFT_TAIL"}
      BY <1>13, <2>1, <3>3 DEF RemoveNode, NextUp, NoRemoval
    <3> QED BY <2>1, <3>1, <3>2, <3>3 DEF RemoveStates
  <2>3. Rests /\ ~reg.full /\ main_state = "RUN" /\ e = NoEntry
    <3>1. CASE rmv.state = "RMV_IDLE" /\ MayMove(e)
      <4>1. /\ ~reg.full /\ e = NoEntry /\ pr_in = NoEntry /\ ~sl_insert
            /\ ~pr_insert_d1 /\ ~ins_busy
        BY <3>1 DEF MayMove, Quiet, int_busy
      <4>2. ins_state = "INS_IDLE" /\ reg.insert_ltch = NoEntry
        BY <1>2, <2>1, <4>1 DEF BusyWhenAtWork
      <4> QED BY <1>1, <4>1, <4>2, CycleFlags DEF Rests
    <3>2. CASE rmv.state \in {"RMV_CHK_BUSY", "RMV_WAIT_MEM_RD1"}
      BY <1>2, <1>3, <3>2 DEF Rests
    <3> QED BY <2>2, <3>1, <3>2
  <2>4. ~Drops
    BY <2>2 DEF Drops
  <2>5. pr_in' = NoEntry /\ ~pr_insert_d1' /\ main_state' = "RUN"
    BY <1>1, <2>3, <2>4, CycleFlags DEF Rests
  <2>6. reg'.insert_ltch = NoEntry /\ ~reg'.full
    BY <1>1, <2>3, RegFields DEF Rests
  <2> QED BY <2>5, <2>6
<1>14. main_state' = "RUN" => sl_in' = NoEntry
  BY <1>1, CycleFlags
<1> QED BY <1>6, <1>9, <1>10, <1>11, <1>12, <1>13, <1>14 DEF PortFlags

(* What a cycle makes of sl_num_entries.                                   *)
LEMMA CountStep ==
  ASSUME NEW on, NEW lv, NEW at, ListInv(on, lv, at), Flags, MachinesInv,
         NEW e, NEW remove, Allowed(e, remove)
  PROVE  /\ sl_num_entries \in Nat
         /\ sl_num_entries' = sl_num_entries + One(ins_state = "INS_CONN_NEAR") - One(Moves(e))
         /\ Moves(e) => /\ rmv.state = "RMV_CHK_BUSY" /\ sl_num_entries > 0
                        /\ rmv'.state = "RMV_WAIT_MEM_RD1" /\ ins_state = "INS_IDLE"
<1>1. /\ Count(e) /\ RemoveNode(e) /\ Books(on, lv) /\ Removing(on, lv) /\ BusyWhenAtWork
  BY CycleParts DEF ListInv, MachinesInv
<1>2. (main_state = "INSERT" /\ insert_done) <=> ins_state = "INS_CONN_NEAR"
  BY DEF Flags
<1>3. Moves(e) => /\ rmv.state = "RMV_CHK_BUSY" /\ ins_state = "INS_IDLE"
  BY <1>1 DEF Moves, BusyWhenAtWork
<1>4. Moves(e) => sl_num_entries > 0 /\ rmv'.state = "RMV_WAIT_MEM_RD1"
  BY <1>1, <1>3 DEF Removing, RemoveNode
<1> QED BY <1>1, <1>2, <1>3, <1>4 DEF Count, One, Books

(* Every cycle keeps the flags of the register as they should be.          *)
LEMMA RegFlagsStep ==
  ASSUME PortInv, WholeInv, NEW e, NEW remove, PortStep(e, remove)
  PROVE  RegFlags'
<1>1. PICK on, lv, at : ListInv(on, lv, at)
  BY DEF WholeInv, ListHolds
<1>2. /\ Flags /\ MachinesInv /\ RegisterHolds /\ RegFlags /\ remove \in BOOLEAN
      /\ Allowed(e, remove)
  BY NewEntry, StepAllowed DEF WholeInv, PortInv
<1>3. /\ reg.valid_out => reg.num_entries > 0
      /\ reg.valid_out /\ reg.calc_min_max /\ ~remove_last => reg.num_entries >= 2
      /\ reg.num_entries = REG_WIDTH => reg.full
      /\ reg.empty => reg.num_entries = 0
      /\ reg.num_entries = 0 /\ ~reg.empty => sl_num_entries = 0 /\ main_state = "RUN"
  BY <1>2 DEF RegFlags
<1>4. /\ sl_num_entries \in Nat
      /\ sl_num_entries' = sl_num_entries + One(ins_state = "INS_CONN_NEAR") - One(Moves(e))
      /\ Moves(e) => sl_num_entries > 0 /\ rmv'.state = "RMV_WAIT_MEM_RD1"
  BY <1>1, <1>2, CountStep
<1>5. /\ reg.num_entries \in Nat /\ reg.num_entries <= REG_WIDTH
      /\ REG_WIDTH \in Nat /\ REG_WIDTH >= 2
  BY RegFields
<1>51. ASSUME remove
      PROVE  /\ reg.num_entries > 0 /\ ~remove_last /\ reg.valid_out
             /\ reg'.num_entries = reg.num_entries - 1
             /\ reg'.valid_out <=> (reg.calc_min_max /\ reg.num_entries > 0)
             /\ reg'.empty <=> (reg.num_entries = 1 \/ reg.empty)
  BY <1>51, RegFields
<1>52. ASSUME ~remove, ~Rests
      PROVE  /\ reg'.num_entries = IF reg.num_entries < REG_WIDTH THEN reg.num_entries + 1
                                    ELSE reg.num_entries
             /\ reg'.valid_out => reg.num_entries > 0
             /\ reg'.full <=> (reg.num_entries >= REG_WIDTH - 1)
             /\ ~reg'.empty
  BY <1>52, RegFields
<1>53. ASSUME ~remove, Rests
      PROVE  /\ reg'.num_entries = reg.num_entries
             /\ ~reg'.calc_min_max
             /\ reg'.valid_out <=> (reg.calc_min_max /\ reg.num_entries > 0) \/ reg.valid_out
             /\ reg'.full = reg.full /\ reg'.empty = reg.empty
  BY <1>53, RegFields
<1>6. reg'.valid_out => reg'.num_entries > 0
  <2>1. CASE remove
    BY <1>3, <1>5, <2>1, <1>51
  <2>2. CASE ~remove /\ ~Rests
    BY <1>5, <2>2, <1>52
  <2>3. CASE ~remove /\ Rests
    BY <1>3, <2>3, <1>53
  <2> QED BY <2>1, <2>2, <2>3
<1>7. reg'.valid_out /\ reg'.calc_min_max /\ ~remove_last' => reg'.num_entries >= 2
  <2>1. CASE remove
    <3>1. remove_last' = remove
      BY DEF PortStep, Cycle
    <3>2. remove_last'
      BY ONLY <2>1, <3>1
    <3> QED BY <3>2
  <2>2. CASE ~remove /\ ~Rests
    BY <1>5, <2>2, <1>52
  <2>3. CASE ~remove /\ Rests
    BY <2>3, <1>53
  <2> QED BY <2>1, <2>2, <2>3
<1>8. reg'.num_entries = REG_WIDTH => reg'.full
  <2>1. CASE remove
    BY <1>5, <2>1, <1>51
  <2>2. CASE ~remove /\ ~Rests
    BY <1>5, <2>2, <1>52
  <2>3. CASE ~remove /\ Rests
    BY <1>3, <2>3, <1>53
  <2> QED BY <2>1, <2>2, <2>3
<1>9. reg'.empty => reg'.num_entries = 0
  <2>1. CASE remove
    BY <1>3, <1>5, <2>1, <1>51
  <2>2. CASE ~remove /\ ~Rests
    BY <2>2, <1>52
  <2>3. CASE ~remove /\ Rests
    BY <1>3, <2>3, <1>53
  <2> QED BY <2>1, <2>2, <2>3
<1>10. reg'.num_entries = 0 /\ ~reg'.empty => sl_num_entries' = 0 /\ main_state' = "RUN"
  <2>1. CASE remove
    BY <1>5, <2>1, <1>51
  <2>2. CASE ~remove /\ ~Rests
    BY <1>5, <2>2, <1>52
  <2>3. CASE ~remove /\ Rests
    <3>1. SUFFICES ASSUME reg'.num_entries = 0, ~reg'.empty
                   PROVE  sl_num_entries' = 0 /\ main_state' = "RUN"
      OBVIOUS
    <3>2. reg.num_entries = 0 /\ ~reg.empty
      BY <2>3, <3>1, <1>53
    <3>3. sl_num_entries = 0 /\ main_state = "RUN"
      BY <1>3, <3>2
    <3>4. ins_state # "INS_CONN_NEAR"
      BY <1>2, <3>3 DEF Flags
    <3>5. sl_num_entries' = 0
      BY <1>4, <3>3, <3>4 DEF One
    <3>6. ToList(e, remove) = NoEntry
      <4>1. CASE e = NoEntry
        BY <1>2, <4>1, CycleFlags
      <4>2. CASE e # NoEntry
        <5>1. ~reg.full
          BY <1>2, <1>5, <3>2, <4>2, WhenAvailable
        <5>2. ToRegister(e)
          BY <3>3, <5>1 DEF ToRegister
        <5> QED BY <5>1, <5>2 DEF ToList, PassesMax
      <4> QED BY <4>1, <4>2
    <3> QED BY <1>2, <3>3, <3>5, <3>6, CycleFlags
  <2> QED BY <2>1, <2>2, <2>3
<1>11. sl_num_entries' = 0 => (pr_fill_thresh' = 0 \/ rmv'.state = "RMV_WAIT_MEM_RD1")
  <2>1. CASE sl_num_entries = 0
    <3> DEFINE ranges == {i \in DOMAIN PrFillLevels :
                            /\ i = 0 \/ pow2[i - 1] <= sl_num_entries
                            /\ sl_num_entries < pow2[i]}
    <3>1. ASSUME NEW i \in DOMAIN PrFillLevels, i \in ranges
          PROVE  i = 0
      <4>1. SUFFICES ASSUME i # 0 PROVE FALSE
        OBVIOUS
      <4>2. i - 1 \in Nat
        BY <4>1, FillAssumption
      <4>3. pow2[i - 1] \in Nat \ {0}
        BY <4>2, Pow2
      <4> QED BY <2>1, <3>1, <4>1, <4>3
    <3>2. 0 \in ranges
      <4>1. pow2[0] = 1
        BY Pow2
      <4> QED BY <2>1, <4>1, FillAssumption
    <3>3. ranges = {0}
      BY <3>1, <3>2
    <3>4. pr_fill_thresh' \in IF ranges = {} THEN {pr_fill_thresh} ELSE {PrFillLevels[i] : i \in ranges}
      BY <1>2, CycleFlags DEF Throttle
    <3> HIDE DEF ranges
    <3>5. pr_fill_thresh' = PrFillLevels[0]
      BY <3>3, <3>4
    <3> QED BY <3>5, FillAssumption
  <2>2. CASE sl_num_entries # 0
    <3>1. ~Moves(e) => sl_num_entries' # 0
      BY <1>4, <2>2 DEF One
    <3> QED BY <1>4, <3>1
  <2> QED BY <2>1, <2>2
<1> QED BY <1>6, <1>7, <1>8, <1>9, <1>10, <1>11 DEF RegFlags

(* The record of the last SEL_LATENCY cycles moves on. *)
LEMMA Remembered ==
  ASSUME PortInv, NEW e, NEW remove, PortStep(e, remove)
  PROVE  /\ was_available' \in [1 .. SEL_LATENCY -> BOOLEAN]
         /\ ~Available => Unavailable(1)'
         /\ \A k \in 1 .. 5 : ~Available /\ Unavailable(k) => Unavailable(k + 1)'
<1>1. was_available \in [1 .. SEL_LATENCY -> BOOLEAN] /\ SEL_LATENCY \in Nat /\ SEL_LATENCY >= 1
  BY LatencyAssumption DEF PortInv, Lately
<1>2. was_available' = SubSeq(<<Available>> \o was_available, 1, SEL_LATENCY)
  BY DEF PortStep, Cycle
<1>3. PICK v \in BOOLEAN : v <=> Available
  OBVIOUS
<1>4. Available = v
  BY <1>3 DEF Available
<1> DEFINE n == SEL_LATENCY
           w == <<v>> \o was_available
<1>5. was_available \in Seq(BOOLEAN) /\ Len(was_available) = n
  BY <1>1
<1>6. w \in Seq(BOOLEAN) /\ Len(w) = n + 1 /\ w[1] = v
      /\ \A i \in 2 .. n + 1 : w[i] = was_available[i - 1]
  BY <1>1, <1>5
<1> HIDE DEF w
<1>7. SubSeq(w, 1, n) \in [1 .. n -> BOOLEAN] /\ \A i \in 1 .. n : SubSeq(w, 1, n)[i] = w[i]
  <2>1. Len(SubSeq(w, 1, n)) = n /\ SubSeq(w, 1, n) \in Seq(BOOLEAN)
    BY <1>1, <1>6
  <2>2. \A i \in 1 .. n : SubSeq(w, 1, n)[i] = w[i]
    BY <1>1, <1>6
  <2>3. PICK z : z = SubSeq(w, 1, n)
    OBVIOUS
  <2>4. z \in Seq(BOOLEAN) /\ Len(z) = n
    BY <2>1, <2>3
  <2>5. z \in [1 .. n -> BOOLEAN]
    BY <2>4
  <2> QED BY <2>2, <2>3, <2>5
<1>8. was_available' \in [1 .. n -> BOOLEAN] /\ \A i \in 1 .. n : was_available'[i] = w[i]
  BY <1>2, <1>4, <1>7 DEF w
<1>9. ASSUME ~v PROVE Unavailable(1)'
  BY <1>1, <1>6, <1>8, <1>9 DEF Unavailable
<1>10. ASSUME NEW k \in 1 .. 5, ~v, Unavailable(k) PROVE Unavailable(k + 1)'
  <2>1. SUFFICES ASSUME NEW i \in 1 .. n, i <= k + 1 PROVE ~was_available'[i]
    BY DEF Unavailable
  <2>2. CASE i = 1
    BY <1>6, <1>8, <1>10, <2>2
  <2>3. CASE i # 1
    <3>1. i \in 2 .. n + 1 /\ i - 1 \in 1 .. n /\ i - 1 <= k
      BY <1>1, <1>10, <2>1, <2>3
    <3>2. ~was_available[i - 1]
      BY <1>10, <3>1 DEF Unavailable
    <3> QED BY <1>6, <1>8, <3>1, <3>2
  <2> QED BY <2>2, <2>3
<1> QED BY <1>3, <1>8, <1>9, <1>10

(* Every cycle keeps the record of availability true.                      *)
LEMMA LatelyStep ==
  ASSUME PortInv, WholeInv, NEW e, NEW remove, PortStep(e, remove)
  PROVE  Lately'
<1> USE DEF s
<1>1. /\ Flags /\ MachinesInv /\ Lately
      /\ StatesOK /\ BusyWhenAtWork /\ SearchWithinInsert
  BY DEF WholeInv, PortInv, MachinesInv
<1>2. Search /\ Insert_(remove) /\ List /\ Throttle
  BY <1>1, CycleFlags
<1>3. /\ srch.state # "SRCH_IDLE" => Unavailable(1)
      /\ srch.state = "GO_DOWN" => Unavailable(2)
      /\ search_done => Unavailable(3)
      /\ ins_state = "INS_CONN_NEAR" => Unavailable(4)
      /\ get_next_node /\ ins_state = "INS_IDLE" => Unavailable(5)
  BY <1>1 DEF Lately
<1>4. ins_busy => ~Available
  BY DEF Available, busy, int_busy
<1>5. /\ ins_state # "INS_IDLE" => ins_busy
      /\ srch.state # "SRCH_IDLE" => ins_state = "INS_CONN_NEW"
      /\ start_search => ins_state = "INS_CONN_NEW"
      /\ get_next_node => ins_busy
      /\ search_done => ins_state = "INS_CONN_NEW"
  BY <1>1 DEF BusyWhenAtWork, SearchWithinInsert, Flags
<1>6. /\ ~Available => Unavailable(1)'
      /\ ~Available /\ Unavailable(1) => Unavailable(2)'
      /\ ~Available /\ Unavailable(2) => Unavailable(3)'
      /\ ~Available /\ Unavailable(3) => Unavailable(4)'
      /\ ~Available /\ Unavailable(4) => Unavailable(5)'
      /\ ~Available /\ Unavailable(5) => Unavailable(6)'
  <2>1. \A k \in 1 .. 5 : ~Available /\ Unavailable(k) => Unavailable(k + 1)'
    BY Remembered
  <2>2. 1 + 1 = 2 /\ 2 + 1 = 3 /\ 3 + 1 = 4 /\ 4 + 1 = 5 /\ 5 + 1 = 6
    OBVIOUS
  <2> QED BY <2>1, <2>2, Remembered
<1>7. srch'.state # "SRCH_IDLE" => Unavailable(1)'
  <2>1. srch.state = "SRCH_IDLE" /\ ~start_search => srch'.state = "SRCH_IDLE"
    BY <1>1, <1>2, SearchStep
  <2> QED BY <1>4, <1>5, <1>6, <2>1
<1>8. srch'.state = "GO_DOWN" => Unavailable(2)'
  <2>1. srch.state = "SRCH_IDLE" => srch'.state # "GO_DOWN"
    BY <1>1, <1>2 DEF Search, SrchIdle, NoSearch, StatesOK
  <2> QED BY <1>3, <1>4, <1>5, <1>6, <2>1
<1>9. search_done' => Unavailable(3)'
  <2>1. search_done' => srch.state = "GO_DOWN"
    BY <1>2 DEF Search
  <2> QED BY <1>3, <1>4, <1>5, <1>6, <2>1
<1>10. ins_state' = "INS_CONN_NEAR" => Unavailable(4)'
  <2>1. ins_state' = "INS_CONN_NEAR" => search_done
    BY <1>1, <1>2 DEF Insert_, StatesOK, InsertStates
  <2> QED BY <1>3, <1>4, <1>5, <1>6, <2>1
<1>11. get_next_node' /\ ins_state' = "INS_IDLE" => Unavailable(5)'
  <2>1. get_next_node' => srch.state = "SRCH_CONN_NEAR" \/ ins_state = "INS_CONN_NEAR"
    BY <1>2 DEF List
  <2>2. srch.state = "SRCH_CONN_NEAR" => ins_state' # "INS_IDLE"
    BY <1>2, <1>5 DEF Insert_
  <2> QED BY <1>3, <1>4, <1>5, <1>6, <2>1, <2>2
<1>12. full' \/ free_nodes_avail' \/ ins_busy' \/ Unavailable(SEL_LATENCY)'
  <2>1. full' \/ free_nodes_avail
    BY <1>2 DEF Throttle
  <2>2. SUFFICES ASSUME free_nodes_avail, ~free_nodes_avail', ~ins_busy'
                 PROVE  Unavailable(SEL_LATENCY)'
    BY <2>1
  <2>3. get_next_node
    <3>1. SUFFICES ASSUME ~get_next_node PROVE FALSE
      OBVIOUS
    <3>2. free' = free \cup ({free_list_in} \ {NULL})
      BY <1>2, <3>1 DEF List, FreeList
    <3>3. PICK on, lv, at : ListInv(on, lv, at)
      BY DEF WholeInv, ListHolds
    <3>4. IsFiniteSet(free')
      <4>1. IsFiniteSet(free)
        <5>1. IsFiniteSet(Nodes)
          BY FS_Interval, Addresses DEF Nodes
        <5>2. free \subseteq Nodes
          BY <3>3 DEF ListInv, Books
        <5> QED BY <5>1, <5>2, FS_Subset
      <4>2. IsFiniteSet(free \cup {free_list_in})
        BY <4>1, FS_AddElement
      <4> QED BY <3>2, <4>2, FS_Subset
    <3>5. Cardinality(free) <= Cardinality(free')
      BY <3>2, <3>4, FS_Subset
    <3>6. Cardinality(free) \in Nat /\ Cardinality(free') \in Nat /\ NUM_LVLS \in Nat
      BY <3>2, <3>4, FS_Subset, FS_CardinalityType, Addresses
    <3> QED BY <2>2, <3>5, <3>6 DEF free_nodes_avail
  <2>4. ins_state = "INS_IDLE"
    BY <1>2, <1>5, <2>2 DEF Insert_
  <2>5. Unavailable(6)'
    BY <1>3, <1>4, <1>5, <1>6, <2>3, <2>4
  <2> QED BY <2>5, LatencyAssumption DEF Unavailable
<1>13. was_available' \in [1 .. SEL_LATENCY -> BOOLEAN]
  BY Remembered
<1> QED BY <1>7, <1>8, <1>9, <1>10, <1>11, <1>12, <1>13 DEF Lately

-----------------------------------------------------------------------------
(* The invariant of the ports holds.                                       *)

(* The invariant holds at first.                                           *)
LEMMA PortInit == Init => PortInv
<1> SUFFICES ASSUME Init PROVE PortInv
  OBVIOUS
<1> USE DEF s
<1>1. /\ reg = RegInit /\ main_state = "RUN" /\ pr_in = NoEntry /\ sl_in = NoEntry
      /\ sl_insert = FALSE /\ sl_blk_ins_if_rmv = FALSE /\ insert_d1 = FALSE
      /\ pr_insert_d1 = FALSE /\ sl_num_entries = 0 /\ pr_fill_thresh = 0
      /\ ins_state = "INS_IDLE" /\ rmv = NoRemoval /\ srch = NoSearch /\ mem = InitMem
      /\ search_done = FALSE /\ get_next_node = FALSE /\ inside = {} /\ given = 0
      /\ was_available = [i \in 1 .. SEL_LATENCY |-> FALSE]
  BY DEF Init
<1>2. rmv.state = "RMV_IDLE" /\ srch.state = "SRCH_IDLE"
  BY <1>1 DEF NoRemoval, NoSearch
<1>3. /\ reg.num_entries = 0 /\ reg.insert_ltch = NoEntry /\ reg.valid_out = FALSE
      /\ reg.full = FALSE /\ reg.empty = FALSE
  BY <1>1 DEF RegInit
<1>4. SlotsOK(reg) /\ InReg = {}
  BY <1>1, RegInitSlots DEF InReg
<1>5. Carried = {}
  <2>1. ASSUME NEW x \in Nodes PROVE mem[x].meta = NoMeta
    <3>1. x \in Addr /\ x >= 2 * NUM_LVLS
      BY Addresses DEF Nodes
    <3> QED BY <1>1, <3>1 DEF InitMem, Blank
  <2> QED BY <2>1 DEF Carried
<1>6. ToReg = {} /\ ToNode = {} /\ ListEntries = {}
  BY <1>1, <1>5, EntriesListed DEF ToReg, ToNode
<1>7. Apart
  BY <1>4, <1>6 DEF Apart
<1>8. AllNumbered
  BY <1>1, <1>4, <1>6, MetasAssumption, FS_CardinalityType DEF AllNumbered, AllHeld
<1>9. CarriedOK
  <2>1. Cardinality(Carried) = 0 /\ ~Lower
    BY <1>2, <1>5, FS_EmptySet DEF Lower
  <2> QED BY <1>1, <1>5, <2>1 DEF CarriedOK, One
<1>10. Ordered
  BY <1>4, <1>6 DEF Ordered
<1>11. PortFlags
  BY <1>1, <1>2, <1>3 DEF PortFlags, Passing
<1>12. RegFlags
  BY <1>1, <1>3, RegWidthAssumption DEF RegFlags
<1>13. Lately
  <2>1. was_available \in [1 .. SEL_LATENCY -> BOOLEAN] /\ \A i \in 1 .. SEL_LATENCY : ~was_available[i]
    BY <1>1
  <2> QED BY <1>1, <1>2, <2>1 DEF Lately, Unavailable
<1> QED BY <1>4, <1>7, <1>8, <1>9, <1>10, <1>11, <1>12, <1>13 DEF PortInv

(* Every cycle keeps the invariant.                                        *)
LEMMA PortInvStep ==
  ASSUME PortInv, WholeInv, [Next]_vars
  PROVE  PortInv'
<1>1. CASE UNCHANGED vars
  <2>1. /\ UNCHANGED <<reg, pr_in, sl_in, main_state, sl_insert, sl_blk_ins_if_rmv>>
        /\ UNCHANGED <<sl_num_entries, srch, start_search, search_done, insert_done, ins_state>>
        /\ UNCHANGED <<rmv, ins_busy, rmv_busy, mem, free, get_next_node, remove_last, given>>
        /\ UNCHANGED <<insert_d1, pr_insert_d1, inside, was_available, pr_fill_thresh, full>>
    BY <1>1 DEF vars, port, main, fill, machines, list, client
  <2>2. /\ InReg' = InReg /\ ToReg' = ToReg /\ ToNode' = ToNode /\ (Passing' <=> Passing)
        /\ Carried' = Carried /\ ListEntries' = ListEntries /\ (Lower' <=> Lower)
        /\ MaxOut(reg)' = MaxOut(reg)
    BY <2>1 DEF InReg, ToReg, ToNode, Passing, Carried, ListEntries, Lower
  <2>3. SlotsOK(reg)' /\ Apart' /\ AllNumbered'
    BY <2>1, <2>2 DEF PortInv, Apart, AllNumbered, AllHeld
  <2>4. CarriedOK'
    <3>1. \A x \in Carried : EntryOf(x)' = EntryOf(x)
      BY <2>1 DEF EntryOf
    <3> QED BY <2>1, <2>2, <3>1 DEF PortInv, CarriedOK, One
  <2>5. Ordered' /\ PortFlags' /\ RegFlags'
    BY <2>1, <2>2 DEF PortInv, Ordered, PortFlags, RegFlags
  <2>6. Lately'
    BY <2>1 DEF PortInv, Lately, Unavailable, free_nodes_avail
  <2> QED BY <2>3, <2>4, <2>5, <2>6 DEF PortInv
<1>2. CASE Next
  <2>1. PICK e, remove : PortStep(e, remove)
    BY <1>2, NextIsStep DEF PortInv
  <2>2. /\ SlotsOK(reg)' /\ CarriedOK' /\ Apart'
        /\ AllHeld' = (AllHeld \ Taking(remove)) \cup ({e} \ {NoEntry})
    BY <2>1, PortFlow
  <2>3. AllNumbered' /\ Ordered' /\ PortFlags' /\ RegFlags' /\ Lately'
    BY <2>1, <2>2, NumberedStep, OrderedStep, PortFlagsStep, RegFlagsStep, LatelyStep
  <2> QED BY <2>2, <2>3 DEF PortInv
<1> QED BY <1>1, <1>2

-----------------------------------------------------------------------------
(* What SkipListPort is shown.                                             *)

(* What SkipListPort calls held is what is held in the four places. *)
LEMMA HeldIs == PortInv /\ WholeInv => View.held = AllHeld
<1> SUFFICES ASSUME PortInv, WholeInv PROVE View.held = AllHeld
  OBVIOUS
<1>1. PICK on, lv, at : ListInv(on, lv, at)
  BY DEF WholeInv, ListHolds
<1>2. Flags /\ MachinesInv /\ CarriedOK /\ PortFlags /\ SlotsOK(reg)
  BY DEF WholeInv, PortInv
<1>3. /\ main_state \in {"RUN", "INSERT"}
      /\ main_state = "INSERT" => sl_in \in Entry
      /\ main_state = "RUN" => sl_in = NoEntry
  BY <1>2 DEF Flags, PortFlags
<1>4. View.held = InReg \cup ListEntries \cup ({pr_in, sl_in} \ {NoEntry})
  BY DEF View, InReg
<1>5. ToNode \subseteq {sl_in} \ {NoEntry}
  BY <1>3, NoEntryAssumption DEF ToNode
<1>6. {sl_in} \ {NoEntry} \subseteq InReg \cup ToNode \cup ListEntries
  <2>1. CASE main_state = "RUN"
    BY <1>3, <2>1
  <2>2. CASE main_state = "INSERT" /\ ins_state = "INS_CONN_NEAR"
    <3>1. /\ new_node \in Nodes /\ Carried = Lowest(on, lv) \cup {new_node}
          /\ EntryOf(new_node) = [rank |-> sl_in.rank, meta |-> sl_in.meta]
      BY <1>1, <1>2, <2>2, WhatIsCarried
    <3>2. sl_in = [rank |-> sl_in.rank, meta |-> sl_in.meta]
      BY <1>3, <2>2 DEF Entry
    <3>3. EntryOf(new_node) \in ListEntries
      BY <3>1, EntriesListed
    <3> QED BY <3>1, <3>2, <3>3
  <2>3. CASE Passing
    <3>1. reg.num_entries = REG_WIDTH /\ sl_in = MaxOut(reg) /\ reg.insert_ltch = NoEntry
      BY <1>2, <2>3 DEF PortFlags
    <3>2. MaxOut(reg) \in InReg
      BY <1>2, <3>1, LargestInside, RegWidthAssumption
    <3> QED BY <3>1, <3>2
  <2>4. CASE main_state = "INSERT" /\ ins_state # "INS_CONN_NEAR" /\ ~Passing
    BY <2>4 DEF ToNode
  <2> QED BY <1>3, <2>1, <2>2, <2>3, <2>4
<1> QED BY <1>4, <1>5, <1>6 DEF AllHeld, ToReg

(* What is offered is in the register, settled, and smallest. *)
LEMMA OfferedLeast ==
  PortInv /\ WholeInv /\ reg.valid_out =>
    /\ MinOut(reg) \in InReg /\ MinOut(reg) # Entering /\ reg.insert_ltch = NoEntry
    /\ \A f \in AllHeld \ {Entering} : MinOut(reg).rank <= f.rank
<1> SUFFICES ASSUME PortInv, WholeInv, reg.valid_out
             PROVE  /\ MinOut(reg) \in InReg /\ MinOut(reg) # Entering /\ reg.insert_ltch = NoEntry
                    /\ \A f \in AllHeld \ {Entering} : MinOut(reg).rank <= f.rank
  OBVIOUS
<1>1. /\ SlotsOK(reg) /\ Apart /\ Ordered /\ PortFlags /\ RegFlags /\ AllHeld \subseteq Entry
  BY DEF PortInv, AllNumbered
<1>2. reg.num_entries > 0 /\ reg.insert_ltch = NoEntry
  BY <1>1 DEF RegFlags, PortFlags
<1>3. /\ SlotsTyped(reg) /\ Used(reg) = Filled(reg) /\ reg.num_entries \in Nat
      /\ REG_WIDTH \in Nat /\ REG_WIDTH >= 2
      /\ Held(reg) = {reg.slots[i] : i \in Filled(reg)}
  BY <1>1, <1>2, FilledSlots DEF SlotsOK
<1>4. 0 \in Filled(reg)
  BY <1>2, <1>3 DEF Filled, Slots
<1>5. /\ MinIdx(reg) \in Used(reg)
      /\ \A j \in Used(reg) : reg.slots[MinIdx(reg)].rank <= reg.slots[j].rank
  BY <1>3, <1>4, MinIdxSelects
<1>6. MinOut(reg) \in InReg /\ \A a \in InReg : MinOut(reg).rank <= a.rank
  BY <1>3, <1>5 DEF MinOut, InReg
<1>7. MinOut(reg) \in Entry
  BY <1>1, <1>6 DEF AllHeld
<1>8. MinOut(reg) # Entering
  <2>1. CASE ~insert_d1
    BY <1>7, <2>1, NoEntryAssumption DEF Entering
  <2>2. CASE insert_d1 /\ pr_in # NoEntry
    BY <1>1, <1>6, <2>2 DEF Entering, Apart, ToReg
  <2>3. CASE insert_d1 /\ pr_in = NoEntry
    <3>1. Entering = sl_in /\ ~Passing
      BY <1>1, <2>3 DEF Entering, PortFlags
    <3>2. SUFFICES ASSUME sl_in = MinOut(reg) PROVE FALSE
      BY <3>1
    <3>3. CASE main_state = "RUN"
      BY <1>1, <1>7, <3>2, <3>3, NoEntryAssumption DEF PortFlags
    <3>4. CASE main_state = "INSERT" /\ ins_state # "INS_CONN_NEAR"
      BY <1>1, <1>6, <3>1, <3>2, <3>4 DEF ToNode, Apart
    <3>5. CASE main_state = "INSERT" /\ ins_state = "INS_CONN_NEAR"
      <4>1. PICK on, lv, at : ListInv(on, lv, at)
        BY DEF WholeInv, ListHolds
      <4>2. Flags /\ MachinesInv /\ CarriedOK
        BY DEF WholeInv, PortInv
      <4>3. /\ new_node \in Nodes /\ Carried = Lowest(on, lv) \cup {new_node}
            /\ EntryOf(new_node) = [rank |-> sl_in.rank, meta |-> sl_in.meta]
        BY <3>5, <4>1, <4>2, WhatIsCarried
      <4>4. sl_in = [rank |-> sl_in.rank, meta |-> sl_in.meta]
        BY <1>7, <3>2 DEF Entry
      <4>5. sl_in \in ListEntries
        BY <4>3, <4>4, EntriesListed
      <4> QED BY <1>1, <1>6, <3>2, <4>5 DEF Apart
    <3>6. main_state \in {"RUN", "INSERT"}
      BY DEF WholeInv, Flags
    <3> QED BY <3>3, <3>4, <3>5, <3>6
  <2> QED BY <2>1, <2>2, <2>3
<1>9. ASSUME NEW f \in AllHeld \ {Entering} PROVE MinOut(reg).rank <= f.rank
  <2>1. CASE f \in InReg
    BY <1>6, <2>1
  <2>2. CASE f \in ToNode \cup ListEntries
    BY <1>1, <1>6, <2>2 DEF Ordered
  <2>3. CASE f \in ToReg
    <3>1. ~insert_d1
      BY <1>9, <2>3 DEF Entering, ToReg
    <3> QED BY <1>1, <1>6, <2>3, <3>1 DEF Ordered
  <2> QED BY <2>1, <2>2, <2>3 DEF AllHeld
<1> QED BY <1>2, <1>6, <1>8, <1>9

(* One entry is not counted.                                               *)
Missing ==
  \/ reg.insert_ltch # NoEntry \/ pr_in # NoEntry \/ ToNode # {}
  \/ ins_state = "INS_CONN_NEAR" \/ Lower

(* How many entries there are, and how many of them are counted.           *)
LEMMA HowMany ==
  PortInv /\ WholeInv =>
    /\ IsFiniteSet(AllHeld) /\ reg.num_entries + sl_num_entries \in Nat
    /\ Cardinality(AllHeld) = reg.num_entries + sl_num_entries + One(Missing)
    /\ ListEntries = {} => sl_num_entries = 0
<1> SUFFICES ASSUME PortInv, WholeInv
             PROVE  /\ IsFiniteSet(AllHeld) /\ reg.num_entries + sl_num_entries \in Nat
                    /\ Cardinality(AllHeld) = reg.num_entries + sl_num_entries + One(Missing)
                    /\ ListEntries = {} => sl_num_entries = 0
  OBVIOUS
<1>1. PICK on, lv, at : ListInv(on, lv, at)
  BY DEF WholeInv, ListHolds
<1>2. Flags /\ MachinesInv /\ CarriedOK /\ PortFlags /\ SlotsOK(reg) /\ Apart
  BY DEF WholeInv, PortInv
<1>3. /\ IsFiniteSet(Carried) /\ sl_num_entries \in Nat
      /\ Cardinality(Carried) = sl_num_entries + One(Lower) + One(ins_state = "INS_CONN_NEAR")
      /\ \A x, y \in Carried : EntryOf(x) = EntryOf(y) => x = y
  BY <1>1, <1>2, WhatIsCarried DEF CarriedOK
<1>4. IsFiniteSet(ListEntries) /\ Cardinality(ListEntries) = Cardinality(Carried)
  <2> DEFINE f == [x \in Carried |-> EntryOf(x)]
  <2>1. ListEntries = {f[x] : x \in Carried}
    BY EntriesListed
  <2>2. f \in [Carried -> {f[x] : x \in Carried}] /\ \A x, y \in Carried : f[x] = f[y] => x = y
    BY <1>3
  <2> HIDE DEF f
  <2> QED BY <1>3, <2>1, <2>2, SameNumber
<1>5. /\ reg.num_entries \in Nat /\ REG_WIDTH \in Nat
      /\ Held(reg) = {reg.slots[i] : i \in Filled(reg)} \cup ({reg.insert_ltch} \ {NoEntry})
      /\ Filled(reg) = 0 .. reg.num_entries - 1
  <2>1. /\ reg.num_entries \in Nat /\ reg.num_entries <= REG_WIDTH /\ REG_WIDTH \in Nat
    BY <1>2, FilledSlots
  <2>2. Filled(reg) = 0 .. reg.num_entries - 1
    BY <2>1 DEF Filled, Slots
  <2> QED BY <1>2, <2>1, <2>2, FilledSlots
<1> DEFINE S == {reg.slots[i] : i \in Filled(reg)}
<1>6. IsFiniteSet(S) /\ Cardinality(S) = reg.num_entries
  <2> DEFINE f == [i \in Filled(reg) |-> reg.slots[i]]
  <2>1. IsFiniteSet(Filled(reg)) /\ Cardinality(Filled(reg)) = reg.num_entries
    <3>1. IsFiniteSet(0 .. reg.num_entries - 1)
          /\ Cardinality(0 .. reg.num_entries - 1) =
               IF 0 > reg.num_entries - 1 THEN 0 ELSE (reg.num_entries - 1) - 0 + 1
      BY <1>5, FS_Interval
    <3> QED BY <1>5, <3>1
  <2>2. S = {f[x] : x \in Filled(reg)}
    OBVIOUS
  <2>3. f \in [Filled(reg) -> {f[x] : x \in Filled(reg)}]
        /\ \A x, y \in Filled(reg) : f[x] = f[y] => x = y
    BY <1>2 DEF SlotsOK
  <2> HIDE DEF f, S
  <2>4. IsFiniteSet({f[x] : x \in Filled(reg)})
        /\ Cardinality({f[x] : x \in Filled(reg)}) = Cardinality(Filled(reg))
    BY <2>1, <2>3, SameNumber
  <2> QED BY <2>1, <2>2, <2>4
<1>7. IsFiniteSet(InReg)
      /\ Cardinality(InReg) = reg.num_entries + One(reg.insert_ltch # NoEntry)
  <2>1. CASE reg.insert_ltch = NoEntry
    <3>1. InReg = S
      BY <1>5, <2>1 DEF InReg
    <3> HIDE DEF S
    <3> QED BY <1>5, <1>6, <2>1, <3>1 DEF One
  <2>2. CASE reg.insert_ltch # NoEntry
    <3>1. InReg = S \cup {reg.insert_ltch} /\ reg.insert_ltch \notin S
      BY <1>2, <1>5, <2>2 DEF InReg, SlotsOK
    <3> HIDE DEF S
    <3> QED BY <1>5, <1>6, <2>2, <3>1, FS_AddElement DEF One
  <2> QED BY <2>1, <2>2
<1>8. IsFiniteSet(ToReg) /\ Cardinality(ToReg) = One(pr_in # NoEntry)
  <2>1. CASE pr_in = NoEntry
    BY <2>1, FS_EmptySet DEF ToReg, One
  <2>2. CASE pr_in # NoEntry
    <3>1. ToReg = {pr_in}
      BY <2>2 DEF ToReg
    <3> QED BY <2>2, <3>1, FS_Singleton DEF One
  <2> QED BY <2>1, <2>2
<1>9. IsFiniteSet(ToNode) /\ Cardinality(ToNode) = One(ToNode # {})
  <2>1. CASE ToNode = {}
    BY <2>1, FS_EmptySet DEF One
  <2>2. CASE ToNode # {}
    <3>1. ToNode = {sl_in}
      BY <2>2 DEF ToNode
    <3> QED BY <2>2, <3>1, FS_Singleton DEF One
  <2> QED BY <2>1, <2>2
<1>10. IsFiniteSet(AllHeld)
       /\ Cardinality(AllHeld) = Cardinality(InReg) + Cardinality(ToReg) + Cardinality(ToNode)
                                    + Cardinality(ListEntries)
  BY <1>2, <1>4, <1>7, <1>8, <1>9, FourApart DEF Apart, AllHeld
<1>11. /\ main_state = "INSERT" <=> sl_insert \/ ins_state # "INS_IDLE"
       /\ sl_insert => ins_state = "INS_IDLE"
       /\ main_state = "RUN" => ToNode = {} /\ ins_state # "INS_CONN_NEAR"
       /\ Passing => ToNode = {} /\ ins_state # "INS_CONN_NEAR"
       /\ ins_state = "INS_CONN_NEAR" => ToNode = {}
  BY <1>2 DEF Flags, ToNode, Passing
<1>12. /\ reg.insert_ltch # NoEntry => pr_in = NoEntry /\ main_state = "RUN" /\ ~Lower
       /\ pr_in # NoEntry => main_state = "RUN" \/ Passing
       /\ pr_in # NoEntry => ~Lower
       /\ Lower => main_state = "RUN"
  <2>1. main_state \in {"RUN", "INSERT"}
    BY <1>2 DEF Flags
  <2> QED BY <1>2, <2>1 DEF PortFlags, Lower
<1>13. One(reg.insert_ltch # NoEntry) + One(pr_in # NoEntry) + One(ToNode # {}) + One(Lower)
         + One(ins_state = "INS_CONN_NEAR") = One(Missing)
  <2>1. CASE reg.insert_ltch # NoEntry
    BY <1>11, <1>12, <2>1 DEF One, Missing
  <2>2. CASE reg.insert_ltch = NoEntry /\ pr_in # NoEntry
    BY <1>11, <1>12, <2>2 DEF One, Missing
  <2>3. CASE reg.insert_ltch = NoEntry /\ pr_in = NoEntry /\ Lower
    BY <1>11, <1>12, <2>3 DEF One, Missing
  <2>4. CASE reg.insert_ltch = NoEntry /\ pr_in = NoEntry /\ ~Lower
    BY <1>11, <2>4 DEF One, Missing
  <2> QED BY <2>1, <2>2, <2>3, <2>4
<1>14. \A p \in BOOLEAN : One(p) \in Nat
  BY DEF One
<1>15. Cardinality(AllHeld) = reg.num_entries + sl_num_entries + One(Missing)
  <2>1. /\ One(reg.insert_ltch # NoEntry) \in Nat /\ One(pr_in # NoEntry) \in Nat
        /\ One(ToNode # {}) \in Nat /\ One(Lower) \in Nat
        /\ One(ins_state = "INS_CONN_NEAR") \in Nat
    BY DEF One
  <2>2. PICK a, b, c, d, f, n : /\ a = One(reg.insert_ltch # NoEntry) /\ b = One(pr_in # NoEntry)
                                /\ c = One(ToNode # {}) /\ d = One(Lower)
                                /\ f = One(ins_state = "INS_CONN_NEAR") /\ n = One(Missing)
    OBVIOUS
  <2>3. a \in Nat /\ b \in Nat /\ c \in Nat /\ d \in Nat /\ f \in Nat /\ a + b + c + d + f = n
    BY <1>13, <2>1, <2>2
  <2>4. /\ Cardinality(InReg) = reg.num_entries + a /\ Cardinality(ToReg) = b
        /\ Cardinality(ToNode) = c /\ Cardinality(ListEntries) = sl_num_entries + d + f
    BY <1>3, <1>4, <1>7, <1>8, <1>9, <2>2
  <2>5. Cardinality(AllHeld) = reg.num_entries + sl_num_entries + n
    BY <1>3, <1>5, <1>10, <2>3, <2>4
  <2> QED BY <2>2, <2>5
<1>16. ListEntries = {} => sl_num_entries = 0
  <2>1. SUFFICES ASSUME ListEntries = {} PROVE sl_num_entries = 0
    OBVIOUS
  <2>2. Cardinality(Carried) = 0
    BY <1>4, <2>1, FS_EmptySet
  <2>3. One(Lower) \in Nat /\ One(ins_state = "INS_CONN_NEAR") \in Nat
    BY DEF One
  <2> QED BY <1>3, <2>2, <2>3
<1> QED BY <1>3, <1>5, <1>10, <1>15, <1>16

(* SkipListPort counts as this module does.                                *)
LEMMA SameCount == ASSUME NEW S PROVE SL!Cardinality(S) = Cardinality(S)
  BY DEF SL!Cardinality, Cardinality

(* As many entries are held as were numbered, at most. *)
LEMMA NeverFull ==
  ASSUME PortInv
  PROVE  Cardinality(AllHeld) <= Cardinality(Metas)
<1> DEFINE f == [x \in AllHeld |-> x.meta]
<1>1. f \in Injection(AllHeld, Metas)
  <2>1. AllHeld \subseteq Entry /\ \A x, y \in AllHeld : x.meta = y.meta => x = y
    BY DEF PortInv, AllNumbered
  <2> QED BY <2>1 DEF Entry, Injection, IsInjective
<1> HIDE DEF f
<1> QED BY <1>1, MetasAssumption, FS_Injection DEF ExistsInjection

(* What is not counted makes the list busy, and is not what it offers. *)
LEMMA MissingBusy ==
  ASSUME PortInv, WholeInv, Missing
  PROVE  busy /\ AllHeld \ {View.head} # {}
<1>1. /\ Flags /\ BusyWhenAtWork /\ CarriedOK /\ PortFlags /\ SlotsOK(reg) /\ Apart
      /\ AllHeld \subseteq Entry
  BY DEF WholeInv, PortInv, MachinesInv, AllNumbered
<1>2. View.head = IF reg.valid_out THEN MinOut(reg) ELSE NoEntry
  BY DEF View
<1>3. View.head \in InReg \cup {NoEntry}
  BY <1>2, OfferedLeast
<1>4. NoEntry \notin AllHeld
  BY <1>1, NoEntryAssumption
<1>5. ToReg \cup ToNode \cup ListEntries # {} => AllHeld \ {View.head} # {}
  BY <1>1, <1>3, <1>4 DEF AllHeld, Apart
<1>6. CASE reg.insert_ltch # NoEntry
  <2>1. ~reg.valid_out /\ pr_insert_d1
    BY <1>1, <1>6 DEF PortFlags
  <2>2. reg.insert_ltch \in AllHeld
    BY <1>6 DEF AllHeld, InReg, Held
  <2> QED BY <1>2, <1>6, <2>1, <2>2 DEF busy, int_busy
<1>7. CASE pr_in # NoEntry
  <2>1. insert_d1 \/ rmv_busy
    BY <1>1, <1>7 DEF PortFlags
  <2>2. ToReg # {}
    BY <1>7 DEF ToReg
  <2> QED BY <1>5, <2>1, <2>2 DEF busy, int_busy
<1>8. CASE ToNode # {}
  <2>1. main_state = "INSERT"
    BY <1>8 DEF ToNode
  <2>2. sl_insert \/ ins_state # "INS_IDLE"
    BY <1>1, <2>1 DEF Flags
  <2>3. insert_d1 \/ ins_busy
    BY <1>1, <2>2 DEF PortFlags, BusyWhenAtWork
  <2> QED BY <1>5, <1>8, <2>3 DEF busy, int_busy
<1>9. CASE ins_state = "INS_CONN_NEAR" \/ Lower
  <2>1. ListEntries # {}
    <3>1. PICK on, lv, at : ListInv(on, lv, at)
      BY DEF WholeInv, ListHolds
    <3>2. IsFiniteSet(Carried) /\ sl_num_entries \in Nat
      BY <1>1, <3>1, WhatIsCarried DEF WholeInv
    <3>3. Cardinality(Carried) = sl_num_entries + One(Lower) + One(ins_state = "INS_CONN_NEAR")
      BY <1>1 DEF CarriedOK
    <3>4. Cardinality(Carried) > 0
      BY <1>9, <3>2, <3>3 DEF One
    <3>5. Carried # {}
      BY <3>4, FS_EmptySet
    <3> QED BY <3>5, EntriesListed
  <2>2. ins_busy \/ rmv_busy
    BY <1>1, <1>9 DEF BusyWhenAtWork, Lower
  <2> QED BY <1>5, <2>1, <2>2 DEF busy, int_busy
<1> QED BY <1>6, <1>7, <1>8, <1>9 DEF Missing

(* The parts of what SkipListPort allows, one by one. *)
LEMMA AcceptedIs ==
  ASSUME PortInv, WholeInv, NEW e, NEW remove, PortStep(e, remove)
  PROVE  /\ SL!Accepted(View, e) = {e} \ {NoEntry}
         /\ SL!AfterPorts(View, e, remove) = (AllHeld \ Taking(remove)) \cup ({e} \ {NoEntry})
<1>1. View.busy = busy /\ View.held = AllHeld
      /\ View.head = IF reg.valid_out THEN MinOut(reg) ELSE NoEntry
  <2>1. View.busy = busy /\ View.head = IF reg.valid_out THEN MinOut(reg) ELSE NoEntry
    BY DEF View
  <2> QED BY <2>1, HeldIs
<1>2. ~SL!SlFull(View)
  <2>1. /\ Cardinality(AllHeld) \in Nat /\ Cardinality(Metas) \in Nat
        /\ Cardinality(AllHeld) <= Cardinality(Metas)
    BY HowMany, NeverFull, MetasAssumption, FS_CardinalityType
  <2>2. ~(Cardinality(AllHeld) >= Cardinality(Metas) + 1)
    BY <2>1
  <2>3. View.held = AllHeld
    BY HeldIs
  <2>4. SL!SlFull(View) <=> Cardinality(View.held) >= Cardinality(Metas) + 1
    BY SameCount DEF SL!SlFull
  <2> QED BY <2>2, <2>3, <2>4
<1>3. e # NoEntry => ~busy
  BY DEF PortStep, MayInsert, Available
<1>4. SL!Accepted(View, e) = {e} \ {NoEntry}
  BY <1>1, <1>2, <1>3 DEF SL!Accepted
<1>5. remove => View.head = MinOut(reg)
  BY <1>1 DEF PortStep, MayRemove
<1>6. SL!AfterPorts(View, e, remove) = (AllHeld \ Taking(remove)) \cup ({e} \ {NoEntry})
  BY <1>1, <1>4, <1>5 DEF SL!AfterPorts, Taking
<1> QED BY <1>4, <1>6

(* The count lags by one at most, and only while the list is busy.         *)
LEMMA NumAllowed ==
  ASSUME PortInv, WholeInv, NEW e, NEW remove, PortStep(e, remove)
  PROVE  num_entries' \in SL!NumNext(View)
<1>1. num_entries' = reg.num_entries + sl_num_entries
  BY DEF PortStep, Cycle, Port
<1>2. View.busy = busy /\ View.held = AllHeld
  <2>1. View.busy = busy
    BY DEF View
  <2> QED BY <2>1, HeldIs
<1>3. Missing => busy /\ AllHeld \ {View.head} # {}
  BY MissingBusy
<1>4. /\ reg.num_entries + sl_num_entries \in Nat
      /\ Cardinality(AllHeld) = reg.num_entries + sl_num_entries + One(Missing)
  BY HowMany
<1>5. SL!NumNext(View) =
        IF busy /\ AllHeld \ {View.head} # {}
        THEN {Cardinality(AllHeld) - 1, Cardinality(AllHeld)} ELSE {Cardinality(AllHeld)}
  <2>1. SL!NumNext(View) =
          IF View.busy /\ View.held \ {View.head} # {}
          THEN {Cardinality(View.held) - 1, Cardinality(View.held)} ELSE {Cardinality(View.held)}
    BY SameCount DEF SL!NumNext
  <2> QED BY <1>2, <2>1
<1>6. CASE Missing
  <2>1. num_entries' = Cardinality(AllHeld) - 1
    BY <1>1, <1>4, <1>6 DEF One
  <2> QED BY <1>3, <1>5, <1>6, <2>1
<1>7. CASE ~Missing
  <2>1. num_entries' = Cardinality(AllHeld)
    BY <1>1, <1>4, <1>7 DEF One
  <2> QED BY <1>5, <2>1
<1> QED BY <1>6, <1>7

(* The list is busy after an insert, and ends being so when nothing is     *)
(* left.                                                                   *)
LEMMA BusyAllowed ==
  ASSUME PortInv, WholeInv, NEW e, NEW remove, PortStep(e, remove)
  PROVE  busy' \in SL!BusyNext(View, e, remove)
<1>1. Flags /\ MachinesInv /\ PortFlags /\ RegFlags /\ BusyWhenAtWork /\ Apart
  BY DEF WholeInv, PortInv, MachinesInv
<1>2. /\ SL!Accepted(View, e) = {e} \ {NoEntry}
      /\ SL!AfterPorts(View, e, remove) = (AllHeld \ Taking(remove)) \cup ({e} \ {NoEntry})
  BY AcceptedIs
<1>3. View.busy = busy
  BY DEF View
<1>4. busy' \in BOOLEAN
  BY DEF busy
<1>5. CASE e # NoEntry
  <2>1. insert_d1'
    BY <1>1, <1>5, CycleFlags
  <2>2. busy'
    BY <2>1 DEF busy, int_busy
  <2>3. SL!Accepted(View, e) # {}
    BY <1>2, <1>5
  <2>4. SL!BusyNext(View, e, remove) = {TRUE}
    BY <2>3 DEF SL!BusyNext
  <2> QED BY <1>4, <2>2, <2>4
<1>6. CASE e = NoEntry /\ (busy \/ AllHeld \ Taking(remove) # {})
  <2>1. SL!BusyNext(View, e, remove) = BOOLEAN
    BY <1>2, <1>3, <1>6 DEF SL!BusyNext
  <2> QED BY <1>4, <2>1
<1>7. CASE e = NoEntry /\ ~busy /\ AllHeld \ Taking(remove) = {}
  <2>1. ~ins_busy /\ ~insert_d1 /\ ~pr_insert_d1 /\ ~rmv_busy
    BY <1>7 DEF busy, int_busy
  <2>2. ins_state = "INS_IDLE" /\ rmv.state = "RMV_IDLE" /\ ~sl_insert /\ pr_in = NoEntry
    BY <1>1, <2>1 DEF BusyWhenAtWork, PortFlags
  <2>3. sl_num_entries = 0
    <3>1. Taking(remove) \subseteq InReg
      BY RegFlow
    <3>2. ListEntries = {}
      BY <1>1, <1>7, <3>1 DEF AllHeld, Apart
    <3> QED BY <3>2, HowMany
  <2>4. pr_fill_thresh = 0
    BY <1>1, <2>2, <2>3 DEF RegFlags
  <2>5. ~ins_busy'
    BY <1>1, <2>2, CycleFlags DEF Insert_, Starts
  <2>6. ~insert_d1' /\ ~pr_insert_d1'
    BY <1>1, <1>7, <2>2, CycleFlags
  <2>7. ~rmv_busy'
    <3>1. rmv_busy' = MayMove(e)
      BY <1>1, <2>2, CycleFlags
    <3>2. ~MayMove(e)
      BY <2>3 DEF MayMove
    <3> QED BY <3>1, <3>2
  <2>8. ~pr_fill_busy'
    <3>1. pr_fill_busy' = (reg.num_entries < pr_fill_thresh)
      BY <1>1, CycleFlags DEF Throttle
    <3>2. ~(reg.num_entries < pr_fill_thresh)
      <4>1. reg.num_entries \in Nat
        BY <1>1, FilledSlots DEF PortInv
      <4> QED BY <2>4, <4>1
    <3> QED BY ONLY <3>1, <3>2
  <2>9. ~busy'
    BY <2>5, <2>6, <2>7, <2>8 DEF busy, int_busy
  <2>10. SL!BusyNext(View, e, remove) = {FALSE}
    BY <1>2, <1>3, <1>7 DEF SL!BusyNext
  <2> QED BY <1>4, <2>9, <2>10
<1> QED BY <1>5, <1>6, <1>7

(* What was given in this cycle is still to be placed.                     *)
LEMMA FreshAllowed ==
  ASSUME PortInv, WholeInv, NEW e, NEW remove, PortStep(e, remove)
  PROVE  Entering' \in SL!FreshNext(View, e, busy')
<1>1. Flags /\ MachinesInv /\ RegisterHolds
  BY DEF WholeInv
<1>2. SL!Accepted(View, e) = {e} \ {NoEntry}
  BY AcceptedIs
<1>3. CASE e = NoEntry
  <2>1. ~insert_d1'
    BY <1>1, <1>3, CycleFlags
  <2>2. Entering' = NoEntry
    BY <2>1 DEF Entering
  <2>3. NoEntry \in SL!FreshNext(View, e, busy')
    BY <1>2, <1>3 DEF SL!FreshNext
  <2> QED BY <2>2, <2>3
<1>4. CASE e # NoEntry
  <2>1. insert_d1' /\ ~Drops /\ Taken(e)
    BY <1>1, <1>4, CycleFlags, WhenAvailable
  <2>2. Entering' = e
    <3>1. CASE ToRegister(e)
      <4>1. pr_in' = e
        BY <1>1, <2>1, <3>1, CycleFlags
      <4> QED BY <1>4, <2>1, <4>1 DEF Entering
    <3>2. CASE ~ToRegister(e)
      <4>1. pr_in' = NoEntry
        BY <1>1, <2>1, <3>2, CycleFlags
      <4>2. ToList(e, remove) = e
        BY <2>1, <3>2 DEF ToList, PassesMax
      <4>3. sl_in' = e
        BY <1>1, <1>4, <4>2, CycleFlags
      <4> QED BY <2>1, <4>1, <4>3 DEF Entering
    <3> QED BY <3>1, <3>2
  <2>3. SL!FreshNext(View, e, busy') = {e}
    BY <1>2, <1>4 DEF SL!FreshNext
  <2> QED BY <2>2, <2>3
<1> QED BY <1>3, <1>4

(* What is offered is a smallest of the entries whose place is found, and  *)
(* stays on offer while the list is not busy.                              *)
LEMMA HeadAllowed ==
  ASSUME PortInv, WholeInv, PortInv', WholeInv', NEW e, NEW remove, PortStep(e, remove)
  PROVE  (View.head)' \in SL!HeadNext(View, remove, AllHeld' \ {Entering'})
<1>1. View.busy = busy /\ View.head = IF reg.valid_out THEN MinOut(reg) ELSE NoEntry
  BY DEF View
<1>2. (View.head)' = IF reg'.valid_out THEN MinOut(reg') ELSE NoEntry
  BY DEF View
<1>3. CASE ~busy /\ ~remove /\ View.head # NoEntry
  <2>1. SL!HeadNext(View, remove, AllHeld' \ {Entering'}) = {View.head}
    BY <1>1, <1>3 DEF SL!HeadNext
  <2>2. reg.valid_out /\ View.head = MinOut(reg)
    BY <1>1, <1>3
  <2>3. ~insert_d1 /\ ~pr_insert_d1 /\ ~rmv_busy
    BY <1>3 DEF busy, int_busy
  <2>4. pr_in = NoEntry /\ reg.insert_ltch = NoEntry
    BY <2>3 DEF PortInv, PortFlags
  <2>5. reg'.slots = reg.slots /\ reg'.num_entries = reg.num_entries /\ reg'.valid_out
    BY <1>3, <2>2, <2>4, RegFields DEF Rests
  <2>6. MinOut(reg') = MinOut(reg)
    BY <2>5 DEF MinOut, MinIdx, Used
  <2> QED BY <1>2, <2>1, <2>2, <2>5, <2>6
<1>4. CASE ~(~busy /\ ~remove /\ View.head # NoEntry)
  <2>1. SL!HeadNext(View, remove, AllHeld' \ {Entering'})
          = {NoEntry} \cup SL!LeastRank(AllHeld' \ {Entering'})
    BY <1>1, <1>4 DEF SL!HeadNext
  <2>2. CASE ~reg'.valid_out
    BY <1>2, <2>1, <2>2
  <2>3. CASE reg'.valid_out
    <3>1. (PortInv /\ WholeInv /\ reg.valid_out =>
             /\ MinOut(reg) \in InReg /\ MinOut(reg) # Entering /\ reg.insert_ltch = NoEntry
             /\ \A f \in AllHeld \ {Entering} : MinOut(reg).rank <= f.rank)'
      BY OfferedLeast, PTL
    <3>2. /\ MinOut(reg') \in InReg' /\ MinOut(reg') # Entering'
          /\ \A f \in AllHeld' \ {Entering'} : MinOut(reg').rank <= f.rank
      BY <2>3, <3>1
    <3>3. MinOut(reg') \in AllHeld' \ {Entering'}
      BY <3>2 DEF AllHeld
    <3>4. MinOut(reg') \in SL!LeastRank(AllHeld' \ {Entering'})
      BY <3>2, <3>3 DEF SL!LeastRank
    <3> QED BY <1>2, <2>1, <2>3, <3>4
  <2> QED BY <2>2, <2>3
<1> QED BY <1>3, <1>4

(* Every cycle is one that SkipListPort allows.                            *)
LEMMA PortSimulates ==
  ASSUME PortInv, WholeInv, PortInv', WholeInv', NEW e, NEW remove, PortStep(e, remove)
  PROVE  View' \in SL!SlNext(View, Given, remove_last')
<1>1. Given = e /\ remove_last' = remove
  <2>1. remove_last' = remove
    BY CycleFlags DEF WholeInv
  <2> QED BY <2>1, GivenIs
<1>2. AllHeld' = SL!AfterPorts(View, e, remove)
  <2>1. AllHeld' = (AllHeld \ Taking(remove)) \cup ({e} \ {NoEntry})
    BY PortFlow
  <2> QED BY <2>1, AcceptedIs
<1>3. (View.held)' = AllHeld'
  <2>1. (PortInv /\ WholeInv => View.held = AllHeld)'
    BY HeldIs, PTL
  <2> QED BY <2>1
<1>4. View' = [held |-> AllHeld', fresh |-> Entering', head |-> (View.head)', busy |-> busy',
               num |-> num_entries']
  BY <1>3 DEF View
<1>5. /\ busy' \in SL!BusyNext(View, e, remove)
      /\ Entering' \in SL!FreshNext(View, e, busy')
      /\ num_entries' \in SL!NumNext(View)
  BY BusyAllowed, FreshAllowed, NumAllowed
<1>6. (View.head)' \in SL!HeadNext(View, remove, AllHeld' \ {Entering'})
  BY HeadAllowed
<1>7. View' \in SL!ListsWith(View, e, remove, busy', Entering')
  <2>1. SL!ListsWith(View, e, remove, busy', Entering') =
          {[held |-> AllHeld', fresh |-> Entering', head |-> h, busy |-> busy', num |-> n] :
             h \in SL!HeadNext(View, remove, AllHeld' \ {Entering'}), n \in SL!NumNext(View)}
    BY <1>2 DEF SL!ListsWith
  <2> QED BY <1>4, <1>5, <1>6, <2>1
<1>8. View' \in SL!SlNext(View, e, remove)
  BY <1>5, <1>7 DEF SL!SlNext
<1> QED BY <1>1, <1>8

(* Seen through its ports the list is the one of SkipListPort: what is     *)
(* given to it is held until it is removed, and what it offers, counts and *)
(* says of busy is what pifo_top.v may rely on.                            *)
THEOREM ListImplementsPort == Spec => ImplementsPort
<1>1. Init => WholeInv /\ PortInv
  BY WholeInit, PortInit
<1>2. WholeInv /\ PortInv /\ [Next]_vars => WholeInv' /\ PortInv'
  BY WholeStep, PortInvStep
<1>3. /\ WholeInv /\ PortInv /\ WholeInv' /\ PortInv' /\ [Next]_vars
      => [View' \in SL!SlNext(View, Given, remove_last')]_vars
  <2>1. ASSUME WholeInv, PortInv, WholeInv', PortInv', Next
        PROVE  View' \in SL!SlNext(View, Given, remove_last')
    <3>1. PICK e, remove : PortStep(e, remove)
      BY <2>1, NextIsStep DEF PortInv
    <3> QED BY <2>1, <3>1, PortSimulates
  <2> QED BY <2>1
<1> QED BY <1>1, <1>2, <1>3, PTL DEF Spec, ImplementsPort
=============================================================================

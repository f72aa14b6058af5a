------------------------------ MODULE PifoTop ------------------------------
(***************************************************************************)
(* pifo_top.v: a pifo_reg holding the entries that leave next, and skip    *)
(* lists behind it holding the rest.  One step is one clock cycle: the     *)
(* insertion machine (ifsm), the refill machine, the register, the skip    *)
(* lists and the two selection pipelines all step together, on the values  *)
(* the registers had before the edge.                                      *)
(*                                                                         *)
(* The clients drive it as simple_tm_sl_drop.v does: insert only while     *)
(* busy and full are low, remove only while valid_out is high and not in   *)
(* two cycles in a row.  The timestamp that travels in the low bits of the *)
(* meta data is left out; where it breaks a tie the choice is open.        *)
(***************************************************************************)
EXTENDS PifoRegCore, FiniteSets, Sequences

CONSTANTS NUM_SKIP_LISTS, SL_SIZE

ASSUME NumSkipListsAssumption == NUM_SKIP_LISTS \in Nat \ {0}
ASSUME SlSizeAssumption == SL_SIZE \in Nat \ {0}

VARIABLES
  reg,              \* pifo_reg_top
  sls,              \* the skip lists
  enq_sel,          \* selection pipeline for inserts, oldest selection last
  deq_sel,          \* selection pipeline for removals, oldest selection last
  ifsm,             \* ifsm_state
  in_r,             \* rank_in_r, meta_in_r
  refill,           \* refill_state
  rep_r,            \* rep_rank_r, rep_meta_r
  pr_insert_last_r,
  remove_last,      \* the client removed in the last cycle
  inside,           \* entries accepted and not yet removed by the client
  misfiled          \* an insert found pifo_reg_top full of smaller ranks

vars == <<reg, sls, enq_sel, deq_sel, ifsm, in_r, refill, rep_r,
          pr_insert_last_r, remove_last, inside, misfiled>>

SL == INSTANCE SkipListPort

SkipLists == 0 .. NUM_SKIP_LISTS - 1
NoSl == NUM_SKIP_LISTS   \* a selection that is not valid

(* One pipeline stage per level of comparators, and one for the result. *)
NUM_LEVELS == 1 + CHOOSE n \in 0 .. NUM_SKIP_LISTS :
                    /\ 2^n >= NUM_SKIP_LISTS
                    /\ \A m \in 0 .. n - 1 : 2^m < NUM_SKIP_LISTS
SelDepth == NUM_LEVELS + 1

Init ==
  /\ reg = RegInit
  /\ sls = [k \in SkipLists |-> SL!SlInit]
  /\ enq_sel = [d \in 1 .. SelDepth |-> NoSl]
  /\ deq_sel = [d \in 1 .. SelDepth |-> NoSl]
  /\ ifsm = "IFSM_IDLE"
  /\ in_r = NoEntry
  /\ refill = "WAIT_VALID"
  /\ rep_r = NoEntry
  /\ pr_insert_last_r = FALSE
  /\ remove_last = FALSE
  /\ inside = {}
  /\ misfiled = FALSE

-----------------------------------------------------------------------------
(* The comparator trees on the lists' outputs of this cycle. *)
Available == {k \in SkipLists : ~sls[k].busy /\ ~SL!SlFull(sls[k])}
Offering == {k \in SkipLists : sls[k].head # NoEntry}

EnqSelNext ==
  IF Available = {} THEN {NoSl}
  ELSE {k \in Available : \A j \in Available :
          \/ sls[k].num < sls[j].num
          \/ sls[k].num = sls[j].num /\ k <= j}

DeqSelNext ==
  IF Offering = {} THEN {NoSl}
  ELSE {k \in Offering : \A j \in Offering :
          sls[k].head.rank <= sls[j].head.rank}

final_enq_sel == enq_sel[SelDepth]
final_deq_sel == deq_sel[SelDepth]

-----------------------------------------------------------------------------
(* The combinational outputs. *)
pr_max_valid == reg.valid_out
full == reg.full /\ \A k \in SkipLists : SL!SlFull(sls[k])
insert_unknown == reg.num_entries # 0 /\ ~pr_max_valid

(* Mutant: busy does not wait for the register's maximum. *)
busyTooShort == ifsm # "IFSM_IDLE" \/ final_enq_sel = NoSl

busy == ifsm # "IFSM_IDLE" \/ final_enq_sel = NoSl \/ insert_unknown
sl_empty == \A k \in SkipLists : sls[k].num = 0

insert_reg(e) ==
  \/ pr_max_valid /\ e.rank < MaxOut(reg).rank
  \/ sl_empty /\ ~reg.full

(* Where an entry on the insert port, or one being searched for, goes. *)
Destination(e) ==
  IF insert_reg(e) THEN "INSERT_REG"
  ELSE IF insert_unknown THEN "INSERT_SEARCH" ELSE "INSERT_SL"

-----------------------------------------------------------------------------
(* The insertion machine. *)

(* Mutant: an insert also waits for the refill machine. *)
DirectInsertYields ==
  ifsm = "INSERT_REG" /\ ~pr_insert_last_r /\ refill = "WAIT_VALID"

DirectInsert == ifsm = "INSERT_REG" /\ ~pr_insert_last_r
Kick(remove) == DirectInsert /\ reg.full /\ ~remove

SlInsertReady ==
  /\ ifsm = "INSERT_SL"
  /\ final_enq_sel # NoSl
  /\ final_enq_sel \in Available

IfsmNext(insert, remove) ==
  CASE ifsm = "IFSM_IDLE" ->
         IF insert = NoEntry THEN ifsm ELSE Destination(insert)
    [] ifsm = "INSERT_REG" ->
         IF Kick(remove) THEN "INSERT_SL"
         ELSE IF DirectInsert THEN "IFSM_IDLE" ELSE ifsm
    [] ifsm = "INSERT_SEARCH" -> Destination(insert)
    [] ifsm = "INSERT_SL" -> IF SlInsertReady THEN "IFSM_IDLE" ELSE ifsm

(* rank_in_r and meta_in_r, forgotten here once they are dead. *)
InNext(insert, remove) ==
  IF ifsm = "IFSM_IDLE" THEN insert
  ELSE IF Kick(remove) THEN MaxOut(reg)
  ELSE IF DirectInsert \/ SlInsertReady THEN NoEntry ELSE in_r

-----------------------------------------------------------------------------
(* The refill machine.  pr_full here is the full port of the register. *)
Fetch ==
  /\ refill = "WAIT_VALID"
  /\ final_deq_sel # NoSl
  /\ final_deq_sel \in Offering

(* Mutant: a refill may follow an insert in the next cycle. *)
WriteBackAtOnce ==
  /\ refill = "WRITE_REG"
  /\ ~reg.full
  /\ ifsm # "INSERT_REG"

(* Mutant: a refill waits for the insertion machine to be idle. *)
WriteBackWhenIdle ==
  /\ refill = "WRITE_REG"
  /\ ~reg.full
  /\ ifsm = "IFSM_IDLE"
  /\ ~pr_insert_last_r

WriteBack ==
  /\ refill = "WRITE_REG"
  /\ ~reg.full
  /\ ifsm # "INSERT_REG"
  /\ ~pr_insert_last_r

RefillNext ==
  IF Fetch THEN "WRITE_REG" ELSE IF WriteBack THEN "WAIT_VALID" ELSE refill

RepNext ==
  IF Fetch THEN sls[final_deq_sel].head
  ELSE IF WriteBack THEN NoEntry ELSE rep_r

pr_insert ==
  IF DirectInsert THEN in_r ELSE IF WriteBack THEN rep_r ELSE NoEntry

sl_insert(k) == IF SlInsertReady /\ k = final_enq_sel THEN in_r ELSE NoEntry
sl_remove(k) == Fetch /\ k = final_deq_sel

SlsNext ==
  {f \in [SkipLists -> UNION {SL!SlNext(sls[k], sl_insert(k), sl_remove(k)) :
                                k \in SkipLists}] :
     \A k \in SkipLists :
        f[k] \in SL!SlNext(sls[k], sl_insert(k), sl_remove(k))}

-----------------------------------------------------------------------------
(* The clients, see simple_tm_sl_drop.v. *)
MayInsert(e) == ~busy /\ ~full /\ \A f \in inside : f.meta # e.meta
MayRemove == reg.valid_out /\ ~remove_last

(* One clock edge with this entry, or NoEntry, on the insert port. *)
Edge(insert, remove) ==
  /\ reg' = RegNext(reg, pr_insert, remove)
  /\ sls' \in SlsNext
  /\ enq_sel' \in {<<n>> \o SubSeq(enq_sel, 1, SelDepth - 1) : n \in EnqSelNext}
  /\ deq_sel' \in {<<n>> \o SubSeq(deq_sel, 1, SelDepth - 1) : n \in DeqSelNext}
  /\ ifsm' = IfsmNext(insert, remove)
  /\ in_r' = InNext(insert, remove)
  /\ refill' = RefillNext
  /\ rep_r' = RepNext
  /\ pr_insert_last_r' = (pr_insert # NoEntry)
  /\ remove_last' = remove
  /\ inside' = (inside \ (IF remove THEN {MinOut(reg)} ELSE {}))
                 \cup ({insert} \ {NoEntry})
  /\ misfiled' = (misfiled \/ (Kick(remove) /\ in_r.rank >= MaxOut(reg).rank))

Insert(e) == MayInsert(e) /\ Edge(e, FALSE)
Remove == MayRemove /\ Edge(NoEntry, TRUE)
RemoveInsert(e) == MayRemove /\ MayInsert(e) /\ Edge(e, TRUE)
Idle == Edge(NoEntry, FALSE)

Next == Remove \/ Idle \/ \E e \in Entry : Insert(e) \/ RemoveInsert(e)

Spec == Init /\ [][Next]_vars

(* What is claimed ends with the first misfiled insert: behaviours rest    *)
(* there.                                                                  *)
SpecUntilMisfiled ==
  Init /\ [][(~misfiled /\ Next) \/ (misfiled /\ UNCHANGED vars)]_vars

(* The clock keeps ticking. *)
FairSpec == SpecUntilMisfiled /\ WF_vars(~misfiled /\ Next)

-----------------------------------------------------------------------------
(* What module PifoReg assumes of the client of a pifo_reg is what the two *)
(* machines of pifo_top guarantee: they share one insert port and never    *)
(* use it in two cycles in a row, so that every announcement the register  *)
(* makes stays true.                                                       *)
R == INSTANCE PifoReg WITH popped <- NoEntry, displaced <- NoEntry
RegisterSafe == R!FullExact /\ R!LatchSafe /\ R!ValidMeansEntry /\ R!NeverStuck

(* A client that obeys busy never brings the insertion machine into the    *)
(* state whose comparison uses the wrong rank.                             *)
NeverSearching == ifsm # "INSERT_SEARCH"

(* The places an entry can be in, each with what is there. *)
InFlight == IF ifsm = "IFSM_IDLE" THEN {} ELSE {in_r}
InRefill == IF refill = "WRITE_REG" THEN {rep_r} ELSE {}
Places ==
  [p \in 0 .. NUM_SKIP_LISTS + 2 |->
     IF p < NUM_SKIP_LISTS THEN sls[p].held
     ELSE IF p = NUM_SKIP_LISTS THEN Held(reg)
     ELSE IF p = NUM_SKIP_LISTS + 1 THEN InFlight ELSE InRefill]

(* Every entry the client gave and has not got back is in exactly one      *)
(* place.                                                                  *)
Conserved ==
  /\ inside = UNION {Places[p] : p \in DOMAIN Places}
  /\ \A p, q \in DOMAIN Places : p # q => Places[p] \cap Places[q] = {}

(* Entries are lost or doubled only after an insert found the register     *)
(* full of smaller ranks.                                                  *)
LossOnlyByMisfiling == ~misfiled => Conserved

(* The two machines share the insert port fairly: an entry fetched from a  *)
(* skip list gets into the register as long as there is room for it, and   *)
(* an entry on its way into the register is not held up by refills.        *)
RefillNotStarved ==
  refill = "WRITE_REG" ~> (refill = "WAIT_VALID" \/ reg.full)
InsertNotStarved == ifsm = "INSERT_REG" ~> ifsm # "INSERT_REG"

(* The comment on the insertion machine: an entry goes into a full         *)
(* pifo_reg only when it is smaller than the current maximum, which then   *)
(* moves to the skip lists.                                                *)
KickOnlyLarger ==
  DirectInsert /\ reg.full => in_r.rank < MaxOut(reg).rank
=============================================================================

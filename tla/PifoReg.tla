------------------------------ MODULE PifoReg ------------------------------
(***************************************************************************)
(* pifo_reg.v on its own, driven the way its clients drive it: no insert   *)
(* in the cycle after an insert (pr_insert_last_r of pifo_top.v), a remove *)
(* only while valid_out is high and never in two cycles in a row (the      *)
(* packet storage needs several cycles for a packet, the refill machine    *)
(* alternates between WAIT_VALID and WRITE_REG), and meta data that no     *)
(* entry inside carries already (a packet's pointers are not handed out    *)
(* again before it leaves).                                                *)
(* popped and displaced record what leaves the register in a cycle: what   *)
(* the remover reads from rank_out and meta_out, and what an insert into a *)
(* full register pushes out.                                               *)
(***************************************************************************)
EXTENDS PifoRegCore, FiniteSets

VARIABLES
  reg,               \* the register, see PifoRegCore
  pr_insert_last_r,  \* the client inserted in the last cycle
  remove_last,       \* the client removed in the last cycle
  popped,
  displaced

vars == <<reg, pr_insert_last_r, remove_last, popped, displaced>>

Init ==
  /\ reg = RegInit
  /\ pr_insert_last_r = FALSE
  /\ remove_last = FALSE
  /\ popped = NoEntry
  /\ displaced = NoEntry

FreshEntry(e) == \A f \in Held(reg) : f.meta # e.meta

MayInsert(e) == ~pr_insert_last_r /\ FreshEntry(e)
MayRemove == reg.valid_out /\ ~remove_last

Insert(e) ==
  /\ MayInsert(e)
  /\ reg' = RegNext(reg, e, FALSE)
  /\ pr_insert_last_r' = TRUE
  /\ remove_last' = FALSE
  /\ popped' = NoEntry
  /\ displaced' = IF ~reg.full THEN NoEntry
                  ELSE IF e.rank < MaxOut(reg).rank THEN MaxOut(reg) ELSE e

Remove ==
  /\ MayRemove
  /\ reg' = RegNext(reg, NoEntry, TRUE)
  /\ pr_insert_last_r' = FALSE
  /\ remove_last' = TRUE
  /\ popped' = MinOut(reg)
  /\ displaced' = NoEntry

RemoveInsert(e) ==
  /\ MayRemove /\ MayInsert(e)
  /\ reg' = RegNext(reg, e, TRUE)
  /\ pr_insert_last_r' = TRUE
  /\ remove_last' = TRUE
  /\ popped' = MinOut(reg)
  /\ displaced' = NoEntry

Idle ==
  /\ reg' = RegNext(reg, NoEntry, FALSE)
  /\ pr_insert_last_r' = FALSE
  /\ remove_last' = FALSE
  /\ popped' = NoEntry
  /\ displaced' = NoEntry

Next ==
  \/ Remove
  \/ Idle
  \/ \E e \in Entry : Insert(e) \/ RemoveInsert(e)

Spec == Init /\ [][Next]_vars

-----------------------------------------------------------------------------
(* The record has the shape the ports and registers of the code have. *)
TypeOK ==
  /\ reg \in Register
  /\ pr_insert_last_r \in BOOLEAN
  /\ remove_last \in BOOLEAN
  /\ popped \in MaybeEntry
  /\ displaced \in MaybeEntry

(* full announces the register's state with a held-back insert counted:    *)
(* a client that believes full never loses or duplicates an entry.         *)
Pending == IF reg.insert_ltch = NoEntry THEN 0 ELSE 1
FullExact == reg.full <=> reg.num_entries + Pending = REG_WIDTH

(* A held-back insert always finds a free slot and is stored in the very   *)
(* next cycle: no insert and no remove can arrive to push it aside.        *)
LatchSafe ==
  reg.insert_ltch # NoEntry =>
    /\ reg.num_entries < REG_WIDTH
    /\ pr_insert_last_r
    /\ remove_last

(* valid_out is never raised over an empty register, although it is set    *)
(* from a calc_min_max that is one cycle old.                              *)
ValidMeansEntry == reg.valid_out => reg.num_entries > 0

(* Entries in the register are announced now or in the next cycle: the     *)
(* register never holds entries that valid_out will not offer.             *)
NeverStuck == reg.num_entries > 0 => reg.valid_out \/ reg.calc_min_max

(* The valid bits mark exactly the first num_entries slots. *)
Packed == \A i \in Slots : reg.slots[i] # NoEntry <=> i < reg.num_entries

(* No two entries inside carry the same meta data, the held-back one       *)
(* included.                                                               *)
InSlots == {i \in Slots : i < reg.num_entries}
Distinct ==
  /\ \A i, j \in InSlots :
        reg.slots[i].meta = reg.slots[j].meta => i = j
  /\ reg.insert_ltch # NoEntry =>
        \A i \in InSlots : reg.slots[i].meta # reg.insert_ltch.meta

(* valid_out on the cycle after an insert vouches for an older entry too,  *)
(* so that the remove it invites cannot leave it raised over nothing.      *)
ValidSteady ==
  reg.valid_out /\ reg.calc_min_max /\ ~remove_last => reg.num_entries >= 2

(* empty is low after reset; it is never raised over an entry.             *)
EmptyMeansNone == reg.empty => reg.num_entries = 0

(* The inductive invariant of the register. *)
IInv ==
  /\ TypeOK
  /\ FullExact
  /\ LatchSafe
  /\ ValidMeansEntry
  /\ NeverStuck
  /\ Packed
  /\ Distinct
  /\ ValidSteady
  /\ EmptyMeansNone

(* The register is a bounded push-in-first-out queue: with the held-back   *)
(* insert counted as inside, every cycle of the circuit is one step of     *)
(* Pifo, and nothing is lost, duplicated or handed out of order.           *)
Abstract == INSTANCE Pifo WITH contents <- Held(reg), Capacity <- REG_WIDTH
ImplementsPifo == Abstract!Spec
=============================================================================

---------------------------- MODULE PifoRegCore ----------------------------
(***************************************************************************)
(* The push-in-first-out register of hw/hdl/pifo_reg/pifo_reg.v as a       *)
(* function from one clock cycle to the next.  It holds no variables, so   *)
(* that every module that instantiates pifo_reg.v (pifo_top.v and each     *)
(* det_skip_list.v) can use it on its own copy of the register.            *)
(*                                                                         *)
(* A slot is NoEntry when its valid bit is 0: the rank and meta data left  *)
(* behind in an invalid slot reach an output only when no slot is valid,   *)
(* and then no client looks at them.  The balanced comparator trees that   *)
(* find the minimum and the maximum are given here by what they compute;   *)
(* module ComparatorTree models the trees and compares them with this.     *)
(***************************************************************************)
EXTENDS Naturals

CONSTANTS
  REG_WIDTH,  \* number of slots, 2**L2_REG_WIDTH
  MAX_RANK,   \* largest rank, 2**RANK_WIDTH - 1
  Metas,      \* the meta data words that travel with a rank
  NoEntry     \* content of a slot whose valid bit is 0

ASSUME RegWidthAssumption == REG_WIDTH \in Nat /\ REG_WIDTH >= 2
ASSUME MaxRankAssumption == MAX_RANK \in Nat

(* pow2[n] is 2**n, written as a function that can be reasoned about. *)
pow2[n \in Nat] == IF n = 0 THEN 1 ELSE 2 * pow2[n - 1]

Ranks == 0 .. MAX_RANK
Entry == [rank : Ranks, meta : Metas]
ASSUME NoEntryAssumption == NoEntry \notin Entry

Slots == 0 .. REG_WIDTH - 1
MaybeEntry == Entry \cup {NoEntry}

Register ==
  [slots         : [Slots -> MaybeEntry],
   num_entries   : 0 .. REG_WIDTH,
   insert_ltch   : MaybeEntry,   \* insert_ltch with rank_in_ltch, meta_in_ltch
   calc_min_max  : BOOLEAN,
   valid_out     : BOOLEAN,      \* max_valid_out always has the same value
   full          : BOOLEAN,
   empty         : BOOLEAN]

(* Reset.  The code leaves empty low although the register holds nothing.  *)
RegInit ==
  [slots        |-> [i \in Slots |-> NoEntry],
   num_entries  |-> 0,
   insert_ltch  |-> NoEntry,
   calc_min_max |-> FALSE,
   valid_out    |-> FALSE,
   full         |-> FALSE,
   empty        |-> FALSE]

Used(r) == {i \in Slots : r.slots[i] # NoEntry}

(* Of the slots with the smallest rank the tree prefers the left one; when *)
(* no slot is valid every comparator passes on its right input.            *)
MinIdx(r) ==
  IF Used(r) = {} THEN REG_WIDTH - 1
  ELSE CHOOSE i \in Used(r) :
         \A j \in Used(r) :
           \/ r.slots[i].rank < r.slots[j].rank
           \/ r.slots[i].rank = r.slots[j].rank /\ i <= j

(* Of the slots with the largest rank the tree prefers the right one. *)
MaxIdx(r) ==
  IF Used(r) = {} THEN REG_WIDTH - 1
  ELSE CHOOSE i \in Used(r) :
         \A j \in Used(r) :
           \/ r.slots[i].rank > r.slots[j].rank
           \/ r.slots[i].rank = r.slots[j].rank /\ i >= j

MinOut(r) == r.slots[MinIdx(r)]   \* rank_out, meta_out
MaxOut(r) == r.slots[MaxIdx(r)]   \* max_rank_out, max_meta_out

(* Mutant: the gap is closed from the slot after the minimum. *)
CloseGapAbove(r) ==
  [i \in Slots |->
     IF i = r.num_entries - 1 THEN NoEntry
     ELSE IF i > MinIdx(r) /\ i + 1 \in Slots THEN r.slots[i + 1]
     ELSE r.slots[i]]

(* Mutant: the last slot keeps its valid bit. *)
CloseGapKeepsLast(r) ==
  [i \in Slots |->
     IF i >= MinIdx(r) /\ i + 1 \in Slots THEN r.slots[i + 1] ELSE r.slots[i]]

(* The slots above the minimum move down by one. *)
CloseGap(r) ==
  [i \in Slots |->
     IF i = r.num_entries - 1 THEN NoEntry
     ELSE IF i >= MinIdx(r) /\ i + 1 \in Slots THEN r.slots[i + 1]
     ELSE r.slots[i]]

(* A new entry goes to the first free slot, or takes the slot of the       *)
(* maximum when it is strictly smaller; otherwise it is forgotten.         *)
Stored(r, e) ==
  IF r.num_entries < REG_WIDTH THEN [r.slots EXCEPT ![r.num_entries] = e]
  ELSE IF e.rank < MaxOut(r).rank THEN [r.slots EXCEPT ![MaxIdx(r)] = e]
  ELSE r.slots

(* Mutant: valid_out rises after every change. *)
ValidNextUnchecked(r, ins, rmv) ==
  \/ r.calc_min_max
  \/ r.valid_out /\ ins = NoEntry /\ ~rmv

(* Mutant: a single entry is not announced. *)
ValidNextOffByOne(r, ins, rmv) ==
  \/ r.calc_min_max /\ r.num_entries > 1
  \/ r.valid_out /\ ins = NoEntry /\ ~rmv

(* valid_out falls on an insert or a remove and rises on the cycle after   *)
(* the register changed; when both happen the rise wins.                   *)
ValidNext(r, ins, rmv) ==
  \/ r.calc_min_max /\ r.num_entries > 0
  \/ r.valid_out /\ ins = NoEntry /\ ~rmv

(* Mutant: every remove clears full, also one with an insert. *)
AfterRemoveClearsFull(r, ins) ==
  [slots        |-> CloseGap(r),
   num_entries  |-> r.num_entries - 1,
   insert_ltch  |-> ins,
   calc_min_max |-> TRUE,
   valid_out    |-> ValidNext(r, ins, TRUE),
   full         |-> FALSE,
   empty        |-> r.num_entries = 1 \/ r.empty]

AfterRemove(r, ins) ==
  [slots        |-> CloseGap(r),
   num_entries  |-> r.num_entries - 1,
   insert_ltch  |-> ins,
   calc_min_max |-> TRUE,
   valid_out    |-> ValidNext(r, ins, TRUE),
   full         |-> IF ins = NoEntry THEN FALSE ELSE r.full,
   empty        |-> r.num_entries = 1 \/ r.empty]

(* Mutant: an insert that replaces the maximum is counted as well. *)
AfterInsertCounts(r, e, ins, rmv) ==
  [slots        |-> Stored(r, e),
   num_entries  |-> r.num_entries + 1,
   insert_ltch  |-> NoEntry,
   calc_min_max |-> TRUE,
   valid_out    |-> ValidNext(r, ins, rmv),
   full         |-> r.num_entries >= REG_WIDTH - 1,
   empty        |-> FALSE]

AfterInsert(r, e, ins, rmv) ==
  [slots        |-> Stored(r, e),
   num_entries  |-> IF r.num_entries < REG_WIDTH THEN r.num_entries + 1
                    ELSE r.num_entries,
   insert_ltch  |-> NoEntry,
   calc_min_max |-> TRUE,
   valid_out    |-> ValidNext(r, ins, rmv),
   full         |-> r.num_entries >= REG_WIDTH - 1,
   empty        |-> FALSE]

AfterIdle(r, rmv) ==
  [slots        |-> r.slots,
   num_entries  |-> r.num_entries,
   insert_ltch  |-> r.insert_ltch,
   calc_min_max |-> FALSE,
   valid_out    |-> ValidNext(r, NoEntry, rmv),
   full         |-> r.full,
   empty        |-> r.empty]

(* Mutant: a held-back insert waits until full falls. *)
RegNextHoldsBack(r, ins, rmv) ==
  IF rmv /\ r.num_entries > 0 THEN AfterRemove(r, ins)
  ELSE IF ins # NoEntry THEN AfterInsert(r, ins, ins, rmv)
  ELSE IF r.insert_ltch # NoEntry /\ ~r.full
       THEN AfterInsert(r, r.insert_ltch, ins, rmv)
  ELSE AfterIdle(r, rmv)

(* One clock edge: ins is the entry on the insert port or NoEntry, rmv the *)
(* remove port.  A remove goes first and holds a simultaneous insert back  *)
(* in insert_ltch; a held insert gives way to one on the port.             *)
RegNext(r, ins, rmv) ==
  IF rmv /\ r.num_entries > 0 THEN AfterRemove(r, ins)
  ELSE IF ins # NoEntry THEN AfterInsert(r, ins, ins, rmv)
  ELSE IF r.insert_ltch # NoEntry THEN AfterInsert(r, r.insert_ltch, ins, rmv)
  ELSE AfterIdle(r, rmv)

(* Everything the register holds, the held-back insert included. *)
Held(r) ==
  {r.slots[i] : i \in Used(r)} \cup ({r.insert_ltch} \ {NoEntry})
=============================================================================

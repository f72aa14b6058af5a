--------------------------- MODULE ComparatorTree ---------------------------
(***************************************************************************)
(* The balanced trees of comparators of pifo_reg.v, which find the slots   *)
(* of the smallest and of the largest rank within one clock cycle.         *)
(* PifoRegCore defines MinIdx and MaxIdx by what they are; this module     *)
(* models the trees themselves, and says that they find the same slots.    *)
(*                                                                         *)
(* A comparator passes on a slot number; the rank, meta data and valid bit *)
(* that travel along are those of the slot (mvalid of a node is the valid  *)
(* bit of the slot it passes on, for a valid input is always preferred).   *)
(***************************************************************************)
EXTENDS PifoReg

CONSTANT L2_REG_WIDTH

ASSUME PowerOfTwoAssumption == L2_REG_WIDTH \in Nat /\ REG_WIDTH = pow2[L2_REG_WIDTH]

COMP_LVLS == L2_REG_WIDTH + 1
Width(i) == 0 .. (REG_WIDTH \div pow2[i]) - 1

(* The slots that reach each level of a tree whose comparators pass on     *)
(* their left input when the pair of their inputs is in Left.              *)
Levels(Left) ==
  LET lvl[i \in 0 .. COMP_LVLS - 1] ==
        IF i = 0 THEN [j \in Slots |-> j]
        ELSE [j \in Width(i) |->
                LET left == lvl[i - 1][2 * j]
                    right == lvl[i - 1][2 * j + 1]
                IN  IF <<left, right>> \in Left THEN left ELSE right]
  IN  lvl
Root(Left) == Levels(Left)[COMP_LVLS - 1][0]

Valid(r, a) == r.slots[a] # NoEntry

MinLeft(r) ==
  {p \in Slots \X Slots :
     /\ Valid(r, p[1])
     /\ Valid(r, p[2]) => r.slots[p[1]].rank <= r.slots[p[2]].rank}

(* Mutant: the valid bit of the right input is not looked at. *)
MaxLeftUnchecked(r) ==
  {p \in Slots \X Slots :
     /\ Valid(r, p[1])
     /\ Valid(r, p[2])
     /\ r.slots[p[1]].rank > r.slots[p[2]].rank}
MaxLeft(r) ==
  {p \in Slots \X Slots :
     /\ Valid(r, p[1])
     /\ Valid(r, p[2]) => r.slots[p[1]].rank > r.slots[p[2]].rank}

idx(r) == Root(MinLeft(r))
max_idx(r) == Root(MaxLeft(r))

-----------------------------------------------------------------------------
(* The trees compute what the rest of the model takes them to compute:     *)
(* among equal ranks the leftmost minimum and the rightmost maximum.       *)
TreesAgree(r) == idx(r) = MinIdx(r) /\ max_idx(r) = MaxIdx(r)

(* In every content the register can come to have, the trees of            *)
(* comparators name the slots the rest of the model takes them to name.    *)
TreesFindExtremes == TreesAgree(reg)
=============================================================================

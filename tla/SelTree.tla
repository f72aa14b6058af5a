------------------------------- MODULE SelTree -------------------------------
(***************************************************************************)
(* The two selection trees of pifo_top.v: one finds the skip list to       *)
(* insert into, the other the skip list to remove from.  Every level of    *)
(* comparators has registers, so that a selection comes out NUM_LEVELS + 1 *)
(* cycles after the signals it was made on, and a new one enters in every  *)
(* cycle.  Module PifoTop takes each tree for a pipeline of selections     *)
(* already made; here the levels are modelled as they are.                 *)
(*                                                                         *)
(* A node is None when its valid bit is low, and otherwise the number of a *)
(* skip list with the key the list is chosen by.                           *)
(***************************************************************************)
EXTENDS Naturals, Sequences

CONSTANTS
  NUM_SKIP_LISTS,
  MAX_NUM,       \* largest num_entries
  Offers,        \* [rank, tstamp] a list may offer
  None

SkipLists == 0 .. NUM_SKIP_LISTS - 1

ASSUME NumSkipListsAssumption == NUM_SKIP_LISTS \in Nat \ {0}
ASSUME MaxNumAssumption == MAX_NUM \in Nat
ASSUME OffersAssumption == Offers \subseteq [rank : Nat, tstamp : Nat]
ASSUME NoneAssumption ==
  /\ None \notin 0 .. MAX_NUM /\ None \notin Offers
  /\ None \notin [sel : SkipLists, key : 0 .. MAX_NUM]
  /\ None \notin [sel : SkipLists, key : Offers]

(* pow2[n] is 2**n, written as a function that can be reasoned about. *)
pow2[n \in Nat] == IF n = 0 THEN 1 ELSE 2 * pow2[n - 1]

NUM_LEVELS == 1 + CHOOSE n \in 0 .. NUM_SKIP_LISTS :
                    /\ pow2[n] >= NUM_SKIP_LISTS
                    /\ \A m \in 0 .. n - 1 : pow2[m] < NUM_SKIP_LISTS

VARIABLES
  tree,     \* which of the two trees this is
  lvls,     \* the registers of levels 1 .. NUM_LEVELS
  final,    \* final_enq_sel_r or final_deq_sel_r
  expected  \* what the selection should be that is on its way at each level

vars == <<tree, lvls, final, expected>>

Width(l) == 0 .. pow2[NUM_LEVELS - l] - 1

Init ==
  /\ tree \in {"enq", "deq"}
  /\ lvls = [l \in 1 .. NUM_LEVELS |-> [i \in Width(l) |-> None]]
  /\ final = None
  /\ expected = [l \in 1 .. NUM_LEVELS + 1 |-> None]

(* Level 0: the skip lists, and entries that are never chosen. *)
Leaf(keys, i) ==
  IF i \in SkipLists /\ keys[i] # None THEN [sel |-> i, key |-> keys[i]] ELSE None

(* The comparators. *)

(* Mutant: the fuller of two lists is preferred. *)
EnqLeftFuller(a, b) == a >= b
EnqLeft(a, b) == a <= b

(* Mutant: the time stamps are compared first. *)
DeqLeftOldestFirst(a, b) ==
  a.tstamp < b.tstamp \/ (a.tstamp = b.tstamp /\ a.rank < b.rank)
DeqLeft(a, b) == a.rank < b.rank \/ (a.rank = b.rank /\ a.tstamp < b.tstamp)

Join(Left(_, _), a, b) ==
  IF a = None THEN b ELSE IF b = None THEN a
  ELSE IF Left(a.key, b.key) THEN a ELSE b

(* One clock edge: all levels move at once. *)
Edge(Left(_, _), keys) ==
  LET below(l, i) == IF l = 1 THEN Leaf(keys, i) ELSE lvls[l - 1][i]
  IN  /\ lvls' = [l \in 1 .. NUM_LEVELS |->
                    [i \in Width(l) |->
                       Join(Left, below(l, 2 * i), below(l, 2 * i + 1))]]
      /\ final' = lvls[NUM_LEVELS][0]

(* What the selection is to be, said without a tree. *)
Expect(best) == expected' = <<best>> \o SubSeq(expected, 1, NUM_LEVELS)

Valid(keys) == {k \in SkipLists : keys[k] # None}

(* Of the lists that can take an entry the one with the fewest entries,    *)
(* the first of them when there are several.                               *)
LeastLoaded(keys) ==
  IF Valid(keys) = {} THEN None
  ELSE CHOOSE k \in Valid(keys) : \A j \in Valid(keys) :
         keys[k] < keys[j] \/ (keys[k] = keys[j] /\ k <= j)

(* Of the lists that offer an entry one with the smallest rank, of these   *)
(* the one that offers the oldest, the last of them when there are several.*)
NextToLeave(keys) ==
  IF Valid(keys) = {} THEN None
  ELSE CHOOSE k \in Valid(keys) : \A j \in Valid(keys) :
         \/ keys[k].rank < keys[j].rank
         \/ /\ keys[k].rank = keys[j].rank
            /\ \/ keys[k].tstamp < keys[j].tstamp
               \/ keys[k].tstamp = keys[j].tstamp /\ k >= j

EnqKeys == [SkipLists -> (0 .. MAX_NUM) \cup {None}]
DeqKeys == [SkipLists -> Offers \cup {None}]

EnqNext ==
  /\ tree = "enq"
  /\ \E keys \in EnqKeys : Edge(EnqLeft, keys) /\ Expect(LeastLoaded(keys))
  /\ UNCHANGED tree
DeqNext ==
  /\ tree = "deq"
  /\ \E keys \in DeqKeys : Edge(DeqLeft, keys) /\ Expect(NextToLeave(keys))
  /\ UNCHANGED tree

Next == EnqNext \/ DeqNext

Spec == Init /\ [][Next]_vars

(* A selection never mixes the signals of two cycles and never loses to a  *)
(* list that is not valid: what comes out is what a comparison of all the  *)
(* lists at once would have chosen NUM_LEVELS + 1 cycles ago.              *)
Sel(node) == IF node = None THEN None ELSE node.sel
SelectsAsOfEntry ==
  Sel(final) = expected[NUM_LEVELS + 1]
=============================================================================

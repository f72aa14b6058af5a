--------------------------- MODULE SelTree_proofs ---------------------------
(***************************************************************************)
(* Proof that both selection trees of pifo_top.v select what a comparison  *)
(* of all the lists at once would have selected NUM_LEVELS + 1 cycles ago, *)
(* for every number of skip lists and whatever the lists do meanwhile.     *)
(*                                                                         *)
(* The invariant names, for every level, the signals that entered the tree *)
(* that many cycles ago; every node of the level is the best of the leaves *)
(* under it in these signals.  That there are enough levels, and that the  *)
(* powers of two are what they are, is shown by induction on Nat.          *)
(***************************************************************************)
EXTENDS SelTree, Integers, WellFoundedInduction, TLAPS

-----------------------------------------------------------------------------
(* Induction on Nat, stated about a set.                                   *)
LEMMA Induction ==
  ASSUME NEW S, 0 \in S, \A n \in Nat : n \in S => n + 1 \in S
  PROVE  Nat \subseteq S
<1> SUFFICES ASSUME Nat \ S # {} PROVE FALSE
  OBVIOUS
<1> DEFINE T == Nat \ S
<1>1. IsWellFoundedOn(OpToRel(<, Nat), Nat)
  BY NatLessThanWellFounded
<1>2. T \subseteq Nat /\ T # {}
  OBVIOUS
<1> HIDE DEF T
<1>3. PICK n \in T : \A y \in T : ~(<<y, n>> \in OpToRel(<, Nat))
  BY ONLY <1>1, <1>2, WFMin
<1>4. n \in Nat /\ n \notin S
  BY <1>3 DEF T
<1>5. n # 0
  BY <1>4
<1>6. n - 1 \in Nat /\ n - 1 < n /\ (n - 1) + 1 = n
  BY <1>4, <1>5
<1>7. n - 1 \notin T
  BY <1>3, <1>4, <1>6 DEF OpToRel
<1>8. n - 1 \in S
  BY <1>6, <1>7 DEF T
<1> QED BY <1>4, <1>6, <1>8

(* There is a function that does what the definition of pow2 says: it is   *)
(* put together from finite parts.                                         *)
LEMMA Pow2Def == pow2 = [n \in Nat |-> IF n = 0 THEN 1 ELSE 2 * pow2[n - 1]]
<1> DEFINE Ok(g, n) == g[0] = 1 /\ \A i \in 1 .. n : g[i] = 2 * g[i - 1]
           S == {n \in Nat : \E g \in [0 .. n -> Nat] : Ok(g, n)}
<1>1. 0 \in S
  <2> DEFINE g == [i \in 0 .. 0 |-> 1]
  <2>1. g \in [0 .. 0 -> Nat] /\ Ok(g, 0)
    OBVIOUS
  <2> QED BY <2>1
<1>2. ASSUME NEW n \in Nat, n \in S
      PROVE  n + 1 \in S
  <2>1. PICK g \in [0 .. n -> Nat] : Ok(g, n)
    BY <1>2
  <2> DEFINE h == [i \in 0 .. n + 1 |-> IF i = n + 1 THEN 2 * g[n] ELSE g[i]]
  <2>2. h \in [0 .. n + 1 -> Nat]
    BY <2>1
  <2>3. h[0] = 1
    BY <2>1
  <2>4. ASSUME NEW i \in 1 .. n + 1
        PROVE  h[i] = 2 * h[i - 1]
    BY <2>1
  <2>5. Ok(h, n + 1)
    BY <2>3, <2>4
  <2> HIDE DEF h, Ok
  <2>6. \E f \in [0 .. n + 1 -> Nat] : Ok(f, n + 1)
    BY <2>2, <2>5
  <2> QED BY <2>6
<1>3. Nat \subseteq S
  <2> HIDE DEF S
  <2> QED BY <1>1, <1>2, Induction
<1> DEFINE part == [n \in Nat |-> CHOOSE g \in [0 .. n -> Nat] : Ok(g, n)]
           f == [n \in Nat |-> part[n][n]]
<1>4. ASSUME NEW n \in Nat
      PROVE  part[n] \in [0 .. n -> Nat] /\ Ok(part[n], n)
  <2>1. \E g \in [0 .. n -> Nat] : Ok(g, n)
    BY <1>3
  <2> HIDE DEF Ok
  <2> QED BY <2>1
<1>5. ASSUME NEW n \in Nat
      PROVE  part[n + 1][n] = part[n][n]
  <2> DEFINE a == part[n]
             b == part[n + 1]
             E == {i \in Nat : i <= n => a[i] = b[i]}
  <2>1. /\ a \in [0 .. n -> Nat] /\ Ok(a, n)
        /\ b \in [0 .. n + 1 -> Nat] /\ Ok(b, n + 1)
    <3> HIDE DEF Ok, part
    <3> QED BY <1>4
  <2> HIDE DEF part, a, b
  <2>2. 0 \in E
    BY <2>1
  <2>3. ASSUME NEW i \in Nat, i \in E
        PROVE  i + 1 \in E
    <3>1. SUFFICES ASSUME i + 1 <= n
                   PROVE  a[i + 1] = b[i + 1]
      OBVIOUS
    <3>2. i + 1 \in 1 .. n /\ i + 1 \in 1 .. n + 1 /\ (i + 1) - 1 = i
      BY <3>1
    <3>3. a[i + 1] = 2 * a[i]
      BY <2>1, <3>2
    <3>4. b[i + 1] = 2 * b[i]
      BY <2>1, <3>2
    <3> QED BY <2>3, <3>1, <3>3, <3>4
  <2>4. Nat \subseteq E
    <3> HIDE DEF E
    <3> QED BY <2>2, <2>3, Induction
  <2>5. a[n] = b[n]
    BY <2>4
  <2> QED BY <2>5 DEF a, b
<1>6. f = [n \in Nat |-> IF n = 0 THEN 1 ELSE 2 * f[n - 1]]
  <2>1. ASSUME NEW n \in Nat
        PROVE  f[n] = IF n = 0 THEN 1 ELSE 2 * f[n - 1]
    <3>1. CASE n = 0
      BY <1>4, <3>1
    <3>2. CASE n # 0
      <4> HIDE DEF part
      <4>1. n - 1 \in Nat /\ (n - 1) + 1 = n
        BY <3>2
      <4>2. part[n][n - 1] = part[n - 1][n - 1]
        BY <1>5, <4>1
      <4>3. Ok(part[n], n)
        BY <1>4
      <4>4. part[n][n] = 2 * part[n][n - 1]
        BY <4>3, <3>2
      <4> QED BY <4>1, <4>2, <4>4, <3>2
    <3> QED BY <3>1, <3>2
  <2> HIDE DEF part
  <2> QED BY <2>1
<1> HIDE DEF f
<1> QED BY <1>6 DEF pow2

LEMMA Pow2 ==
  /\ pow2[0] = 1
  /\ \A n \in Nat : pow2[n] \in Nat /\ pow2[n] > n /\ pow2[n + 1] = 2 * pow2[n]
<1> DEFINE S == {n \in Nat : pow2[n] \in Nat /\ pow2[n] > n}
<1>1. pow2[0] = 1
  BY Pow2Def
<1>2. ASSUME NEW n \in Nat
      PROVE  pow2[n + 1] = 2 * pow2[n]
  <2>1. n + 1 \in Nat /\ n + 1 # 0 /\ (n + 1) - 1 = n
    OBVIOUS
  <2> QED BY <2>1, Pow2Def
<1>3. 0 \in S
  BY <1>1
<1>4. ASSUME NEW n \in Nat, n \in S
      PROVE  n + 1 \in S
  BY <1>2, <1>4
<1>5. Nat \subseteq S
  <2> HIDE DEF S
  <2> QED BY <1>3, <1>4, Induction
<1> QED BY <1>1, <1>2, <1>5

(* The function log2 of the code ends, and finds enough levels.            *)
LEMMA EnoughLevels ==
  /\ NUM_LEVELS \in Nat \ {0}
  /\ pow2[NUM_LEVELS - 1] >= NUM_SKIP_LISTS
<1> DEFINE Enough(n) == /\ pow2[n] >= NUM_SKIP_LISTS
                        /\ \A m \in 0 .. n - 1 : pow2[m] < NUM_SKIP_LISTS
           S == {n \in Nat : \A m \in 0 .. n : pow2[m] < NUM_SKIP_LISTS}
<1>1. \E n \in 0 .. NUM_SKIP_LISTS : Enough(n)
  <2>1. SUFFICES ASSUME \A n \in 0 .. NUM_SKIP_LISTS : ~Enough(n)
                 PROVE  FALSE
    OBVIOUS
  <2> DEFINE T == {n \in Nat : n <= NUM_SKIP_LISTS => n \in S}
  <2>2. 0 \in T
    BY <2>1, Pow2, NumSkipListsAssumption
  <2>3. ASSUME NEW n \in Nat, n \in T
        PROVE  n + 1 \in T
    <3>1. SUFFICES ASSUME n + 1 <= NUM_SKIP_LISTS
                   PROVE  n + 1 \in S
      OBVIOUS
    <3>2. \A m \in 0 .. (n + 1) - 1 : pow2[m] < NUM_SKIP_LISTS
      BY <2>3, <3>1, NumSkipListsAssumption
    <3>3. ~(pow2[n + 1] >= NUM_SKIP_LISTS)
      BY <2>1, <3>1, <3>2
    <3> QED BY <3>2, <3>3, Pow2, NumSkipListsAssumption
  <2>4. Nat \subseteq T
    <3> HIDE DEF T
    <3> QED BY <2>2, <2>3, Induction
  <2>5. pow2[NUM_SKIP_LISTS] < NUM_SKIP_LISTS
    BY <2>4, NumSkipListsAssumption
  <2> QED BY <2>5, Pow2, NumSkipListsAssumption
<1> DEFINE n == CHOOSE m \in 0 .. NUM_SKIP_LISTS : Enough(m)
<1>2. n \in 0 .. NUM_SKIP_LISTS /\ Enough(n)
  <2> HIDE DEF Enough
  <2> QED BY <1>1
<1>3. NUM_LEVELS = 1 + n
  BY DEF NUM_LEVELS
<1> HIDE DEF n
<1> QED BY <1>2, <1>3, NumSkipListsAssumption

-----------------------------------------------------------------------------
(* The best of some leaves.                                                *)
Trees == {"enq", "deq"}
KeysOf(t) == IF t = "enq" THEN EnqKeys ELSE DeqKeys
JoinOf(t, a, b) == IF t = "enq" THEN Join(EnqLeft, a, b) ELSE Join(DeqLeft, a, b)
BestOf(t, keys) == IF t = "enq" THEN LeastLoaded(keys) ELSE NextToLeave(keys)

(* List k is chosen rather than list j.                                    *)
EnqBefore(keys, k, j) == keys[k] < keys[j] \/ (keys[k] = keys[j] /\ k <= j)
DeqBefore(keys, k, j) ==
  \/ keys[k].rank < keys[j].rank
  \/ /\ keys[k].rank = keys[j].rank
     /\ \/ keys[k].tstamp < keys[j].tstamp
        \/ keys[k].tstamp = keys[j].tstamp /\ k >= j
Before(t, keys, k, j) == IF t = "enq" THEN EnqBefore(keys, k, j) ELSE DeqBefore(keys, k, j)

IsBest(t, node, keys, lo, hi) ==
  \/ node = None /\ \A i \in lo .. hi : Leaf(keys, i) = None
  \/ \E k \in lo .. hi :
       /\ k \in SkipLists /\ keys[k] # None /\ node = [sel |-> k, key |-> keys[k]]
       /\ \A j \in lo .. hi :
            j \in SkipLists /\ keys[j] # None => Before(t, keys, k, j)

LEMMA BeforeOrder ==
  ASSUME NEW t \in Trees, NEW keys \in KeysOf(t),
         NEW i \in SkipLists, NEW j \in SkipLists, NEW k \in SkipLists,
         keys[i] # None, keys[j] # None, keys[k] # None
  PROVE  /\ Before(t, keys, i, i)
         /\ Before(t, keys, i, j) /\ Before(t, keys, j, k) => Before(t, keys, i, k)
         /\ Before(t, keys, i, j) /\ Before(t, keys, j, i) => i = j
<1>1. CASE t = "enq"
  <2>1. keys[i] \in Nat /\ keys[j] \in Nat /\ keys[k] \in Nat
    BY <1>1, MaxNumAssumption DEF KeysOf, EnqKeys
  <2>2. i \in Nat /\ j \in Nat /\ k \in Nat
    BY NumSkipListsAssumption DEF SkipLists
  <2> QED BY <1>1, <2>1, <2>2 DEF Before, EnqBefore
<1>2. CASE t = "deq"
  <2>1. \A x \in {i, j, k} : keys[x].rank \in Nat /\ keys[x].tstamp \in Nat
    BY <1>2, OffersAssumption DEF KeysOf, DeqKeys
  <2>2. i \in Nat /\ j \in Nat /\ k \in Nat
    BY NumSkipListsAssumption DEF SkipLists
  <2> QED BY <1>2, <2>1, <2>2 DEF Before, DeqBefore
<1> QED BY <1>1, <1>2 DEF Trees

(* A comparator passes on the better of two lists, the left being the one  *)
(* with the lower number.                                                  *)
LEMMA Comparator ==
  ASSUME NEW t \in Trees, NEW keys \in KeysOf(t),
         NEW i \in SkipLists, NEW j \in SkipLists, i < j,
         keys[i] # None, keys[j] # None
  PROVE  LET a == [sel |-> i, key |-> keys[i]]
             b == [sel |-> j, key |-> keys[j]]
         IN  \/ JoinOf(t, a, b) = a /\ Before(t, keys, i, j)
             \/ JoinOf(t, a, b) = b /\ Before(t, keys, j, i)
<1> DEFINE a == [sel |-> i, key |-> keys[i]]
           b == [sel |-> j, key |-> keys[j]]
<1>1. i \in Nat /\ j \in Nat
  BY NumSkipListsAssumption DEF SkipLists
<1>2. CASE t = "enq"
  <2>1. keys[i] \in 0 .. MAX_NUM /\ keys[j] \in 0 .. MAX_NUM
    BY <1>2 DEF KeysOf, EnqKeys
  <2>2. a # None /\ b # None
    BY <2>1, NoneAssumption
  <2>3. a.key = keys[i] /\ b.key = keys[j]
    OBVIOUS
  <2>4. JoinOf(t, a, b) = IF keys[i] <= keys[j] THEN a ELSE b
    BY <1>2, <2>2, <2>3 DEF JoinOf, Join, EnqLeft
  <2>5. keys[i] \in Nat /\ keys[j] \in Nat
    BY <2>1, MaxNumAssumption
  <2> QED BY <1>1, <1>2, <2>4, <2>5 DEF Before, EnqBefore
<1>3. CASE t = "deq"
  <2>1. keys[i] \in Offers /\ keys[j] \in Offers
    BY <1>3 DEF KeysOf, DeqKeys
  <2>2. a # None /\ b # None
    BY <2>1, NoneAssumption
  <2>3. a.key = keys[i] /\ b.key = keys[j]
    OBVIOUS
  <2>4. JoinOf(t, a, b) =
          IF \/ keys[i].rank < keys[j].rank
             \/ keys[i].rank = keys[j].rank /\ keys[i].tstamp < keys[j].tstamp
          THEN a ELSE b
    BY <1>3, <2>2, <2>3 DEF JoinOf, Join, DeqLeft
  <2>5. \A x \in {i, j} : keys[x].rank \in Nat /\ keys[x].tstamp \in Nat
    BY <2>1, OffersAssumption
  <2> QED BY <1>1, <1>3, <2>4, <2>5 DEF Before, DeqBefore
<1> QED BY <1>2, <1>3 DEF Trees

(* A node above two others is the best of the leaves under both.           *)
LEMMA JoinBest ==
  ASSUME NEW t \in Trees, NEW keys \in KeysOf(t),
         NEW lo \in Nat, NEW mid \in Nat, NEW hi \in Nat, lo < mid, mid <= hi,
         NEW a, NEW b,
         IsBest(t, a, keys, lo, mid - 1), IsBest(t, b, keys, mid, hi)
  PROVE  IsBest(t, JoinOf(t, a, b), keys, lo, hi)
<1>0. /\ \A i \in lo .. hi : i \in lo .. mid - 1 \/ i \in mid .. hi
      /\ \A i \in lo .. mid - 1 : i \in lo .. hi
      /\ \A i \in mid .. hi : i \in lo .. hi
      /\ \A i \in lo .. mid - 1, j \in mid .. hi : i < j
  OBVIOUS
<1>1. CASE a = None
  <2>1. JoinOf(t, a, b) = b
    BY <1>1 DEF JoinOf, Join
  <2>2. \A i \in lo .. mid - 1 : ~(i \in SkipLists /\ keys[i] # None)
    <3>1. \A i \in SkipLists : keys[i] # None =>
            [sel |-> i, key |-> keys[i]] # None
      BY NoneAssumption DEF KeysOf, EnqKeys, DeqKeys
    <3> QED BY <1>1, <3>1 DEF IsBest, Leaf
  <2>3. \A i \in lo .. mid - 1 : Leaf(keys, i) = None
    BY <2>2 DEF Leaf
  <2> QED BY <1>0, <2>1, <2>2, <2>3 DEF IsBest
<1>2. CASE a # None /\ b = None
  <2>1. JoinOf(t, a, b) = a
    BY <1>2 DEF JoinOf, Join
  <2>2. \A i \in mid .. hi : ~(i \in SkipLists /\ keys[i] # None)
    <3>1. \A i \in SkipLists : keys[i] # None =>
            [sel |-> i, key |-> keys[i]] # None
      BY NoneAssumption DEF KeysOf, EnqKeys, DeqKeys
    <3> QED BY <1>2, <3>1 DEF IsBest, Leaf
  <2> QED BY <1>0, <1>2, <2>1, <2>2 DEF IsBest
<1>3. CASE a # None /\ b # None
  <2>1. PICK i \in lo .. mid - 1 :
          /\ i \in SkipLists /\ keys[i] # None /\ a = [sel |-> i, key |-> keys[i]]
          /\ \A j \in lo .. mid - 1 :
               j \in SkipLists /\ keys[j] # None => Before(t, keys, i, j)
    BY <1>3 DEF IsBest
  <2>2. PICK k \in mid .. hi :
          /\ k \in SkipLists /\ keys[k] # None /\ b = [sel |-> k, key |-> keys[k]]
          /\ \A j \in mid .. hi :
               j \in SkipLists /\ keys[j] # None => Before(t, keys, k, j)
    BY <1>3 DEF IsBest
  <2>3. \/ JoinOf(t, a, b) = a /\ Before(t, keys, i, k)
        \/ JoinOf(t, a, b) = b /\ Before(t, keys, k, i)
    BY <1>0, <2>1, <2>2, Comparator
  <2>4. CASE JoinOf(t, a, b) = a /\ Before(t, keys, i, k)
    <3>1. ASSUME NEW j \in lo .. hi, j \in SkipLists, keys[j] # None
          PROVE  Before(t, keys, i, j)
      BY <1>0, <2>1, <2>2, <2>4, <3>1, BeforeOrder
    <3> QED BY <1>0, <2>1, <2>4, <3>1 DEF IsBest
  <2>5. CASE JoinOf(t, a, b) = b /\ Before(t, keys, k, i)
    <3>1. ASSUME NEW j \in lo .. hi, j \in SkipLists, keys[j] # None
          PROVE  Before(t, keys, k, j)
      BY <1>0, <2>1, <2>2, <2>5, <3>1, BeforeOrder
    <3> QED BY <1>0, <2>2, <2>5, <3>1 DEF IsBest
  <2> QED BY <2>3, <2>4, <2>5
<1> QED BY <1>1, <1>2, <1>3

(* A leaf is the best of itself.                                           *)
LEMMA LeafBest ==
  ASSUME NEW t \in Trees, NEW keys \in KeysOf(t), NEW i \in Nat
  PROVE  IsBest(t, Leaf(keys, i), keys, i, i)
<1>1. \A j \in i .. i : j = i
  OBVIOUS
<1>2. CASE i \in SkipLists /\ keys[i] # None
  BY <1>1, <1>2, BeforeOrder DEF Leaf, IsBest
<1>3. CASE ~(i \in SkipLists /\ keys[i] # None)
  BY <1>1, <1>3 DEF Leaf, IsBest
<1> QED BY <1>2, <1>3

(* The best of all leaves is the choice stated without a tree.             *)
LEMMA BestOfAll ==
  ASSUME NEW t \in Trees, NEW keys \in KeysOf(t), NEW node,
         NEW hi \in Nat, hi >= NUM_SKIP_LISTS - 1, IsBest(t, node, keys, 0, hi)
  PROVE  Sel(node) = BestOf(t, keys)
<1>0. \A i \in SkipLists : i \in 0 .. hi
  BY NumSkipListsAssumption DEF SkipLists
<1>1. \A i \in SkipLists : keys[i] # None => [sel |-> i, key |-> keys[i]] # None
  BY NoneAssumption DEF KeysOf, EnqKeys, DeqKeys
<1>2. CASE node = None
  <2>1. Valid(keys) = {}
    BY <1>0, <1>1, <1>2 DEF IsBest, Leaf, Valid
  <2> QED BY <1>2, <2>1 DEF Sel, BestOf, LeastLoaded, NextToLeave
<1>3. CASE node # None
  <2>1. PICK k \in 0 .. hi :
          /\ k \in SkipLists /\ keys[k] # None /\ node = [sel |-> k, key |-> keys[k]]
          /\ \A j \in 0 .. hi :
               j \in SkipLists /\ keys[j] # None => Before(t, keys, k, j)
    BY <1>3 DEF IsBest
  <2>2. Sel(node) = k
    BY <1>3, <2>1 DEF Sel
  <2>3. k \in Valid(keys) /\ \A j \in Valid(keys) : Before(t, keys, k, j)
    BY <1>0, <2>1 DEF Valid
  <2>4. \A m \in Valid(keys) : (\A j \in Valid(keys) : Before(t, keys, m, j)) => m = k
    BY <2>3, BeforeOrder DEF Valid
  <2>5. (CHOOSE m \in Valid(keys) : \A j \in Valid(keys) : Before(t, keys, m, j)) = k
    BY <2>3, <2>4
  <2>6. CASE t = "enq"
    <3>1. BestOf(t, keys) =
            CHOOSE m \in Valid(keys) : \A j \in Valid(keys) : EnqBefore(keys, m, j)
      BY <2>3, <2>6 DEF BestOf, LeastLoaded, EnqBefore
    <3>2. (CHOOSE m \in Valid(keys) : \A j \in Valid(keys) : EnqBefore(keys, m, j)) = k
      BY <2>3, <2>4, <2>6 DEF Before
    <3> QED BY <2>2, <3>1, <3>2
  <2>7. CASE t = "deq"
    <3>1. BestOf(t, keys) =
            CHOOSE m \in Valid(keys) : \A j \in Valid(keys) : DeqBefore(keys, m, j)
      BY <2>3, <2>7 DEF BestOf, NextToLeave, DeqBefore
    <3>2. (CHOOSE m \in Valid(keys) : \A j \in Valid(keys) : DeqBefore(keys, m, j)) = k
      BY <2>3, <2>4, <2>7 DEF Before
    <3> QED BY <2>2, <3>1, <3>2
  <2> QED BY <2>6, <2>7 DEF Trees
<1> QED BY <1>2, <1>3

-----------------------------------------------------------------------------
(* The signals that entered the tree so many cycles ago.                   *)
History(t, hist) == hist \in [1 .. NUM_LEVELS + 1 -> KeysOf(t)]

(* Node i of level l is the best of the pow2[l] leaves under it.           *)
LevelsBest(t, hist, levels) ==
  \A l \in 1 .. NUM_LEVELS : \A i \in Width(l) :
    IsBest(t, levels[l][i], hist[l], i * pow2[l], (i + 1) * pow2[l] - 1)

FinalBest(t, hist, node) == IsBest(t, node, hist[NUM_LEVELS + 1], 0, pow2[NUM_LEVELS] - 1)

ExpectedBest(t, hist, exp) ==
  exp = [l \in 1 .. NUM_LEVELS + 1 |-> BestOf(t, hist[l])]

TreeInv ==
  /\ tree \in Trees
  /\ \E hist : /\ History(tree, hist)
               /\ LevelsBest(tree, hist, lvls)
               /\ FinalBest(tree, hist, final)
               /\ ExpectedBest(tree, hist, expected)

LEMMA WidthIs ==
  ASSUME NEW l \in 1 .. NUM_LEVELS, NEW i \in Width(l)
  PROVE  /\ i \in Nat /\ pow2[l] \in Nat
         /\ l > 1 => 2 * i \in Width(l - 1) /\ 2 * i + 1 \in Width(l - 1)
<1>1. NUM_LEVELS \in Nat /\ NUM_LEVELS - l \in Nat /\ l \in Nat
  BY EnoughLevels
<1>2. i \in 0 .. pow2[NUM_LEVELS - l] - 1 /\ pow2[NUM_LEVELS - l] \in Nat
  BY <1>1, Pow2 DEF Width
<1>3. NUM_LEVELS - (l - 1) = (NUM_LEVELS - l) + 1
  BY <1>1
<1>4. pow2[NUM_LEVELS - (l - 1)] = 2 * pow2[NUM_LEVELS - l]
  BY <1>1, <1>3, Pow2
<1>5. 2 * i \in 0 .. 2 * pow2[NUM_LEVELS - l] - 1
  BY <1>2
<1>6. 2 * i + 1 \in 0 .. 2 * pow2[NUM_LEVELS - l] - 1
  BY <1>2
<1> QED BY <1>1, <1>2, <1>4, <1>5, <1>6, Pow2 DEF Width

LEMMA TreeInit == Init => TreeInv
<1> SUFFICES ASSUME Init PROVE TreeInv
  OBVIOUS
<1> DEFINE none == [k \in SkipLists |-> None]
           hist == [l \in 1 .. NUM_LEVELS + 1 |-> none]
<1>1. tree \in Trees
  BY DEF Init, Trees
<1>2. none \in KeysOf(tree)
  BY DEF KeysOf, EnqKeys, DeqKeys
<1>3. History(tree, hist)
  BY <1>2 DEF History
<1>4. \A lo, hi : IsBest(tree, None, none, lo, hi)
  BY DEF IsBest, Leaf
<1>5. NUM_LEVELS \in Nat
  BY EnoughLevels
<1>6. LevelsBest(tree, hist, lvls)
  BY <1>4, <1>5 DEF LevelsBest, Init
<1>7. FinalBest(tree, hist, final)
  BY <1>4, <1>5 DEF FinalBest, Init
<1>8. BestOf(tree, none) = None
  BY DEF BestOf, LeastLoaded, NextToLeave, Valid
<1>9. ExpectedBest(tree, hist, expected)
  BY <1>8 DEF ExpectedBest, Init
<1> HIDE DEF hist
<1> QED BY <1>1, <1>3, <1>6, <1>7, <1>9 DEF TreeInv

(* What either of the two trees does in a cycle.                           *)
Input(keys, l, i) == IF l = 1 THEN Leaf(keys, i) ELSE lvls[l - 1][i]

LEMMA OneCycle ==
  ASSUME Next, tree \in Trees
  PROVE  \E keys \in KeysOf(tree) :
           /\ tree' = tree
           /\ \A l \in 1 .. NUM_LEVELS : \A i \in Width(l) :
                lvls'[l][i] = JoinOf(tree, Input(keys, l, 2 * i), Input(keys, l, 2 * i + 1))
           /\ final' = lvls[NUM_LEVELS][0]
           /\ expected' = <<BestOf(tree, keys)>> \o SubSeq(expected, 1, NUM_LEVELS)
<1>1. CASE EnqNext
  <2>1. PICK keys \in EnqKeys : Edge(EnqLeft, keys) /\ Expect(LeastLoaded(keys))
    BY <1>1 DEF EnqNext
  <2> QED BY <1>1, <2>1 DEF EnqNext, Edge, Expect, KeysOf, JoinOf, BestOf, Input
<1>2. CASE DeqNext
  <2>1. PICK keys \in DeqKeys : Edge(DeqLeft, keys) /\ Expect(NextToLeave(keys))
    BY <1>2 DEF DeqNext
  <2>2. tree # "enq" /\ tree' = tree
    BY <1>2 DEF DeqNext
  <2> QED BY <2>1, <2>2 DEF Edge, Expect, KeysOf, JoinOf, BestOf, Input
<1> QED BY <1>1, <1>2 DEF Next

LEMMA TreeStep == TreeInv /\ [Next]_vars => TreeInv'
<1> SUFFICES ASSUME TreeInv, [Next]_vars PROVE TreeInv'
  OBVIOUS
<1>1. CASE UNCHANGED vars
  BY <1>1 DEF TreeInv, vars
<1>2. CASE Next
  <2>1. PICK keys \in KeysOf(tree) :
           /\ tree' = tree
           /\ \A l \in 1 .. NUM_LEVELS : \A i \in Width(l) :
                lvls'[l][i] = JoinOf(tree, Input(keys, l, 2 * i), Input(keys, l, 2 * i + 1))
           /\ final' = lvls[NUM_LEVELS][0]
           /\ expected' = <<BestOf(tree, keys)>> \o SubSeq(expected, 1, NUM_LEVELS)
    BY <1>2, OneCycle DEF TreeInv
  <2>2. PICK hist : /\ History(tree, hist)
                    /\ LevelsBest(tree, hist, lvls)
                    /\ FinalBest(tree, hist, final)
                    /\ ExpectedBest(tree, hist, expected)
    BY DEF TreeInv
  <2> DEFINE N == NUM_LEVELS
             next == [l \in 1 .. N + 1 |-> IF l = 1 THEN keys ELSE hist[l - 1]]
  <2>3. N \in Nat \ {0}
    BY EnoughLevels
  <2>4. tree \in Trees
    BY DEF TreeInv
  <2>5. \A l \in 1 .. N + 1 : next[l] \in KeysOf(tree)
    BY <2>2, <2>3 DEF History
  <2>6. History(tree, next)
    BY <2>5 DEF History
  <2>7. LevelsBest(tree, next, lvls')
    <3> SUFFICES ASSUME NEW l \in 1 .. N, NEW i \in Width(l)
                 PROVE  IsBest(tree, lvls'[l][i], next[l],
                               i * pow2[l], (i + 1) * pow2[l] - 1)
      BY DEF LevelsBest
    <3> DEFINE P == pow2[l - 1]
               a == Input(keys, l, 2 * i)
               b == Input(keys, l, 2 * i + 1)
    <3>1. /\ i \in Nat /\ l \in Nat /\ l - 1 \in Nat /\ (l - 1) + 1 = l
          /\ l \in 1 .. N + 1
      BY <2>3, WidthIs
    <3>2. P \in Nat /\ P > 0 /\ pow2[l] = 2 * P
      BY <3>1, Pow2
    <3>3. \A j \in {2 * i, 2 * i + 1} :
            IsBest(tree, Input(keys, l, j), next[l], j * P, (j + 1) * P - 1)
      <4>1. CASE l = 1
        <5>1. P = 1 /\ next[l] = keys
          BY <4>1, <2>3, Pow2
        <5>2. ASSUME NEW j \in {2 * i, 2 * i + 1}
              PROVE  IsBest(tree, Input(keys, l, j), next[l], j * P, (j + 1) * P - 1)
          <6>1. j \in Nat /\ j * P = j /\ (j + 1) * P - 1 = j
            BY <3>1, <5>1
          <6>2. Input(keys, l, j) = Leaf(keys, j)
            BY <4>1 DEF Input
          <6> QED BY <2>4, <5>1, <6>1, <6>2, LeafBest
        <5> QED BY <5>2
      <4>2. CASE l > 1
        <5>1. l - 1 \in 1 .. N /\ next[l] = hist[l - 1]
          BY <4>2, <3>1, <2>3
        <5>2. \A j \in {2 * i, 2 * i + 1} : j \in Width(l - 1)
          BY <4>2, WidthIs
        <5>3. \A j : Input(keys, l, j) = lvls[l - 1][j]
          BY <4>2, <3>1 DEF Input
        <5> HIDE DEF P, next
        <5> QED BY <2>2, <5>1, <5>2, <5>3 DEF LevelsBest, P
      <4> QED BY <3>1, <4>1, <4>2
    <3>4. IsBest(tree, a, next[l], (2 * i) * P, (2 * i + 1) * P - 1)
      BY <3>3
    <3>5. IsBest(tree, b, next[l], (2 * i + 1) * P, (2 * i + 1 + 1) * P - 1)
      BY <3>3
    <3>6. lvls'[l][i] = JoinOf(tree, a, b)
      BY <2>1
    <3>7. next[l] \in KeysOf(tree)
      BY <2>5, <3>1
    <3> HIDE DEF P, next, a, b
    <3> DEFINE lo == (2 * i) * P
               mid == (2 * i + 1) * P
               hi == (2 * i + 1 + 1) * P - 1
    <3>8. /\ i * pow2[l] = lo /\ (i + 1) * pow2[l] - 1 = hi
          /\ lo \in Nat /\ mid \in Nat /\ hi \in Nat /\ lo < mid /\ mid <= hi
      <4>1. mid = lo + P /\ hi = lo + 2 * P - 1 /\ lo = 2 * (i * P)
        BY <3>1, <3>2
      <4>2. i * P \in Nat
        BY <3>1, <3>2
      <4>3. i * pow2[l] = 2 * (i * P) /\ (i + 1) * pow2[l] = 2 * (i * P) + 2 * P
        BY <3>1, <3>2
      <4> HIDE DEF lo, mid, hi
      <4> QED BY <3>2, <4>1, <4>2, <4>3
    <3>9. IsBest(tree, a, next[l], lo, mid - 1) /\ IsBest(tree, b, next[l], mid, hi)
      BY <3>4, <3>5
    <3> HIDE DEF lo, mid, hi
    <3>10. IsBest(tree, JoinOf(tree, a, b), next[l], lo, hi)
      BY <2>4, <3>7, <3>8, <3>9, JoinBest
    <3> QED BY <3>6, <3>8, <3>10
  <2>8. FinalBest(tree, next, final')
    <3>1. 0 \in Width(N) /\ N \in 1 .. N /\ N + 1 \in 1 .. N + 1
      BY <2>3, Pow2 DEF Width
    <3>2. 0 * pow2[N] = 0 /\ (0 + 1) * pow2[N] - 1 = pow2[N] - 1
      BY <2>3, Pow2
    <3>3. IsBest(tree, lvls[N][0], hist[N], 0 * pow2[N], (0 + 1) * pow2[N] - 1)
      BY <2>2, <3>1 DEF LevelsBest
    <3>4. next[N + 1] = hist[N]
      BY <2>3, <3>1
    <3> HIDE DEF next
    <3> QED BY <2>1, <3>2, <3>3, <3>4 DEF FinalBest
  <2>9. ExpectedBest(tree, next, expected')
    <3> DEFINE best == BestOf(tree, keys)
               moved == [l \in 1 .. N + 1 |-> BestOf(tree, next[l])]
    <3>1. expected = [l \in 1 .. N + 1 |-> BestOf(tree, hist[l])]
      BY <2>2 DEF ExpectedBest
    <3>2. \A l \in 1 .. N + 1 :
            moved[l] = IF l = 1 THEN best ELSE expected[l - 1]
      BY <2>3, <3>1
    <3>3. <<best>> \o SubSeq(expected, 1, N) = moved
      <4>1. expected \in Seq({expected[l] : l \in 1 .. N + 1}) /\ Len(expected) = N + 1
        BY <2>3, <3>1
      <4> HIDE DEF best
      <4>2. /\ Len(SubSeq(expected, 1, N)) = N
            /\ \A l \in 1 .. N : SubSeq(expected, 1, N)[l] = expected[l]
        BY <2>3, <4>1
      <4> DEFINE e == <<best>> \o SubSeq(expected, 1, N)
      <4>3. /\ Len(e) = N + 1 /\ e = [l \in 1 .. N + 1 |-> e[l]]
            /\ \A l \in 1 .. N + 1 : e[l] = IF l = 1 THEN best ELSE expected[l - 1]
        BY <2>3, <4>1, <4>2
      <4> HIDE DEF e
      <4>4. moved = [l \in 1 .. N + 1 |-> moved[l]]
        OBVIOUS
      <4> HIDE DEF moved
      <4> QED BY <3>2, <4>3, <4>4 DEF e
    <3> QED BY <2>1, <3>3 DEF ExpectedBest
  <2> HIDE DEF next
  <2> QED BY <2>1, <2>4, <2>6, <2>7, <2>8, <2>9 DEF TreeInv
<1> QED BY <1>1, <1>2

(* A selection never mixes the signals of two cycles and never loses to a  *)
(* list that is not valid: what comes out of either tree is what a         *)
(* comparison of all the lists at once would have chosen NUM_LEVELS + 1    *)
(* cycles ago, for every number of skip lists.                             *)
THEOREM TreesSelectAsOfEntry == Spec => []SelectsAsOfEntry
<1>1. TreeInv => SelectsAsOfEntry
  <2> SUFFICES ASSUME TreeInv PROVE Sel(final) = expected[NUM_LEVELS + 1]
    BY DEF SelectsAsOfEntry
  <2>1. PICK hist : /\ History(tree, hist)
                    /\ FinalBest(tree, hist, final)
                    /\ ExpectedBest(tree, hist, expected)
    BY DEF TreeInv
  <2>2. /\ NUM_LEVELS \in Nat /\ NUM_LEVELS + 1 \in 1 .. NUM_LEVELS + 1
        /\ NUM_LEVELS - 1 \in Nat /\ (NUM_LEVELS - 1) + 1 = NUM_LEVELS
    BY EnoughLevels
  <2>3. /\ pow2[NUM_LEVELS] - 1 \in Nat
        /\ pow2[NUM_LEVELS] - 1 >= NUM_SKIP_LISTS - 1
    <3>1. pow2[NUM_LEVELS] = 2 * pow2[NUM_LEVELS - 1] /\ pow2[NUM_LEVELS - 1] \in Nat
      BY <2>2, Pow2
    <3> QED BY <3>1, EnoughLevels, NumSkipListsAssumption
  <2>4. Sel(final) = BestOf(tree, hist[NUM_LEVELS + 1])
    BY <2>1, <2>2, <2>3, BestOfAll DEF TreeInv, History, FinalBest
  <2> QED BY <2>1, <2>2, <2>4 DEF ExpectedBest
<1> QED BY <1>1, TreeInit, TreeStep, PTL DEF Spec
=============================================================================

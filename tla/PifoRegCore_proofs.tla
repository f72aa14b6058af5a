------------------------- MODULE PifoRegCore_proofs -------------------------
(***************************************************************************)
(* What the circuit of pifo_reg.v does to the entries it holds, for every  *)
(* register width, every range of ranks and every set of meta data.  The   *)
(* lemmas speak of one clock edge of any register, so that the proofs      *)
(* about pifo_reg.v on its own and about the register inside pifo_top.v    *)
(* rest on the same ones.                                                  *)
(***************************************************************************)
EXTENDS PifoRegCore, FiniteSetTheorems, WellFoundedInduction, TLAPS

(* A nonempty set of naturals has a least element. *)
LEMMA NatHasLeast ==
  ASSUME NEW S \in SUBSET Nat, S # {}
  PROVE  \E m \in S : \A n \in S : m <= n
<1> DEFINE R == OpToRel(<, Nat)
<1>1. \A m, n \in S : n < m => <<n, m>> \in R
  BY DEF OpToRel
<1>2. IsWellFoundedOn(R, Nat)
  BY NatLessThanWellFounded
<1> HIDE DEF R
<1>3. PICK m \in S : \A n \in S : ~ (<<n, m>> \in R)
  BY <1>2, WFMin
<1>4. \A n \in S : ~ (n < m)
  BY <1>1, <1>3
<1>5. \A n \in S : n \in Nat /\ m \in Nat
  OBVIOUS
<1> QED BY <1>4, <1>5

(* Induction on Nat, stated about a set. *)
LEMMA Induction ==
  ASSUME NEW S, 0 \in S, \A n \in Nat : n \in S => n + 1 \in S
  PROVE  Nat \subseteq S
<1> SUFFICES ASSUME Nat \ S # {} PROVE FALSE
  OBVIOUS
<1> DEFINE T == Nat \ S
<1>1. T \in SUBSET Nat /\ T # {}
  OBVIOUS
<1>2. PICK n \in T : \A m \in T : n <= m
  <2> HIDE DEF T
  <2> QED BY <1>1, NatHasLeast
<1>3. n \in Nat /\ n \notin S /\ n # 0
  BY <1>2
<1>4. n - 1 \in Nat /\ n - 1 < n /\ (n - 1) + 1 = n
  BY <1>3
<1>5. n - 1 \in S
  BY <1>2, <1>4
<1> QED BY <1>3, <1>4, <1>5

(* A first value and a way to get from one value to the next give a        *)
(* function on Nat: it is put together from finite parts.                  *)
Iterates(f, v0, next) == f[0] = v0 /\ \A n \in Nat : f[n + 1] = next[<<n, f[n]>>]

LEMMA Recursion ==
  ASSUME NEW V, NEW v0 \in V, NEW next \in [Nat \X V -> V]
  PROVE  \E f \in [Nat -> V] : Iterates(f, v0, next)
<1> DEFINE Ok(g, n) == g[0] = v0 /\ \A i \in 0 .. n - 1 : g[i + 1] = next[<<i, g[i]>>]
           S == {n \in Nat : \E g \in [0 .. n -> V] : Ok(g, n)}
<1>1. 0 \in S
  <2> DEFINE g == [i \in 0 .. 0 |-> v0]
  <2>1. g \in [0 .. 0 -> V] /\ Ok(g, 0)
    OBVIOUS
  <2> QED BY <2>1
<1>2. ASSUME NEW n \in Nat, n \in S
      PROVE  n + 1 \in S
  <2>1. PICK g \in [0 .. n -> V] : Ok(g, n)
    BY <1>2
  <2> DEFINE v == next[<<n, g[n]>>]
             h == [i \in 0 .. n + 1 |-> IF i = n + 1 THEN v ELSE g[i]]
  <2>2. v \in V
    BY <2>1
  <2> HIDE DEF v
  <2>3. h \in [0 .. n + 1 -> V]
    BY <2>1, <2>2
  <2>4. h[0] = v0
    BY <2>1
  <2>5. ASSUME NEW i \in 0 .. (n + 1) - 1
        PROVE  h[i + 1] = next[<<i, h[i]>>]
    <3>1. CASE i = n
      <4>1. n + 1 \in 0 .. n + 1 /\ n \in 0 .. n + 1 /\ n # n + 1
        OBVIOUS
      <4>2. h[n + 1] = v /\ h[n] = g[n]
        BY <4>1
      <4> QED BY <3>1, <4>2 DEF v
    <3>2. CASE i # n
      <4>1. i \in 0 .. n - 1 /\ i + 1 # n + 1 /\ i # n + 1 /\ i \in 0 .. n + 1 /\ i + 1 \in 0 .. n + 1
        BY <3>2
      <4> QED BY <2>1, <4>1
    <3> QED BY <3>1, <3>2
  <2> HIDE DEF h
  <2>6. Ok(h, n + 1)
    BY <2>4, <2>5
  <2> HIDE DEF Ok
  <2>7. \E f \in [0 .. n + 1 -> V] : Ok(f, n + 1)
    BY <2>3, <2>6
  <2> QED BY <2>7
<1>3. Nat \subseteq S
  <2> HIDE DEF S
  <2> QED BY <1>1, <1>2, Induction
<1> DEFINE part == [n \in Nat |-> CHOOSE g \in [0 .. n -> V] : Ok(g, n)]
           f == [n \in Nat |-> part[n][n]]
<1>4. ASSUME NEW n \in Nat
      PROVE  part[n] \in [0 .. n -> V] /\ Ok(part[n], n)
  <2>1. \E g \in [0 .. n -> V] : Ok(g, n)
    BY <1>3
  <2> HIDE DEF Ok
  <2> QED BY <2>1
<1>5. ASSUME NEW n \in Nat
      PROVE  part[n + 1][n] = part[n][n]
  <2> DEFINE a == part[n]
             b == part[n + 1]
             E == {i \in Nat : i <= n => a[i] = b[i]}
  <2>1. Ok(a, n) /\ Ok(b, n + 1)
    <3> HIDE DEF Ok, part
    <3> QED BY <1>4
  <2> HIDE DEF part, a, b
  <2>2. 0 \in E
    BY <2>1
  <2>3. ASSUME NEW i \in Nat, i \in E
        PROVE  i + 1 \in E
    <3>1. SUFFICES ASSUME i + 1 <= n
                   PROVE  a[i + 1] = b[i + 1]
      OBVIOUS
    <3>2. i \in 0 .. n - 1 /\ i \in 0 .. (n + 1) - 1
      <4> HIDE DEF E
      <4> QED BY <2>3, <3>1
    <3>3. a[i] = b[i]
      BY <2>3, <3>1
    <3>4. a[i + 1] = next[<<i, a[i]>>]
      BY <2>1, <3>2
    <3>5. b[i + 1] = next[<<i, b[i]>>]
      BY <2>1, <3>2
    <3> QED BY <3>3, <3>4, <3>5
  <2>4. Nat \subseteq E
    <3> HIDE DEF E
    <3> QED BY <2>2, <2>3, Induction
  <2>5. a[n] = b[n]
    BY <2>4
  <2> QED BY <2>5 DEF a, b
<1> HIDE DEF part
<1>6. f \in [Nat -> V] /\ f[0] = v0
  BY <1>4
<1>7. ASSUME NEW n \in Nat
      PROVE  f[n + 1] = next[<<n, f[n]>>]
  <2>1. Ok(part[n + 1], n + 1)
    BY <1>4
  <2>2. part[n + 1][n + 1] = next[<<n, part[n + 1][n]>>]
    BY <2>1
  <2> QED BY <2>2, <1>5
<1> HIDE DEF f
<1> QED BY <1>6, <1>7 DEF Iterates

(* The powers of two are what their recursive definition says. *)
LEMMA Pow2Def == pow2 = [n \in Nat |-> IF n = 0 THEN 1 ELSE 2 * pow2[n - 1]]
<1> DEFINE double == [p \in Nat \X Nat |-> 2 * p[2]]
<1>1. double \in [Nat \X Nat -> Nat]
  OBVIOUS
<1> HIDE DEF double
<1>2. PICK f \in [Nat -> Nat] : Iterates(f, 1, double)
  BY <1>1, Recursion
<1>3. ASSUME NEW n \in Nat
      PROVE  f[n] = IF n = 0 THEN 1 ELSE 2 * f[n - 1]
  <2>1. CASE n = 0
    BY <1>2, <2>1 DEF Iterates
  <2>2. CASE n # 0
    <3>1. n - 1 \in Nat /\ (n - 1) + 1 = n
      BY <2>2
    <3>2. f[n] = double[<<n - 1, f[n - 1]>>]
      BY <1>2, <3>1 DEF Iterates
    <3> QED BY <3>1, <3>2, <2>2 DEF double
  <2> QED BY <2>1, <2>2
<1>4. f = [n \in Nat |-> IF n = 0 THEN 1 ELSE 2 * f[n - 1]]
  BY <1>3
<1> QED BY <1>4 DEF pow2

LEMMA Pow2 ==
  /\ pow2[0] = 1
  /\ \A n \in Nat : pow2[n] \in Nat \ {0} /\ pow2[n + 1] = 2 * pow2[n]
<1> DEFINE S == {n \in Nat : pow2[n] \in Nat \ {0}}
<1>1. pow2[0] = 1
  BY Pow2Def
<1>2. ASSUME NEW n \in Nat
      PROVE  pow2[n + 1] = 2 * pow2[n]
  <2>1. n + 1 \in Nat /\ n + 1 # 0 /\ (n + 1) - 1 = n
    OBVIOUS
  <2> QED BY <2>1, Pow2Def
<1>3. 0 \in S
  BY <1>1
<1>4. ASSUME NEW n \in Nat, n \in S
      PROVE  n + 1 \in S
  BY <1>2, <1>4
<1>5. Nat \subseteq S
  <2> HIDE DEF S
  <2> QED BY <1>3, <1>4, Induction
<1> QED BY <1>1, <1>2, <1>5

(* A nonempty set of naturals with an upper bound has a greatest element. *)
LEMMA NatHasGreatest ==
  ASSUME NEW S \in SUBSET Nat, S # {}, NEW b \in Nat, \A n \in S : n <= b
  PROVE  \E m \in S : \A n \in S : n <= m
<1> DEFINE T == {b - n : n \in S}
<1>0. \A n \in S : n \in Nat /\ b - n \in Nat
  OBVIOUS
<1>1. T \in SUBSET Nat /\ T # {}
  BY <1>0
<1>2. PICK t \in T : \A u \in T : t <= u
  BY <1>1, NatHasLeast
<1>3. PICK m \in S : t = b - m
  OBVIOUS
<1>4. \A n \in S : b - m <= b - n
  BY <1>2, <1>3
<1> QED BY <1>0, <1>3, <1>4

(* A register whose slots hold entries or nothing. *)
SlotsTyped(r) == r.slots \in [Slots -> MaybeEntry]

(* What the minimum tree selects: a valid slot of the smallest rank. *)
LEMMA MinIdxSelects ==
  ASSUME NEW r, SlotsTyped(r), Used(r) # {}
  PROVE  /\ MinIdx(r) \in Used(r)
         /\ \A j \in Used(r) : r.slots[MinIdx(r)].rank <= r.slots[j].rank
<1> DEFINE S == {r.slots[i].rank : i \in Used(r)}
           Best(i) == \A j \in Used(r) :
                        \/ r.slots[i].rank < r.slots[j].rank
                        \/ r.slots[i].rank = r.slots[j].rank /\ i <= j
<1>0. \A i \in Used(r) : i \in Nat /\ r.slots[i].rank \in Nat
  BY RegWidthAssumption, MaxRankAssumption
     DEF Used, Slots, SlotsTyped, MaybeEntry, Entry, Ranks
<1>1. S \in SUBSET Nat /\ S # {}
  BY <1>0
<1>2. PICK m \in S : \A n \in S : m <= n
  BY <1>1, NatHasLeast
<1> DEFINE I == {i \in Used(r) : r.slots[i].rank = m}
<1>3. I \in SUBSET Nat /\ I # {}
  BY <1>0, <1>2
<1>4. PICK k \in I : \A n \in I : k <= n
  BY <1>3, NatHasLeast
<1>5. k \in Used(r) /\ r.slots[k].rank = m
  BY <1>4
<1>51. ASSUME NEW j \in Used(r)
       PROVE  r.slots[k].rank < r.slots[j].rank \/ (r.slots[k].rank = r.slots[j].rank /\ k <= j)
  <2>1. r.slots[j].rank \in S
    OBVIOUS
  <2>2. m <= r.slots[j].rank
    BY <1>2, <2>1
  <2>3. r.slots[j].rank = m => k <= j
    BY <1>4
  <2> QED BY <1>0, <1>5, <2>2, <2>3
<1>52. Best(k)
  BY <1>51
<1>6. MinIdx(r) = CHOOSE i \in Used(r) : Best(i)
  BY DEF MinIdx
<1>7. MinIdx(r) \in Used(r) /\ Best(MinIdx(r))
  BY <1>5, <1>52, <1>6
<1> QED BY <1>0, <1>7

(* What the maximum tree selects: a valid slot of the largest rank. *)
LEMMA MaxIdxSelects ==
  ASSUME NEW r, SlotsTyped(r), Used(r) # {}
  PROVE  /\ MaxIdx(r) \in Used(r)
         /\ \A j \in Used(r) : r.slots[MaxIdx(r)].rank >= r.slots[j].rank
<1> DEFINE S == {r.slots[i].rank : i \in Used(r)}
           Best(i) == \A j \in Used(r) :
                        \/ r.slots[i].rank > r.slots[j].rank
                        \/ r.slots[i].rank = r.slots[j].rank /\ i >= j
<1>0. \A i \in Used(r) : /\ i \in Nat /\ i <= REG_WIDTH
                         /\ r.slots[i].rank \in Nat
                         /\ r.slots[i].rank <= MAX_RANK
  BY RegWidthAssumption, MaxRankAssumption
     DEF Used, Slots, SlotsTyped, MaybeEntry, Entry, Ranks
<1>1. S \in SUBSET Nat /\ S # {} /\ \A n \in S : n <= MAX_RANK
  BY <1>0
<1>2. PICK m \in S : \A n \in S : n <= m
  BY <1>1, NatHasGreatest, MaxRankAssumption
<1> DEFINE I == {i \in Used(r) : r.slots[i].rank = m}
<1>3. I \in SUBSET Nat /\ I # {} /\ \A n \in I : n <= REG_WIDTH
  BY <1>0, <1>2
<1>4. PICK k \in I : \A n \in I : n <= k
  BY <1>3, NatHasGreatest, RegWidthAssumption
<1>5. k \in Used(r) /\ r.slots[k].rank = m
  BY <1>4
<1>51. ASSUME NEW j \in Used(r)
       PROVE  r.slots[k].rank > r.slots[j].rank \/ (r.slots[k].rank = r.slots[j].rank /\ k >= j)
  <2>1. r.slots[j].rank \in S
    OBVIOUS
  <2>2. m >= r.slots[j].rank
    BY <1>2, <2>1
  <2>3. r.slots[j].rank = m => k >= j
    BY <1>4
  <2> QED BY <1>0, <1>5, <2>2, <2>3
<1>52. Best(k)
  BY <1>51
<1>6. MaxIdx(r) = CHOOSE i \in Used(r) : Best(i)
  BY DEF MaxIdx
<1>7. MaxIdx(r) \in Used(r) /\ Best(MaxIdx(r))
  BY <1>5, <1>52, <1>6
<1> QED BY <1>0, <1>7

-----------------------------------------------------------------------------
(* The valid bits mark the first num_entries slots, and no entry is held   *)
(* twice, in the slots or back in insert_ltch.                             *)
Filled(r) == {i \in Slots : i < r.num_entries}
SlotsOK(r) ==
  /\ SlotsTyped(r)
  /\ r.num_entries \in 0 .. REG_WIDTH
  /\ r.insert_ltch \in MaybeEntry
  /\ \A i \in Slots : r.slots[i] # NoEntry <=> i < r.num_entries
  /\ \A i, j \in Filled(r) : r.slots[i] = r.slots[j] => i = j
  /\ r.insert_ltch # NoEntry => \A i \in Filled(r) : r.slots[i] # r.insert_ltch

LEMMA FilledSlots ==
  ASSUME NEW r, SlotsOK(r)
  PROVE  /\ r.num_entries \in Nat /\ r.num_entries <= REG_WIDTH
         /\ REG_WIDTH \in Nat /\ REG_WIDTH >= 2
         /\ Used(r) = Filled(r)
         /\ \A i \in Filled(r) : r.slots[i] \in Entry
         /\ Held(r) = {r.slots[i] : i \in Filled(r)} \cup ({r.insert_ltch} \ {NoEntry})
         /\ Held(r) \subseteq Entry
<1>1. /\ r.num_entries \in Nat /\ r.num_entries <= REG_WIDTH
      /\ REG_WIDTH \in Nat /\ REG_WIDTH >= 2
  BY RegWidthAssumption DEF SlotsOK
<1>2. Used(r) = Filled(r) /\ \A i \in Filled(r) : r.slots[i] \in Entry
  BY DEF SlotsOK, SlotsTyped, Used, Filled, MaybeEntry
<1>3. Held(r) = {r.slots[i] : i \in Filled(r)} \cup ({r.insert_ltch} \ {NoEntry})
  BY <1>2 DEF Held
<1>4. Held(r) \subseteq Entry
  BY <1>2, <1>3 DEF SlotsOK, MaybeEntry
<1> QED BY <1>1, <1>2, <1>3, <1>4

(* The reset state. *)
LEMMA RegInitSlots == SlotsOK(RegInit) /\ Held(RegInit) = {}
<1>1. /\ RegInit.slots = [i \in Slots |-> NoEntry]
      /\ RegInit.num_entries = 0
      /\ RegInit.insert_ltch = NoEntry
  BY DEF RegInit
<1>2. Filled(RegInit) = {}
  BY <1>1, RegWidthAssumption DEF Filled, Slots
<1>3. SlotsOK(RegInit)
  BY <1>1, <1>2, RegWidthAssumption DEF SlotsOK, SlotsTyped, MaybeEntry, Slots
<1> QED BY <1>1, <1>2, <1>3, FilledSlots

(* Closing the gap keeps every entry but the minimum, in order. *)
LEMMA CloseGapShape ==
  ASSUME NEW r, SlotsOK(r), r.num_entries > 0
  PROVE  /\ MinIdx(r) \in Filled(r)
         /\ \A j \in Filled(r) : MinOut(r).rank <= r.slots[j].rank
         /\ CloseGap(r) \in [Slots -> MaybeEntry]
         /\ \A i \in Slots :
               CloseGap(r)[i] =
                 IF i >= r.num_entries - 1 THEN NoEntry
                 ELSE IF i < MinIdx(r) THEN r.slots[i] ELSE r.slots[i + 1]
<1>0. SlotsTyped(r)
  BY DEF SlotsOK
<1>1. 0 \in Filled(r)
  BY FilledSlots DEF Filled, Slots
<1>2. /\ MinIdx(r) \in Filled(r)
      /\ \A j \in Filled(r) : MinOut(r).rank <= r.slots[j].rank
  BY <1>0, <1>1, FilledSlots, MinIdxSelects DEF MinOut
<1>3. \A i \in Slots : r.slots[i] \in MaybeEntry /\ (i >= r.num_entries => r.slots[i] = NoEntry)
  BY FilledSlots DEF SlotsTyped, SlotsOK, Slots
<1>4. CloseGap(r) \in [Slots -> MaybeEntry]
  BY <1>3 DEF CloseGap, MaybeEntry
<1>5. ASSUME NEW i \in Slots
      PROVE  CloseGap(r)[i] =
                 IF i >= r.num_entries - 1 THEN NoEntry
                 ELSE IF i < MinIdx(r) THEN r.slots[i] ELSE r.slots[i + 1]
  <2>1. /\ i \in Nat /\ i < REG_WIDTH /\ MinIdx(r) \in Nat
        /\ MinIdx(r) < r.num_entries
        /\ r.num_entries \in Nat /\ r.num_entries <= REG_WIDTH
    BY <1>2, FilledSlots DEF Filled, Slots
  <2>2. CASE i >= r.num_entries - 1
    BY <1>3, <2>1, <2>2, RegWidthAssumption DEF CloseGap, Slots
  <2>3. CASE i < r.num_entries - 1
    BY <1>3, <2>1, <2>3, RegWidthAssumption DEF CloseGap, Slots
  <2> QED BY <2>1, <2>2, <2>3
<1> QED BY <1>2, <1>4, <1>5

(* An insert fills the first free slot or replaces a larger maximum. *)
LEMMA StoredShape ==
  ASSUME NEW r, SlotsOK(r), NEW e \in Entry
  PROVE  /\ Stored(r, e) \in [Slots -> MaybeEntry]
         /\ r.num_entries < REG_WIDTH =>
               /\ r.num_entries \in Slots
               /\ Stored(r, e) = [r.slots EXCEPT ![r.num_entries] = e]
         /\ r.num_entries = REG_WIDTH =>
               /\ MaxIdx(r) \in Filled(r)
               /\ MaxOut(r) \in Entry
               /\ \A j \in Filled(r) : MaxOut(r).rank >= r.slots[j].rank
               /\ Stored(r, e) = IF e.rank < MaxOut(r).rank
                                   THEN [r.slots EXCEPT ![MaxIdx(r)] = e]
                                   ELSE r.slots
<1>1. r.slots \in [Slots -> MaybeEntry] /\ e \in MaybeEntry /\ SlotsTyped(r)
  BY DEF SlotsOK, SlotsTyped, MaybeEntry
<1>2. CASE r.num_entries < REG_WIDTH
  BY <1>1, <1>2, FilledSlots DEF Stored, Slots
<1>3. CASE r.num_entries = REG_WIDTH
  <2>1. 0 \in Filled(r)
    BY <1>3, FilledSlots DEF Filled, Slots
  <2>2. /\ MaxIdx(r) \in Filled(r)
        /\ \A j \in Filled(r) : MaxOut(r).rank >= r.slots[j].rank
    BY <1>1, <2>1, FilledSlots, MaxIdxSelects DEF MaxOut
  <2>3. MaxOut(r) \in Entry /\ MaxIdx(r) \in Slots
    BY <2>2, FilledSlots DEF MaxOut, Filled
  <2>4. Stored(r, e) = IF e.rank < MaxOut(r).rank
                         THEN [r.slots EXCEPT ![MaxIdx(r)] = e]
                         ELSE r.slots
    BY <1>3, RegWidthAssumption DEF Stored
  <2> QED BY <1>1, <1>3, <2>2, <2>3, <2>4, RegWidthAssumption
<1> QED BY <1>2, <1>3, FilledSlots

-----------------------------------------------------------------------------
(* A remove takes the minimum out and nothing else; an insert in the same  *)
(* cycle is held back.                                                     *)
LEMMA RemoveEffect ==
  ASSUME NEW r, SlotsOK(r), r.num_entries > 0, r.insert_ltch = NoEntry,
         NEW ins \in MaybeEntry, ins \notin Held(r)
  PROVE  /\ SlotsOK(AfterRemove(r, ins))
         /\ MinOut(r) \in Held(r)
         /\ \A e \in Held(r) : MinOut(r).rank <= e.rank
         /\ Held(AfterRemove(r, ins)) = (Held(r) \ {MinOut(r)}) \cup ({ins} \ {NoEntry})
<1> DEFINE q == AfterRemove(r, ins)
           Old(i) == IF i < MinIdx(r) THEN i ELSE i + 1
           New(k) == IF k < MinIdx(r) THEN k ELSE k - 1
<1>1. /\ q.slots = CloseGap(r)
      /\ q.num_entries = r.num_entries - 1
      /\ q.insert_ltch = ins
  BY DEF AfterRemove
<1> HIDE DEF q
<1>2. /\ r.num_entries \in Nat /\ r.num_entries <= REG_WIDTH
      /\ REG_WIDTH \in Nat /\ REG_WIDTH >= 2
      /\ Held(r) = {r.slots[i] : i \in Filled(r)}
      /\ \A i \in Filled(r) : r.slots[i] \in Entry
  BY FilledSlots
<1>3. /\ MinIdx(r) \in Filled(r)
      /\ \A j \in Filled(r) : MinOut(r).rank <= r.slots[j].rank
      /\ CloseGap(r) \in [Slots -> MaybeEntry]
      /\ \A i \in Slots :
            CloseGap(r)[i] =
              IF i >= r.num_entries - 1 THEN NoEntry
              ELSE IF i < MinIdx(r) THEN r.slots[i] ELSE r.slots[i + 1]
  BY CloseGapShape
<1>4. MinIdx(r) \in Nat /\ MinIdx(r) < r.num_entries
  BY <1>2, <1>3 DEF Filled, Slots
<1>5. ASSUME NEW i \in Filled(q)
      PROVE  /\ Old(i) \in Filled(r) /\ Old(i) # MinIdx(r)
             /\ q.slots[i] = r.slots[Old(i)]
  <2>1. i \in Slots /\ i \in Nat /\ i < r.num_entries - 1
    BY <1>1, <1>2 DEF Filled, Slots
  <2>2. CASE i < MinIdx(r)
    BY <1>1, <1>2, <1>3, <1>4, <2>1, <2>2 DEF Filled, Slots
  <2>3. CASE ~(i < MinIdx(r))
    BY <1>1, <1>2, <1>3, <1>4, <2>1, <2>3 DEF Filled, Slots
  <2> QED BY <2>2, <2>3
<1>6. ASSUME NEW k \in Filled(r), k # MinIdx(r)
      PROVE  New(k) \in Filled(q) /\ q.slots[New(k)] = r.slots[k]
  <2>1. k \in Slots /\ k \in Nat /\ k < r.num_entries
    BY <1>2 DEF Filled, Slots
  <2>2. CASE k < MinIdx(r)
    BY <1>1, <1>2, <1>3, <1>4, <2>1, <2>2 DEF Filled, Slots
  <2>3. CASE ~(k < MinIdx(r))
    BY <1>1, <1>2, <1>3, <1>4, <1>6, <2>1, <2>3 DEF Filled, Slots
  <2> QED BY <2>2, <2>3
<1>7. \A i, j \in Filled(r) : r.slots[i] = r.slots[j] => i = j
  BY DEF SlotsOK
<1>8. MinOut(r) = r.slots[MinIdx(r)] /\ MinOut(r) \in Held(r)
  BY <1>2, <1>3 DEF MinOut
<1>9. {q.slots[i] : i \in Filled(q)} = Held(r) \ {MinOut(r)}
  <2>1. ASSUME NEW i \in Filled(q)
        PROVE  q.slots[i] \in Held(r) \ {MinOut(r)}
    BY <1>2, <1>3, <1>5, <1>7, <1>8
  <2>2. ASSUME NEW k \in Filled(r), r.slots[k] # MinOut(r)
        PROVE  \E i \in Filled(q) : r.slots[k] = q.slots[i]
    BY <1>6, <1>8, <2>2
  <2> QED BY <1>2, <2>1, <2>2
<1>10. SlotsOK(q)
  <2>1. SlotsTyped(q) /\ q.num_entries \in 0 .. REG_WIDTH /\ q.insert_ltch \in MaybeEntry
    BY <1>1, <1>2, <1>3 DEF SlotsTyped
  <2>2. ASSUME NEW i \in Slots
        PROVE  q.slots[i] # NoEntry <=> i < q.num_entries
    <3>1. CASE i < q.num_entries
      BY <1>2, <1>5, <3>1, NoEntryAssumption DEF Filled
    <3>2. CASE ~(i < q.num_entries)
      BY <1>1, <1>2, <1>3, <3>2 DEF Slots
    <3> QED BY <3>1, <3>2
  <2>3. ASSUME NEW i \in Filled(q), NEW j \in Filled(q), q.slots[i] = q.slots[j]
        PROVE  i = j
    <3>1. Old(i) = Old(j)
      BY <1>5, <1>7, <2>3
    <3> QED BY <1>2, <1>4, <3>1 DEF Filled, Slots
  <2>4. ASSUME NEW i \in Filled(q)
        PROVE  q.slots[i] # q.insert_ltch
    BY <1>1, <1>9
  <2> QED BY <2>1, <2>2, <2>3, <2>4 DEF SlotsOK
<1>11. Held(q) = (Held(r) \ {MinOut(r)}) \cup ({ins} \ {NoEntry})
  BY <1>1, <1>9, <1>10, FilledSlots
<1>12. \A e \in Held(r) : MinOut(r).rank <= e.rank
  BY <1>2, <1>3
<1> QED BY <1>8, <1>10, <1>11, <1>12 DEF q

(* An insert adds its entry; when the register is full the entry takes the *)
(* place of a larger maximum or is forgotten.  An entry that was held back *)
(* counts as inside already.                                               *)
LEMMA InsertEffect ==
  ASSUME NEW r, SlotsOK(r), NEW e \in Entry, NEW ins, NEW rmv,
         \/ r.insert_ltch = NoEntry /\ e \notin Held(r)
         \/ r.insert_ltch = e /\ r.num_entries < REG_WIDTH
  PROVE  /\ SlotsOK(AfterInsert(r, e, ins, rmv))
         /\ r.num_entries < REG_WIDTH =>
               Held(AfterInsert(r, e, ins, rmv)) = Held(r) \cup {e}
         /\ r.num_entries = REG_WIDTH =>
               /\ MaxOut(r) \in Held(r)
               /\ \A f \in Held(r) : f.rank <= MaxOut(r).rank
               /\ e.rank < MaxOut(r).rank =>
                     Held(AfterInsert(r, e, ins, rmv)) = (Held(r) \ {MaxOut(r)}) \cup {e}
               /\ ~(e.rank < MaxOut(r).rank) =>
                     Held(AfterInsert(r, e, ins, rmv)) = Held(r)
<1> DEFINE q == AfterInsert(r, e, ins, rmv)
<1>1. /\ q.slots = Stored(r, e)
      /\ q.num_entries = IF r.num_entries < REG_WIDTH THEN r.num_entries + 1
                         ELSE r.num_entries
      /\ q.insert_ltch = NoEntry
  BY DEF AfterInsert
<1> HIDE DEF q
<1>2. /\ r.num_entries \in Nat /\ r.num_entries <= REG_WIDTH
      /\ REG_WIDTH \in Nat /\ REG_WIDTH >= 2
      /\ Held(r) = {r.slots[i] : i \in Filled(r)} \cup ({r.insert_ltch} \ {NoEntry})
      /\ \A i \in Filled(r) : r.slots[i] \in Entry
      /\ r.slots \in [Slots -> MaybeEntry]
      /\ e # NoEntry
  BY FilledSlots, NoEntryAssumption DEF SlotsOK, SlotsTyped
<1>3. /\ \A i \in Slots : r.slots[i] # NoEntry <=> i < r.num_entries
      /\ \A i, j \in Filled(r) : r.slots[i] = r.slots[j] => i = j
      /\ \A i \in Filled(r) : r.slots[i] # e
  BY <1>2 DEF SlotsOK
<1>4. SlotsTyped(q) /\ q.num_entries \in 0 .. REG_WIDTH /\ q.insert_ltch \in MaybeEntry
  BY <1>1, <1>2, StoredShape DEF SlotsTyped, MaybeEntry
<1>5. CASE r.num_entries < REG_WIDTH
  <2> DEFINE n == r.num_entries
  <2>1. /\ n \in Slots
        /\ q.slots = [r.slots EXCEPT ![n] = e]
        /\ q.num_entries = n + 1
    BY <1>1, <1>5, StoredShape
  <2>2. Filled(q) = Filled(r) \cup {n} /\ n \notin Filled(r)
    BY <1>2, <2>1 DEF Filled, Slots
  <2>3. q.slots[n] = e /\ \A i \in Slots : i # n => q.slots[i] = r.slots[i]
    BY <1>2, <2>1
  <2>4. \A i \in Filled(r) : q.slots[i] = r.slots[i]
    BY <2>2, <2>3 DEF Filled
  <2>5. \A i \in Slots : q.slots[i] # NoEntry <=> i < q.num_entries
    BY <1>2, <1>3, <2>1, <2>3 DEF Slots
  <2>6. \A i, j \in Filled(q) : q.slots[i] = q.slots[j] => i = j
    BY <1>3, <2>2, <2>3, <2>4
  <2>7. SlotsOK(q)
    BY <1>1, <1>4, <2>5, <2>6 DEF SlotsOK
  <2>8. {q.slots[i] : i \in Filled(q)} = {r.slots[i] : i \in Filled(r)} \cup {e}
    BY <2>2, <2>3, <2>4
  <2>9. Held(q) = {q.slots[i] : i \in Filled(q)}
    BY <1>1, <2>7, FilledSlots
  <2>10. Held(q) = Held(r) \cup {e}
    BY <1>2, <2>8, <2>9
  <2> QED BY <1>2, <1>5, <2>7, <2>10 DEF q
<1>6. CASE r.num_entries = REG_WIDTH
  <2> DEFINE x == MaxIdx(r)
  <2>1. /\ x \in Filled(r)
        /\ \A j \in Filled(r) : MaxOut(r).rank >= r.slots[j].rank
        /\ MaxOut(r) = r.slots[x]
        /\ q.slots = IF e.rank < MaxOut(r).rank
                     THEN [r.slots EXCEPT ![x] = e] ELSE r.slots
        /\ q.num_entries = REG_WIDTH
    BY <1>1, <1>2, <1>6, StoredShape DEF MaxOut
  <2> HIDE DEF x
  <2>2. Filled(q) = Slots /\ Filled(r) = Slots /\ r.insert_ltch = NoEntry
        /\ \A i \in Slots : i < q.num_entries
    BY <1>2, <1>6, <2>1 DEF Filled, Slots
  <2>3. Held(r) = {r.slots[i] : i \in Slots}
    BY <1>2, <2>2
  <2>31. \A f \in Held(r) : f.rank <= MaxOut(r).rank
    <3>1. \A f \in Held(r) : f.rank \in Nat /\ MaxOut(r).rank \in Nat
      BY <1>2, <2>1, <2>2, <2>3, MaxRankAssumption DEF Entry, Ranks
    <3> QED BY <2>1, <2>2, <2>3, <3>1
  <2>4. CASE e.rank < MaxOut(r).rank
    <3>1. q.slots = [r.slots EXCEPT ![x] = e]
      BY <2>1, <2>4
    <3>2. q.slots[x] = e /\ \A i \in Slots : i # x => q.slots[i] = r.slots[i]
      BY <1>2, <2>1, <2>2, <3>1
    <3>3. \A i \in Slots : q.slots[i] # NoEntry
      BY <1>2, <2>2, <3>2, NoEntryAssumption
    <3>4. \A i, j \in Slots : q.slots[i] = q.slots[j] => i = j
      BY <1>3, <2>2, <3>2
    <3>5. SlotsOK(q)
      BY <1>1, <1>4, <2>2, <3>3, <3>4 DEF SlotsOK
    <3>6. Held(q) = {q.slots[i] : i \in Slots}
      BY <1>1, <2>2, <3>5, FilledSlots
    <3>7. \A i \in Slots : i # x => r.slots[i] # MaxOut(r)
      BY <1>3, <2>1, <2>2
    <3>8. Held(q) = (Held(r) \ {MaxOut(r)}) \cup {e}
      BY <2>1, <2>2, <2>3, <3>2, <3>6, <3>7
    <3> QED BY <1>6, <1>2, <2>1, <2>2, <2>3, <2>31, <2>4, <3>5, <3>8 DEF q
  <2>5. CASE ~(e.rank < MaxOut(r).rank)
    <3>1. q.slots = r.slots
      BY <2>1, <2>5
    <3>2. SlotsOK(q)
      <4>1. \A i \in Slots : q.slots[i] # NoEntry <=> i < q.num_entries
        BY <1>3, <1>6, <2>1, <3>1
      <4>2. \A i, j \in Filled(q) : q.slots[i] = q.slots[j] => i = j
        BY <1>3, <2>2, <3>1
      <4> QED BY <1>1, <1>4, <4>1, <4>2 DEF SlotsOK
    <3>3. Held(q) = Held(r)
      BY <1>1, <2>2, <2>3, <3>1, <3>2, FilledSlots
    <3> QED BY <1>6, <1>2, <2>1, <2>2, <2>3, <2>31, <2>5, <3>2, <3>3 DEF q
  <2> QED BY <2>4, <2>5
<1> QED BY <1>2, <1>5, <1>6

(* A cycle without a remove, an insert or a held-back insert. *)
LEMMA IdleEffect ==
  ASSUME NEW r, SlotsOK(r), NEW rmv
  PROVE  SlotsOK(AfterIdle(r, rmv)) /\ Held(AfterIdle(r, rmv)) = Held(r)
<1> DEFINE q == AfterIdle(r, rmv)
<1>1. q.slots = r.slots /\ q.num_entries = r.num_entries /\ q.insert_ltch = r.insert_ltch
  BY DEF AfterIdle
<1> HIDE DEF q
<1>2. Filled(q) = Filled(r) /\ Used(q) = Used(r)
  BY <1>1 DEF Filled, Used
<1>3. SlotsOK(q)
  BY <1>1, <1>2 DEF SlotsOK, SlotsTyped
<1> QED BY <1>1, <1>2, <1>3 DEF Held, q
=============================================================================

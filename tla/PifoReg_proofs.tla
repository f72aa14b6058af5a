--------------------------- MODULE PifoReg_proofs ---------------------------
(***************************************************************************)
(* Proofs about the push-in-first-out register: its inductive invariant,   *)
(* that it implements the abstract queue, and that its trees of            *)
(* comparators find the slots they are there to find, for every register   *)
(* width, every range of ranks and every set of meta data.                 *)
(***************************************************************************)
EXTENDS ComparatorTree, PifoRegCore_proofs, Integers

(* Under the invariant the slots are as the lemmas about one clock edge    *)
(* need them, and a meta data word names one entry.                        *)
UniqueMetas(S) == \A e, f \in S : e.meta = f.meta => e = f

LEMMA InvSlots ==
  ASSUME IInv
  PROVE  /\ SlotsOK(reg)
         /\ InSlots = Filled(reg)
         /\ UniqueMetas(Held(reg))
<1>1. InSlots = Filled(reg)
  BY DEF InSlots, Filled
<1>2. SlotsOK(reg)
  BY <1>1 DEF IInv, TypeOK, Register, Packed, Distinct, SlotsOK, SlotsTyped
<1>3. UniqueMetas(Held(reg))
  BY <1>1, <1>2, FilledSlots DEF IInv, Distinct, UniqueMetas
<1> QED BY <1>1, <1>2, <1>3

(* And back, for the state after a cycle. *)
LEMMA InvFromSlots ==
  ASSUME SlotsOK(reg'), UniqueMetas(Held(reg'))
  PROVE  Packed' /\ Distinct'
<1>1. InSlots' = Filled(reg')
  BY DEF InSlots, Filled
<1>2. /\ \A i \in Filled(reg') : reg'.slots[i] \in Held(reg')
      /\ reg'.insert_ltch # NoEntry => reg'.insert_ltch \in Held(reg')
  BY FilledSlots
<1> QED BY <1>1, <1>2 DEF SlotsOK, Packed, Distinct, UniqueMetas

-----------------------------------------------------------------------------
(* The three things a clock edge can do to the register. *)
RemoveEdge(ins) == reg' = AfterRemove(reg, ins)
InsertEdge(e, ins) == reg' = AfterInsert(reg, e, ins, FALSE)
IdleEdge == reg' = AfterIdle(reg, FALSE)

(* What a cycle that removes does to the invariant; ins is the insert that *)
(* arrives in the same cycle, or NoEntry.                                  *)
LEMMA RemovePreserves ==
  ASSUME IInv, MayRemove,
         NEW ins \in MaybeEntry, ins # NoEntry => MayInsert(ins),
         RemoveEdge(ins),
         pr_insert_last_r' \in BOOLEAN, pr_insert_last_r' <=> ins # NoEntry,
         remove_last' \in BOOLEAN, remove_last',
         popped' \in MaybeEntry, displaced' \in MaybeEntry
  PROVE  IInv'
<1>1. /\ reg.num_entries \in 1 .. REG_WIDTH
      /\ reg.insert_ltch = NoEntry
      /\ REG_WIDTH \in Nat /\ REG_WIDTH >= 2
      /\ reg.valid_out /\ ~remove_last
  BY InvSlots, FilledSlots DEF IInv, ValidMeansEntry, LatchSafe, MayRemove
<1>2. /\ reg'.num_entries = reg.num_entries - 1
      /\ reg'.insert_ltch = ins
      /\ reg'.calc_min_max
      /\ reg'.valid_out <=> reg.calc_min_max /\ reg.num_entries > 0
      /\ reg'.full <=> ins # NoEntry /\ reg.full
      /\ reg'.empty <=> reg.num_entries = 1 \/ reg.empty
  BY DEF RemoveEdge, AfterRemove, ValidNext
<1>3. /\ SlotsOK(reg')
      /\ Held(reg') = (Held(reg) \ {MinOut(reg)}) \cup ({ins} \ {NoEntry})
  <2>1. ins \notin Held(reg)
    BY InvSlots, FilledSlots, NoEntryAssumption DEF MayInsert, FreshEntry
  <2> QED BY <1>1, <2>1, InvSlots, RemoveEffect DEF RemoveEdge
<1>4. TypeOK'
  <2>1. reg' \in Register
    BY <1>1, <1>3 DEF RemoveEdge, AfterRemove, Register, ValidNext,
                      SlotsOK, SlotsTyped, IInv, TypeOK
  <2> QED BY <2>1 DEF TypeOK
<1>5. FullExact'
  BY <1>1, <1>2 DEF IInv, FullExact, Pending, TypeOK, Register
<1>6. LatchSafe'
  BY <1>1, <1>2 DEF LatchSafe
<1>7. ValidMeansEntry'
  BY <1>1, <1>2 DEF IInv, ValidSteady, ValidMeansEntry
<1>8. NeverStuck'
  BY <1>2 DEF NeverStuck
<1>9. Packed' /\ Distinct'
  <2>1. UniqueMetas(Held(reg'))
    BY <1>3, InvSlots DEF UniqueMetas, MayInsert, FreshEntry
  <2> QED BY <1>3, <2>1, InvFromSlots
<1>10. ValidSteady'
  BY DEF ValidSteady
<1>11. EmptyMeansNone'
  BY <1>1, <1>2 DEF IInv, EmptyMeansNone
<1> QED BY <1>4, <1>5, <1>6, <1>7, <1>8, <1>9, <1>10, <1>11 DEF IInv

(* What such a cycle does to the register. *)
LEMMA InsertEdgeEffect ==
  ASSUME NEW e \in Entry, NEW ins, SlotsOK(reg), InsertEdge(e, ins),
         \/ reg.insert_ltch = NoEntry /\ e \notin Held(reg)
         \/ reg.insert_ltch = e /\ reg.num_entries < REG_WIDTH
  PROVE  /\ SlotsOK(reg')
         /\ reg.num_entries < REG_WIDTH => Held(reg') = Held(reg) \cup {e}
         /\ reg.num_entries = REG_WIDTH =>
               /\ MaxOut(reg) \in Held(reg)
               /\ \A f \in Held(reg) : f.rank <= MaxOut(reg).rank
               /\ e.rank < MaxOut(reg).rank =>
                     Held(reg') = (Held(reg) \ {MaxOut(reg)}) \cup {e}
               /\ ~(e.rank < MaxOut(reg).rank) => Held(reg') = Held(reg)
<1> DEFINE rmv == FALSE
<1>1. reg' = AfterInsert(reg, e, ins, rmv)
  BY DEF InsertEdge
<1> HIDE DEF rmv
<1> QED BY <1>1, InsertEffect

(* What a cycle that stores an entry does to the invariant: e comes from   *)
(* the port (ins = e) or was held back by the cycle before (ins = NoEntry) *)
LEMMA InsertPreserves ==
  ASSUME IInv, NEW e \in Entry, NEW ins \in MaybeEntry,
         ins # NoEntry => ins = e /\ MayInsert(e),
         ins = NoEntry => reg.insert_ltch = e,
         InsertEdge(e, ins),
         pr_insert_last_r' \in BOOLEAN, pr_insert_last_r' <=> ins # NoEntry,
         remove_last' \in BOOLEAN, ~remove_last',
         popped' \in MaybeEntry, displaced' \in MaybeEntry
  PROVE  IInv'
<1>1. /\ reg.num_entries \in Nat /\ reg.num_entries <= REG_WIDTH
      /\ REG_WIDTH \in Nat /\ REG_WIDTH >= 2
      /\ e # NoEntry
  BY InvSlots, FilledSlots, NoEntryAssumption
<1>a. /\ reg.num_entries < REG_WIDTH => reg'.num_entries = reg.num_entries + 1
      /\ ~(reg.num_entries < REG_WIDTH) => reg'.num_entries = reg.num_entries
      /\ reg'.insert_ltch = NoEntry
      /\ reg'.calc_min_max
      /\ reg'.valid_out <=> \/ reg.calc_min_max /\ reg.num_entries > 0
                            \/ reg.valid_out /\ ins = NoEntry
      /\ reg'.full <=> reg.num_entries >= REG_WIDTH - 1
      /\ ~reg'.empty
  BY DEF InsertEdge, AfterInsert, ValidNext
<1>2. /\ reg.num_entries < REG_WIDTH => reg'.num_entries = reg.num_entries + 1
      /\ reg.num_entries = REG_WIDTH => reg'.num_entries = REG_WIDTH
      /\ reg'.insert_ltch = NoEntry
      /\ reg'.calc_min_max
      /\ reg'.valid_out <=> \/ reg.calc_min_max /\ reg.num_entries > 0
                            \/ reg.valid_out /\ ins = NoEntry
      /\ reg'.full <=> reg.num_entries >= REG_WIDTH - 1
      /\ ~reg'.empty
  BY <1>1, <1>a
<1>3. SlotsOK(reg') /\ Held(reg') \subseteq Held(reg) \cup {e}
  <2>1. \/ reg.insert_ltch = NoEntry /\ e \notin Held(reg)
        \/ reg.insert_ltch = e /\ reg.num_entries < REG_WIDTH
    BY <1>1 DEF MayInsert, FreshEntry, IInv, LatchSafe
  <2> QED BY <1>1, <2>1, InvSlots, InsertEdgeEffect
<1>4. TypeOK'
  <2>1. reg' \in Register
    BY <1>1, <1>3 DEF InsertEdge, AfterInsert, ValidNext, Register,
                      SlotsOK, SlotsTyped, IInv, TypeOK
  <2> QED BY <2>1 DEF TypeOK
<1>5. FullExact'
  BY <1>1, <1>2 DEF FullExact, Pending
<1>6. LatchSafe'
  BY <1>2 DEF LatchSafe
<1>7. ValidMeansEntry' /\ NeverStuck' /\ EmptyMeansNone'
  BY <1>1, <1>2 DEF ValidMeansEntry, NeverStuck, EmptyMeansNone
<1>8. ValidSteady'
  BY <1>1, <1>2 DEF ValidSteady, IInv, ValidMeansEntry
<1>9. Packed' /\ Distinct'
  <2>1. UniqueMetas(Held(reg) \cup {e})
    <3>1. e \in Held(reg) \/ \A f \in Held(reg) : f.meta # e.meta
      BY <1>1 DEF MayInsert, FreshEntry, Held
    <3> QED BY <3>1, InvSlots DEF UniqueMetas
  <2>2. UniqueMetas(Held(reg'))
    BY <1>3, <2>1 DEF UniqueMetas
  <2> QED BY <1>3, <2>2, InvFromSlots
<1> QED BY <1>4, <1>5, <1>6, <1>7, <1>8, <1>9 DEF IInv

(* A cycle in which nothing is stored or removed. *)
LEMMA IdlePreserves ==
  ASSUME IInv, reg.insert_ltch = NoEntry,
         IdleEdge,
         pr_insert_last_r' = FALSE, remove_last' = FALSE,
         popped' \in MaybeEntry, displaced' \in MaybeEntry
  PROVE  IInv'
<1>1. /\ reg'.slots = reg.slots
      /\ reg'.num_entries = reg.num_entries
      /\ reg'.insert_ltch = reg.insert_ltch
      /\ ~reg'.calc_min_max
      /\ reg'.valid_out <=> \/ reg.calc_min_max /\ reg.num_entries > 0
                            \/ reg.valid_out
      /\ reg'.full <=> reg.full
      /\ reg'.empty <=> reg.empty
      /\ reg' \in Register
  BY DEF IdleEdge, AfterIdle, ValidNext, IInv, TypeOK, Register
<1>2. TypeOK'
  BY <1>1 DEF TypeOK, MaybeEntry
<1>3. FullExact' /\ LatchSafe' /\ Packed' /\ EmptyMeansNone'
  BY <1>1 DEF IInv, FullExact, Pending, LatchSafe, Packed, EmptyMeansNone
<1>4. ValidMeansEntry' /\ NeverStuck' /\ ValidSteady'
  BY <1>1 DEF IInv, ValidMeansEntry, NeverStuck, ValidSteady
<1>5. Distinct'
  BY <1>1 DEF IInv, Distinct, InSlots
<1> QED BY <1>2, <1>3, <1>4, <1>5 DEF IInv

(* The reset state satisfies the invariant. *)
LEMMA InitInv == Init => IInv
<1> SUFFICES ASSUME Init PROVE IInv
  OBVIOUS
<1>1. /\ reg.slots = [i \in Slots |-> NoEntry]
      /\ reg.num_entries = 0
      /\ reg.insert_ltch = NoEntry
      /\ ~reg.calc_min_max /\ ~reg.valid_out
      /\ ~reg.full /\ ~reg.empty
      /\ reg \in Register
  BY RegWidthAssumption DEF Init, RegInit, Register, MaybeEntry
<1>2. TypeOK
  BY <1>1 DEF Init, TypeOK, MaybeEntry
<1>3. FullExact
  BY <1>1, RegWidthAssumption DEF FullExact, Pending
<1>4. LatchSafe /\ ValidMeansEntry /\ NeverStuck /\ ValidSteady /\ EmptyMeansNone
  BY <1>1 DEF LatchSafe, ValidMeansEntry, NeverStuck, ValidSteady, EmptyMeansNone
<1>5. Packed /\ Distinct
  BY <1>1, RegWidthAssumption DEF Packed, Distinct, InSlots, Slots
<1> QED BY <1>2, <1>3, <1>4, <1>5 DEF IInv

-----------------------------------------------------------------------------
(* What each action does to the register, under the invariant. *)
LEMMA InsertActionEdge ==
  ASSUME IInv, NEW e \in Entry, Insert(e)
  PROVE  InsertEdge(e, e) /\ reg.insert_ltch = NoEntry
BY NoEntryAssumption
   DEF Insert, MayInsert, RegNext, InsertEdge, IInv, LatchSafe

LEMMA RemoveActionEdge ==
  ASSUME IInv, MayRemove
  PROVE  /\ Remove => RemoveEdge(NoEntry)
         /\ \A e \in Entry : RemoveInsert(e) => RemoveEdge(e)
<1>1. reg.num_entries > 0
  BY DEF MayRemove, IInv, ValidMeansEntry
<1> QED BY <1>1 DEF Remove, RemoveInsert, RegNext, RemoveEdge

LEMMA IdleActionEdge ==
  ASSUME IInv, Idle
  PROVE  \/ reg.insert_ltch \in Entry /\ InsertEdge(reg.insert_ltch, NoEntry)
         \/ reg.insert_ltch = NoEntry /\ IdleEdge
<1>1. CASE reg.insert_ltch = NoEntry
  BY <1>1 DEF Idle, RegNext, IdleEdge
<1>2. CASE reg.insert_ltch # NoEntry
  <2>1. reg.insert_ltch \in Entry
    BY <1>2 DEF IInv, TypeOK, Register, MaybeEntry
  <2>2. InsertEdge(reg.insert_ltch, NoEntry)
    BY <1>2 DEF Idle, RegNext, InsertEdge
  <2> QED BY <2>1, <2>2
<1> QED BY <1>1, <1>2

(* What a remover reads and what a full register pushes out are entries. *)
LEMMA OutputsTyped ==
  ASSUME IInv
  PROVE  /\ MayRemove => MinOut(reg) \in Entry
         /\ reg.full /\ reg.insert_ltch = NoEntry =>
               reg.num_entries = REG_WIDTH /\ MaxOut(reg) \in Entry
<1>1. MayRemove => MinOut(reg) \in Entry
  BY InvSlots, FilledSlots, CloseGapShape
     DEF MayRemove, IInv, ValidMeansEntry, MinOut
<1>2. reg.full /\ reg.insert_ltch = NoEntry => reg.num_entries = REG_WIDTH
  BY InvSlots, FilledSlots DEF IInv, FullExact, Pending
<1>3. ASSUME reg.num_entries = REG_WIDTH
      PROVE  MaxOut(reg) \in Entry
  <2>1. 0 \in Used(reg) /\ SlotsTyped(reg)
    BY <1>3, InvSlots, FilledSlots DEF Filled, Slots, SlotsOK
  <2> QED BY <2>1, InvSlots, FilledSlots, MaxIdxSelects DEF MaxOut
<1> QED BY <1>1, <1>2, <1>3

(* The invariant holds in every state the clients can bring the register   *)
(* into.                                                                   *)
THEOREM RegisterInvariant == Spec => []IInv
<1>1. Init => IInv
  BY InitInv
<1>2. IInv /\ [Next]_vars => IInv'
  <2> SUFFICES ASSUME IInv, [Next]_vars PROVE IInv'
    OBVIOUS
  <2>1. ASSUME NEW e \in Entry, Insert(e)
        PROVE  IInv'
    <3>1. InsertEdge(e, e) /\ reg.insert_ltch = NoEntry
      BY <2>1, InsertActionEdge
    <3>2. popped' \in MaybeEntry /\ displaced' \in MaybeEntry
      BY <2>1, <3>1, OutputsTyped DEF Insert, MaybeEntry
    <3> QED BY <2>1, <3>1, <3>2, InsertPreserves, NoEntryAssumption
            DEF Insert, MaybeEntry
  <2>2. CASE Remove
    <3>1. RemoveEdge(NoEntry)
      BY <2>2, RemoveActionEdge DEF Remove
    <3>2. popped' \in MaybeEntry /\ displaced' \in MaybeEntry
      BY <2>2, OutputsTyped DEF Remove, MaybeEntry
    <3> QED BY <2>2, <3>1, <3>2, RemovePreserves DEF Remove, MaybeEntry
  <2>3. ASSUME NEW e \in Entry, RemoveInsert(e)
        PROVE  IInv'
    <3>1. RemoveEdge(e)
      BY <2>3, RemoveActionEdge DEF RemoveInsert
    <3>2. popped' \in MaybeEntry /\ displaced' \in MaybeEntry
      BY <2>3, OutputsTyped DEF RemoveInsert, MaybeEntry
    <3> QED BY <2>3, <3>1, <3>2, RemovePreserves, NoEntryAssumption
            DEF RemoveInsert, MaybeEntry
  <2>4. CASE Idle
    <3>1. popped' \in MaybeEntry /\ displaced' \in MaybeEntry
      BY <2>4 DEF Idle, MaybeEntry
    <3>2. CASE reg.insert_ltch \in Entry /\ InsertEdge(reg.insert_ltch, NoEntry)
      BY <2>4, <3>1, <3>2, InsertPreserves DEF Idle, MaybeEntry
    <3>3. CASE reg.insert_ltch = NoEntry /\ IdleEdge
      BY <2>4, <3>1, <3>3, IdlePreserves DEF Idle
    <3> QED BY <2>4, <3>2, <3>3, IdleActionEdge
  <2>5. CASE UNCHANGED vars
    BY <2>5 DEF vars, IInv, TypeOK, FullExact, Pending, LatchSafe,
                ValidMeansEntry, NeverStuck, Packed, Distinct, InSlots,
                ValidSteady, EmptyMeansNone
  <2> QED BY <2>1, <2>2, <2>3, <2>4, <2>5 DEF Next
<1> QED BY <1>1, <1>2, PTL DEF Spec

(* The safety properties the runs check, for every size of the register.   *)
THEOREM RegisterTypeOK == Spec => []TypeOK
BY RegisterInvariant, PTL DEF IInv

THEOREM RegisterFullExact == Spec => []FullExact
BY RegisterInvariant, PTL DEF IInv

THEOREM RegisterLatchSafe == Spec => []LatchSafe
BY RegisterInvariant, PTL DEF IInv

THEOREM RegisterValidMeansEntry == Spec => []ValidMeansEntry
BY RegisterInvariant, PTL DEF IInv

THEOREM RegisterNeverStuck == Spec => []NeverStuck
BY RegisterInvariant, PTL DEF IInv

-----------------------------------------------------------------------------
(* The number of entries inside, for the capacity of the abstract queue.   *)
LEMMA HeldCardinality ==
  ASSUME IInv
  PROVE  /\ IsFiniteSet(Held(reg))
         /\ Cardinality(Held(reg)) = reg.num_entries + Pending
<1> DEFINE S == {reg.slots[i] : i \in InSlots}
           f == [i \in InSlots |-> reg.slots[i]]
<1>1. /\ InSlots = 0 .. reg.num_entries - 1
      /\ reg.num_entries \in Nat
      /\ \A i \in InSlots : reg.slots[i] \in Entry
  BY InvSlots, FilledSlots DEF InSlots, Slots
<1>2. IsFiniteSet(InSlots) /\ Cardinality(InSlots) = reg.num_entries
  <2>1. 0 \in Int /\ reg.num_entries - 1 \in Int
    BY <1>1
  <2>2. /\ IsFiniteSet(0 .. reg.num_entries - 1)
        /\ Cardinality(0 .. reg.num_entries - 1) =
              IF 0 > reg.num_entries - 1 THEN 0 ELSE reg.num_entries - 1 - 0 + 1
    BY <2>1, FS_Interval
  <2> QED BY <1>1, <2>2
<1>3. f \in Bijection(InSlots, S)
  <2>1. \A i, j \in InSlots : f[i] = f[j] => i = j
    BY DEF IInv, Distinct
  <2>2. f \in [InSlots -> S] /\ \A y \in S : \E i \in InSlots : f[i] = y
    OBVIOUS
  <2> HIDE DEF f, S
  <2> QED BY <2>1, <2>2 DEF Bijection, Injection, Surjection, IsInjective
<1>4. IsFiniteSet(S) /\ Cardinality(S) = reg.num_entries
  BY <1>2, <1>3, FS_Bijection DEF ExistsBijection
<1>5. Held(reg) = S \cup ({reg.insert_ltch} \ {NoEntry})
  BY InvSlots, FilledSlots
<1>6. CASE reg.insert_ltch = NoEntry
  <2>1. Held(reg) = S
    BY <1>5, <1>6
  <2>2. Pending = 0 /\ reg.num_entries + 0 = reg.num_entries
    BY <1>1, <1>6 DEF Pending
  <2> QED BY <1>4, <2>1, <2>2
<1>7. CASE reg.insert_ltch # NoEntry
  <2>1. Held(reg) = S \cup {reg.insert_ltch}
    BY <1>5, <1>7
  <2>2. reg.insert_ltch \notin S
    BY <1>7 DEF IInv, Distinct
  <2>3. Cardinality(S \cup {reg.insert_ltch}) = reg.num_entries + 1
    BY <1>4, <2>2, FS_AddElement
  <2>4. IsFiniteSet(S \cup {reg.insert_ltch})
    BY <1>4, FS_AddElement
  <2> QED BY <1>7, <2>1, <2>3, <2>4 DEF Pending
<1> QED BY <1>6, <1>7

(* A remove takes the minimum out and nothing else. *)
LEMMA RemoveHeld ==
  ASSUME IInv, MayRemove, NEW ins \in MaybeEntry, ins \notin Held(reg),
         RemoveEdge(ins)
  PROVE  /\ MinOut(reg) \in Abstract!LeastOf(Held(reg))
         /\ Held(reg)' = (Held(reg) \ {MinOut(reg)}) \cup ({ins} \ {NoEntry})
<1>1. reg.num_entries > 0 /\ reg.insert_ltch = NoEntry
  BY DEF IInv, ValidMeansEntry, LatchSafe, MayRemove
<1> QED BY <1>1, InvSlots, RemoveEffect DEF RemoveEdge, Abstract!LeastOf

(* A full register has all of its slots in use. *)
LEMMA FullMeansCapacity ==
  ASSUME IInv, reg.insert_ltch = NoEntry
  PROVE  /\ reg.full <=> reg.num_entries = REG_WIDTH
         /\ ~reg.full <=> reg.num_entries < REG_WIDTH
         /\ reg.full <=> Cardinality(Held(reg)) = REG_WIDTH
         /\ ~reg.full <=> Cardinality(Held(reg)) < REG_WIDTH
BY HeldCardinality, InvSlots, FilledSlots DEF IInv, FullExact, Pending

(* In a full register the maximum is an entry of the largest rank. *)
LEMMA MaxOutGreatest ==
  ASSUME IInv, reg.insert_ltch = NoEntry, reg.num_entries = REG_WIDTH
  PROVE  MaxOut(reg) \in Abstract!GreatestOf(Held(reg))
<1>1. Held(reg) = {reg.slots[i] : i \in Used(reg)}
  BY DEF Held
<1>2. Used(reg) = Filled(reg) /\ SlotsTyped(reg)
  BY InvSlots, FilledSlots DEF SlotsOK
<1>3. 0 \in Used(reg)
  BY <1>2, RegWidthAssumption DEF Filled, Slots
<1> QED BY <1>1, <1>2, <1>3, MaxIdxSelects DEF Abstract!GreatestOf, MaxOut

(* An entry with fresh meta data is not inside. *)
LEMMA FreshOutside ==
  ASSUME NEW e \in Entry, FreshEntry(e)
  PROVE  e \notin Held(reg)
BY DEF FreshEntry

(* Module Pifo counts with the same operator of FiniteSets. *)
LEMMA SameCardinality ==
  Abstract!Cardinality(Held(reg)) = Cardinality(Held(reg))
BY DEF Abstract!Cardinality, Cardinality

(* Each action is a step of the abstract queue. *)
LEMMA InsertRefines ==
  ASSUME IInv, NEW e \in Entry, Insert(e)
  PROVE  Abstract!Push(e) \/ Abstract!PushFull(e)
<1>1. InsertEdge(e, e) /\ reg.insert_ltch = NoEntry
  BY InsertActionEdge
<1>2. e \notin Held(reg) /\ SlotsOK(reg)
  BY FreshOutside, InvSlots DEF Insert, MayInsert
<1>3. popped' = NoEntry
  BY DEF Insert
<1>4. CASE ~reg.full
  <2>1. Held(reg)' = Held(reg) \cup {e}
    BY <1>1, <1>2, <1>4, FullMeansCapacity, InsertEdgeEffect
  <2>2. displaced' = NoEntry
    BY <1>4 DEF Insert
  <2> QED BY <1>1, <1>2, <1>3, <1>4, <2>1, <2>2, FullMeansCapacity,
            SameCardinality
          DEF Abstract!Push
<1>5. CASE reg.full
  <2>1. reg.num_entries = REG_WIDTH /\ Cardinality(Held(reg)) = REG_WIDTH
    BY <1>1, <1>5, FullMeansCapacity
  <2>2. /\ MaxOut(reg) \in Held(reg)
        /\ \A f \in Held(reg) : f.rank <= MaxOut(reg).rank
        /\ e.rank < MaxOut(reg).rank =>
              Held(reg)' = (Held(reg) \ {MaxOut(reg)}) \cup {e}
        /\ ~(e.rank < MaxOut(reg).rank) => Held(reg)' = Held(reg)
    BY <1>1, <1>2, <2>1, InsertEdgeEffect
  <2>3. \A f \in Held(reg) \cup {e} : f.rank \in Nat
    BY <1>2, FilledSlots DEF Entry, Ranks
  <2>4. CASE e.rank < MaxOut(reg).rank
    <3>1. Held(reg)' = (Held(reg) \cup {e}) \ {MaxOut(reg)}
      BY <1>2, <2>2, <2>4
    <3>2. displaced' = MaxOut(reg)
      BY <1>5, <2>4 DEF Insert
    <3>3. MaxOut(reg) \in Abstract!GreatestOf(Held(reg) \cup {e})
      BY <2>2, <2>3, <2>4 DEF Abstract!GreatestOf
    <3> QED BY <1>2, <1>3, <2>1, <3>1, <3>2, <3>3, SameCardinality
            DEF Abstract!PushFull
  <2>5. CASE ~(e.rank < MaxOut(reg).rank)
    <3>1. Held(reg)' = (Held(reg) \cup {e}) \ {e}
      BY <1>2, <2>2, <2>5
    <3>2. displaced' = e
      BY <1>5, <2>5 DEF Insert
    <3>3. e \in Abstract!GreatestOf(Held(reg) \cup {e})
      BY <2>2, <2>3, <2>5 DEF Abstract!GreatestOf
    <3> QED BY <1>2, <1>3, <2>1, <3>1, <3>2, <3>3, SameCardinality
            DEF Abstract!PushFull
  <2> QED BY <2>4, <2>5
<1> QED BY <1>4, <1>5

LEMMA RemoveRefines ==
  ASSUME IInv
  PROVE  /\ Remove => Abstract!Pop
         /\ \A e \in Entry : RemoveInsert(e) => Abstract!PopPush(e)
<1>0. NoEntry \notin Held(reg)
  BY InvSlots, FilledSlots, NoEntryAssumption
<1>1. ASSUME Remove
      PROVE  Abstract!Pop
  <2>1. RemoveEdge(NoEntry) /\ MayRemove /\ NoEntry \in MaybeEntry
    BY <1>1, RemoveActionEdge DEF Remove, MaybeEntry
  <2>2. /\ MinOut(reg) \in Abstract!LeastOf(Held(reg))
        /\ Held(reg)' = Held(reg) \ {MinOut(reg)}
    BY <1>0, <2>1, RemoveHeld
  <2> QED BY <1>1, <2>2 DEF Remove, Abstract!Pop
<1>2. ASSUME NEW e \in Entry, RemoveInsert(e)
      PROVE  Abstract!PopPush(e)
  <2>1. RemoveEdge(e) /\ MayRemove /\ e \in MaybeEntry /\ e # NoEntry
    BY <1>2, RemoveActionEdge, NoEntryAssumption DEF RemoveInsert, MaybeEntry
  <2>2. e \notin Held(reg)
    BY <1>2, FreshOutside DEF RemoveInsert, MayInsert
  <2>3. /\ MinOut(reg) \in Abstract!LeastOf(Held(reg))
        /\ Held(reg)' = (Held(reg) \ {MinOut(reg)}) \cup {e}
    BY <2>1, <2>2, RemoveHeld
  <2> QED BY <1>2, <2>2, <2>3 DEF RemoveInsert, Abstract!PopPush
<1> QED BY <1>1, <1>2

LEMMA IdleRefines ==
  ASSUME IInv, Idle
  PROVE  Abstract!Quiet
<1>1. popped' = NoEntry /\ displaced' = NoEntry
  BY DEF Idle
<1>2. CASE reg.insert_ltch \in Entry /\ InsertEdge(reg.insert_ltch, NoEntry)
  <2>1. reg.num_entries < REG_WIDTH /\ reg.insert_ltch # NoEntry
    BY <1>2, NoEntryAssumption DEF IInv, LatchSafe
  <2>2. Held(reg)' = Held(reg) \cup {reg.insert_ltch}
    BY <1>2, <2>1, InvSlots, InsertEdgeEffect
  <2>3. reg.insert_ltch \in Held(reg)
    BY <2>1 DEF Held
  <2> QED BY <1>1, <2>2, <2>3 DEF Abstract!Quiet
<1>3. CASE reg.insert_ltch = NoEntry /\ IdleEdge
  <2>1. reg'.slots = reg.slots /\ reg'.insert_ltch = reg.insert_ltch
    BY <1>3 DEF IdleEdge, AfterIdle
  <2> QED BY <1>1, <2>1 DEF Abstract!Quiet, Held, Used
<1> QED BY <1>2, <1>3, IdleActionEdge

(* The circuit implements the bounded push-in-first-out queue. *)
THEOREM RegisterImplementsPifo == Spec => ImplementsPifo
<1>1. Init => Abstract!Init
  BY DEF Init, RegInit, Held, Used, Abstract!Init
<1>2. IInv /\ [Next]_vars => [Abstract!Next]_(Abstract!vars)
  <2> SUFFICES ASSUME IInv, [Next]_vars
               PROVE  Abstract!Next \/ UNCHANGED Abstract!vars
    OBVIOUS
  <2>1. CASE Remove
    BY <2>1, RemoveRefines DEF Abstract!Next
  <2>2. CASE Idle
    BY <2>2, IdleRefines DEF Abstract!Next
  <2>3. ASSUME NEW e \in Entry, Insert(e)
        PROVE  Abstract!Next
    BY <2>3, InsertRefines DEF Abstract!Next
  <2>4. ASSUME NEW e \in Entry, RemoveInsert(e)
        PROVE  Abstract!Next
    BY <2>4, RemoveRefines DEF Abstract!Next
  <2>5. CASE UNCHANGED vars
    BY <2>5 DEF vars, Abstract!vars, Held, Used
  <2> QED BY <2>1, <2>2, <2>3, <2>4, <2>5 DEF Next
<1> QED BY <1>1, <1>2, RegisterInvariant, PTL
        DEF Spec, ImplementsPifo, Abstract!Spec

-----------------------------------------------------------------------------
(***************************************************************************)
(* The trees of comparators.                                               *)
(***************************************************************************)
(* Level i has a comparator for every two nodes of the level below.        *)
LEMMA Widths ==
  ASSUME NEW i \in 0 .. L2_REG_WIDTH
  PROVE  /\ Width(i) = 0 .. pow2[L2_REG_WIDTH - i] - 1
         /\ pow2[L2_REG_WIDTH - i] * pow2[i] = REG_WIDTH
<1> DEFINE L == L2_REG_WIDTH
           S == {n \in Nat : n <= L => pow2[L - n] * pow2[n] = REG_WIDTH}
<1>1. L \in Nat
  BY PowerOfTwoAssumption
<1>2. 0 \in S
  <2>1. L - 0 = L
    BY <1>1
  <2>2. pow2[L] * 1 = REG_WIDTH
    BY <1>1, Pow2, PowerOfTwoAssumption
  <2> QED BY <2>1, <2>2, Pow2
<1>3. ASSUME NEW n \in Nat, n \in S
      PROVE  n + 1 \in S
  <2>1. SUFFICES ASSUME n + 1 <= L
                 PROVE  pow2[L - (n + 1)] * pow2[n + 1] = REG_WIDTH
    OBVIOUS
  <2>2. L - (n + 1) \in Nat /\ (L - (n + 1)) + 1 = L - n
    BY <1>1, <2>1
  <2>3. /\ pow2[L - n] = 2 * pow2[L - (n + 1)] /\ pow2[n + 1] = 2 * pow2[n]
        /\ pow2[L - (n + 1)] \in Nat /\ pow2[n] \in Nat
    BY <2>2, Pow2
  <2>4. pow2[L - n] * pow2[n] = REG_WIDTH
    BY <1>1, <1>3, <2>1
  <2>5. \A x, y \in Nat : x * (2 * y) = (2 * x) * y
    OBVIOUS
  <2> QED BY <2>3, <2>4, <2>5
<1>4. Nat \subseteq S
  <2> HIDE DEF S
  <2> QED BY <1>2, <1>3, Induction
<1>5. pow2[L - i] * pow2[i] = REG_WIDTH
  BY <1>1, <1>4
<1>6. \A x \in Nat, y \in Nat \ {0} : (x * y) \div y = x
  OBVIOUS
<1>7. pow2[L - i] \in Nat /\ pow2[i] \in Nat \ {0}
  BY <1>1, Pow2
<1>8. REG_WIDTH \div pow2[i] = pow2[L - i]
  BY <1>5, <1>6, <1>7
<1> QED BY <1>5, <1>8 DEF Width

LEMMA WidthBelow ==
  ASSUME NEW i \in 1 .. L2_REG_WIDTH, NEW j \in Width(i)
  PROVE  /\ j \in Nat /\ 2 * j \in Width(i - 1) /\ 2 * j + 1 \in Width(i - 1)
         /\ \A n \in 0 .. L2_REG_WIDTH : Width(n) \subseteq Slots
         /\ Width(0) = Slots
<1>1. L2_REG_WIDTH \in Nat
  BY PowerOfTwoAssumption
<1>2. /\ i \in 0 .. L2_REG_WIDTH /\ i - 1 \in 0 .. L2_REG_WIDTH
      /\ L2_REG_WIDTH - i \in Nat /\ L2_REG_WIDTH - (i - 1) = (L2_REG_WIDTH - i) + 1
  BY <1>1
<1>3. /\ Width(i) = 0 .. pow2[L2_REG_WIDTH - i] - 1
      /\ Width(i - 1) = 0 .. 2 * pow2[L2_REG_WIDTH - i] - 1
      /\ pow2[L2_REG_WIDTH - i] \in Nat
  BY <1>2, Widths, Pow2
<1>4. j \in Nat /\ 2 * j \in Width(i - 1) /\ 2 * j + 1 \in Width(i - 1)
  BY <1>3
<1>5. ASSUME NEW n \in 0 .. L2_REG_WIDTH
      PROVE  Width(n) \subseteq Slots
  <2>1. L2_REG_WIDTH - n \in Nat
    BY <1>1
  <2>2. pow2[L2_REG_WIDTH - n] \in Nat /\ pow2[n] \in Nat \ {0}
    BY <2>1, Pow2
  <2>3. \A x \in Nat, y \in Nat \ {0} : x <= x * y
    OBVIOUS
  <2>4. pow2[L2_REG_WIDTH - n] <= REG_WIDTH
    BY <2>2, <2>3, Widths
  <2> QED BY <2>2, <2>4, Widths, RegWidthAssumption DEF Slots
<1>6. Width(0) = Slots
  <2>1. 0 \in 0 .. L2_REG_WIDTH /\ L2_REG_WIDTH - 0 = L2_REG_WIDTH
    BY <1>1
  <2> QED BY <2>1, Widths, PowerOfTwoAssumption DEF Slots
<1> QED BY <1>4, <1>5, <1>6

(* The levels of a tree are what their definition says.                    *)
LEMMA LevelsDef ==
  ASSUME NEW Left
  PROVE  Levels(Left) =
           [i \in 0 .. COMP_LVLS - 1 |->
              IF i = 0 THEN [j \in Slots |-> j]
              ELSE [j \in Width(i) |->
                      IF <<Levels(Left)[i - 1][2 * j], Levels(Left)[i - 1][2 * j + 1]>> \in Left
                      THEN Levels(Left)[i - 1][2 * j]
                      ELSE Levels(Left)[i - 1][2 * j + 1]]]
<1> DEFINE pass(h, j) == IF <<h[2 * j], h[2 * j + 1]>> \in Left THEN h[2 * j] ELSE h[2 * j + 1]
           V == [Slots -> Slots]
           v0 == [j \in Slots |-> j]
           next == [p \in Nat \X V |->
                      [j \in Slots |-> IF 2 * j + 1 \in Slots THEN pass(p[2], j) ELSE p[2][j]]]
<1>1. v0 \in V
  OBVIOUS
<1>2. next \in [Nat \X V -> V]
  <2>1. ASSUME NEW h \in V, NEW j \in Slots
        PROVE  (IF 2 * j + 1 \in Slots THEN pass(h, j) ELSE h[j]) \in Slots
    <3>1. 2 * j + 1 \in Slots => 2 * j \in Slots
      BY RegWidthAssumption DEF Slots
    <3> QED BY <2>1, <3>1
  <2> HIDE DEF pass
  <2> QED BY <2>1
<1> HIDE DEF V
<1>3. PICK f \in [Nat -> V] : Iterates(f, v0, next)
  <2> HIDE DEF v0, next
  <2> QED BY <1>1, <1>2, Recursion
<1> DEFINE N == COMP_LVLS - 1
           g == [i \in 0 .. N |-> IF i = 0 THEN v0 ELSE [j \in Width(i) |-> f[i][j]]]
<1>4. N = L2_REG_WIDTH /\ N \in Nat
  BY PowerOfTwoAssumption DEF COMP_LVLS
<1>5. ASSUME NEW i \in 1 .. N, NEW j \in Width(i)
      PROVE  f[i][j] = pass(g[i - 1], j)
  <2>1. /\ j \in Slots /\ 2 * j \in Width(i - 1) /\ 2 * j + 1 \in Width(i - 1)
        /\ 2 * j \in Slots /\ 2 * j + 1 \in Slots /\ i - 1 \in 0 .. N /\ i - 1 \in Nat
        /\ (i - 1) + 1 = i
    <3>1. i \in 0 .. L2_REG_WIDTH /\ i - 1 \in 0 .. L2_REG_WIDTH
      BY <1>4
    <3> QED BY <1>4, <3>1, WidthBelow
  <2>2. f[i] = next[<<i - 1, f[i - 1]>>] /\ f[i - 1] \in V
    BY <1>3, <2>1 DEF Iterates
  <2>3. f[i][j] = pass(f[i - 1], j)
    <3> HIDE DEF pass
    <3> QED BY <2>1, <2>2
  <2>4. g[i - 1][2 * j] = f[i - 1][2 * j] /\ g[i - 1][2 * j + 1] = f[i - 1][2 * j + 1]
    BY <1>3, <2>1 DEF Iterates
  <2> HIDE DEF g
  <2> QED BY <2>3, <2>4
<1>6. g = [i \in 0 .. N |-> IF i = 0 THEN v0 ELSE [j \in Width(i) |-> pass(g[i - 1], j)]]
  <2>1. ASSUME NEW i \in 0 .. N
        PROVE  g[i] = IF i = 0 THEN v0 ELSE [j \in Width(i) |-> pass(g[i - 1], j)]
    <3>1. CASE i = 0
      BY <3>1
    <3>2. CASE i # 0
      <4>1. i \in 1 .. N
        BY <3>2, <1>4
      <4>2. g[i] = [j \in Width(i) |-> f[i][j]]
        BY <3>2
      <4>3. \A j \in Width(i) : f[i][j] = pass(g[i - 1], j)
        BY <4>1, <1>5
      <4> HIDE DEF g, pass
      <4> QED BY <3>2, <4>2, <4>3
    <3> QED BY <3>1, <3>2
  <2> DEFINE G(i) == IF i = 0 THEN v0 ELSE [j \in Width(i) |-> pass(g[i - 1], j)]
  <2>2. g = [i \in 0 .. N |-> g[i]]
    OBVIOUS
  <2>3. \A i \in 0 .. N : g[i] = G(i)
    BY <2>1
  <2> HIDE DEF g, G
  <2>4. g = [i \in 0 .. N |-> G(i)]
    BY <2>2, <2>3
  <2> QED BY <2>4 DEF G
<1> HIDE DEF g
<1>7. \E h : h = [i \in 0 .. N |-> IF i = 0 THEN v0 ELSE [j \in Width(i) |-> pass(h[i - 1], j)]]
  BY <1>6
<1>8. Levels(Left) =
        CHOOSE h : h = [i \in 0 .. N |-> IF i = 0 THEN v0 ELSE [j \in Width(i) |-> pass(h[i - 1], j)]]
  BY DEF Levels
<1> QED BY <1>7, <1>8

LEMMA LevelsAt ==
  ASSUME NEW Left
  PROVE  /\ \A j \in Slots : Levels(Left)[0][j] = j
         /\ \A i \in 1 .. L2_REG_WIDTH : \A j \in Width(i) :
              Levels(Left)[i][j] =
                IF <<Levels(Left)[i - 1][2 * j], Levels(Left)[i - 1][2 * j + 1]>> \in Left
                THEN Levels(Left)[i - 1][2 * j]
                ELSE Levels(Left)[i - 1][2 * j + 1]
<1> DEFINE lvl == Levels(Left)
           Node(i, j) == IF <<lvl[i - 1][2 * j], lvl[i - 1][2 * j + 1]>> \in Left
                         THEN lvl[i - 1][2 * j] ELSE lvl[i - 1][2 * j + 1]
           Level(i) == IF i = 0 THEN [j \in Slots |-> j] ELSE [j \in Width(i) |-> Node(i, j)]
<1>1. lvl = [i \in 0 .. COMP_LVLS - 1 |-> Level(i)]
  BY LevelsDef
<1>2. COMP_LVLS - 1 = L2_REG_WIDTH /\ L2_REG_WIDTH \in Nat
  BY PowerOfTwoAssumption DEF COMP_LVLS
<1> HIDE DEF lvl, Level, Node
<1>3. \A i \in 0 .. L2_REG_WIDTH : lvl[i] = Level(i)
  BY <1>1, <1>2
<1>4. \A j \in Slots : lvl[0][j] = j
  <2>1. lvl[0] = Level(0)
    BY <1>2, <1>3
  <2> QED BY <2>1 DEF Level
<1>5. ASSUME NEW i \in 1 .. L2_REG_WIDTH, NEW j \in Width(i)
      PROVE  lvl[i][j] = Node(i, j)
  <2>1. i \in 0 .. L2_REG_WIDTH /\ i # 0
    BY <1>2
  <2> QED BY <1>3, <2>1 DEF Level
<1> QED BY <1>4, <1>5 DEF lvl, Node

(* Slot a is passed on rather than slot b.                                 *)
Goals == {"min", "max"}
LeftOf(goal, r) == IF goal = "min" THEN MinLeft(r) ELSE MaxLeft(r)
Preferred(goal, r, a, b) ==
  IF goal = "min"
  THEN \/ r.slots[a].rank < r.slots[b].rank
       \/ r.slots[a].rank = r.slots[b].rank /\ a <= b
  ELSE \/ r.slots[a].rank > r.slots[b].rank
       \/ r.slots[a].rank = r.slots[b].rank /\ a >= b

(* Of the slots from lo to hi this one reaches the node above them.        *)
Wins(goal, r, a, lo, hi) ==
  \/ a = hi /\ \A i \in lo .. hi : i \notin Used(r)
  \/ /\ a \in lo .. hi /\ a \in Used(r)
     /\ \A i \in lo .. hi : i \in Used(r) => Preferred(goal, r, a, i)

LEMMA PreferredOrder ==
  ASSUME NEW goal \in Goals, NEW r, SlotsTyped(r),
         NEW a \in Used(r), NEW b \in Used(r), NEW c \in Used(r)
  PROVE  /\ Preferred(goal, r, a, a)
         /\ Preferred(goal, r, a, b) /\ Preferred(goal, r, b, c) => Preferred(goal, r, a, c)
         /\ Preferred(goal, r, a, b) /\ Preferred(goal, r, b, a) => a = b
<1>1. \A i \in {a, b, c} : r.slots[i].rank \in Nat /\ i \in Nat
  BY RegWidthAssumption, MaxRankAssumption
     DEF Used, Slots, SlotsTyped, MaybeEntry, Entry, Ranks
<1> QED BY <1>1 DEF Preferred, Goals

(* A comparator passes on the slot the wider range of slots prefers.       *)
LEMMA ComparatorWins ==
  ASSUME NEW goal \in Goals, NEW r, SlotsTyped(r),
         NEW lo \in Slots, NEW mid \in Slots, NEW hi \in Slots, lo < mid, mid <= hi,
         NEW a, NEW b, Wins(goal, r, a, lo, mid - 1), Wins(goal, r, b, mid, hi)
  PROVE  Wins(goal, r, IF <<a, b>> \in LeftOf(goal, r) THEN a ELSE b, lo, hi)
<1>0. /\ lo \in Nat /\ mid \in Nat /\ hi \in Nat
      /\ \A i \in lo .. hi : i \in lo .. mid - 1 \/ i \in mid .. hi
      /\ \A i \in lo .. mid - 1 : i \in lo .. hi /\ i \in Slots
      /\ \A i \in mid .. hi : i \in lo .. hi /\ i \in Slots
      /\ \A i \in lo .. mid - 1, j \in mid .. hi : i < j
      /\ hi \in mid .. hi /\ mid - 1 \in lo .. mid - 1
  BY RegWidthAssumption DEF Slots
<1>1. a \in lo .. mid - 1 /\ b \in mid .. hi
  BY <1>0 DEF Wins
<1>2. a \in Slots /\ b \in Slots /\ a < b /\ a \in Nat /\ b \in Nat
  BY <1>0, <1>1
<1>3. /\ a \in Used(r) <=> Valid(r, a)
      /\ b \in Used(r) <=> Valid(r, b)
  BY <1>2 DEF Used, Valid
<1>4. /\ a \notin Used(r) => <<a, b>> \notin LeftOf(goal, r)
      /\ a \in Used(r) /\ b \notin Used(r) => <<a, b>> \in LeftOf(goal, r)
  BY <1>2, <1>3 DEF LeftOf, MinLeft, MaxLeft
<1>5. CASE a \notin Used(r)
  BY <1>0, <1>1, <1>4, <1>5 DEF Wins
<1>6. CASE a \in Used(r) /\ b \notin Used(r)
  BY <1>0, <1>1, <1>4, <1>6 DEF Wins
<1>7. CASE a \in Used(r) /\ b \in Used(r)
  <2>1. r.slots[a].rank \in Nat /\ r.slots[b].rank \in Nat
    BY <1>7, RegWidthAssumption, MaxRankAssumption
       DEF Used, Slots, SlotsTyped, MaybeEntry, Entry, Ranks
  <2>2. <<a, b>> \in LeftOf(goal, r) <=>
          IF goal = "min" THEN r.slots[a].rank <= r.slots[b].rank
          ELSE r.slots[a].rank > r.slots[b].rank
    BY <1>2, <1>3, <1>7 DEF LeftOf, MinLeft, MaxLeft
  <2>3. /\ <<a, b>> \in LeftOf(goal, r) => Preferred(goal, r, a, b)
        /\ <<a, b>> \notin LeftOf(goal, r) => Preferred(goal, r, b, a)
    BY <1>2, <2>1, <2>2 DEF Preferred, Goals
  <2>4. CASE <<a, b>> \in LeftOf(goal, r)
    <3>1. ASSUME NEW i \in lo .. hi, i \in Used(r)
          PROVE  Preferred(goal, r, a, i)
      <4>1. CASE i \in lo .. mid - 1
        BY <1>7, <3>1, <4>1 DEF Wins
      <4>2. CASE i \in mid .. hi
        <5>1. Preferred(goal, r, b, i)
          BY <1>7, <3>1, <4>2 DEF Wins
        <5> QED BY <1>7, <2>3, <2>4, <3>1, <5>1, PreferredOrder
      <4> QED BY <1>0, <4>1, <4>2
    <3> QED BY <1>0, <1>1, <1>7, <2>4, <3>1 DEF Wins
  <2>5. CASE <<a, b>> \notin LeftOf(goal, r)
    <3>1. ASSUME NEW i \in lo .. hi, i \in Used(r)
          PROVE  Preferred(goal, r, b, i)
      <4>1. CASE i \in mid .. hi
        BY <1>7, <3>1, <4>1 DEF Wins
      <4>2. CASE i \in lo .. mid - 1
        <5>1. Preferred(goal, r, a, i)
          BY <1>7, <3>1, <4>2 DEF Wins
        <5> QED BY <1>7, <2>3, <2>5, <3>1, <5>1, PreferredOrder
      <4> QED BY <1>0, <4>1, <4>2
    <3> QED BY <1>0, <1>1, <1>7, <2>5, <3>1 DEF Wins
  <2> QED BY <2>4, <2>5
<1> QED BY <1>5, <1>6, <1>7

(* Node j of level i is reached by the slot that wins among the pow2[i]    *)
(* slots under it.                                                         *)
LEMMA NodeWins ==
  ASSUME NEW goal \in Goals, NEW r, SlotsTyped(r),
         NEW i \in 0 .. L2_REG_WIDTH, NEW j \in Width(i)
  PROVE  Wins(goal, r, Levels(LeftOf(goal, r))[i][j], j * pow2[i], (j + 1) * pow2[i] - 1)
<1> DEFINE L == L2_REG_WIDTH
           lvl == Levels(LeftOf(goal, r))
           NodeOK(n) == \A k \in Width(n) :
                          Wins(goal, r, lvl[n][k], k * pow2[n], (k + 1) * pow2[n] - 1)
           S == {n \in Nat : n <= L => NodeOK(n)}
<1>1. L \in Nat /\ COMP_LVLS - 1 = L
  BY PowerOfTwoAssumption DEF COMP_LVLS
<1>2. 0 \in S
  <2>1. ASSUME NEW k \in Width(0)
        PROVE  Wins(goal, r, lvl[0][k], k * pow2[0], (k + 1) * pow2[0] - 1)
    <3>1. Width(0) = Slots /\ k \in Slots /\ k \in Nat
      <4>1. 0 \in 0 .. L /\ L - 0 = L
        BY <1>1
      <4>2. Width(0) = 0 .. pow2[L] - 1
        BY <4>1, Widths
      <4>3. Width(0) = Slots
        BY <4>2, PowerOfTwoAssumption DEF Slots
      <4> QED BY <4>3, RegWidthAssumption DEF Slots
    <3>2. lvl[0][k] = k
      BY <3>1, LevelsAt
    <3>3. k * pow2[0] = k /\ (k + 1) * pow2[0] - 1 = k
      BY <3>1, Pow2
    <3>4. Wins(goal, r, k, k, k)
      <4>1. \A x \in k .. k : x = k
        BY <3>1
      <4>2. k \in Used(r) => Preferred(goal, r, k, k)
        BY PreferredOrder
      <4> QED BY <3>1, <4>1, <4>2 DEF Wins
    <3> HIDE DEF lvl
    <3> QED BY <3>2, <3>3, <3>4
  <2> HIDE DEF lvl
  <2> QED BY <2>1
<1>3. ASSUME NEW n \in Nat, n \in S
      PROVE  n + 1 \in S
  <2>1. SUFFICES ASSUME n + 1 <= L, NEW k \in Width(n + 1)
                 PROVE  Wins(goal, r, lvl[n + 1][k], k * pow2[n + 1], (k + 1) * pow2[n + 1] - 1)
    <3> HIDE DEF lvl
    <3> QED OBVIOUS
  <2> DEFINE P == pow2[n]
             a == lvl[n][2 * k]
             b == lvl[n][2 * k + 1]
             lo == (2 * k) * P
             mid == (2 * k + 1) * P
             hi == (2 * k + 1 + 1) * P - 1
  <2>2. /\ n + 1 \in 1 .. L /\ n \in 0 .. L /\ n + 1 \in 0 .. L /\ (n + 1) - 1 = n
        /\ L - (n + 1) \in Nat
    BY <1>1, <2>1
  <2>3. k \in Nat /\ 2 * k \in Width(n) /\ 2 * k + 1 \in Width(n)
    BY <2>2, WidthBelow
  <2>4. lvl[n + 1][k] = IF <<a, b>> \in LeftOf(goal, r) THEN a ELSE b
    BY <2>2, LevelsAt
  <2>5. NodeOK(n)
    <3> HIDE DEF NodeOK
    <3> QED BY <1>3, <2>1, <1>1
  <2>6. Wins(goal, r, a, lo, mid - 1) /\ Wins(goal, r, b, mid, hi)
    <3> HIDE DEF lvl
    <3> QED BY <2>3, <2>5
  <2>7. P \in Nat \ {0} /\ pow2[n + 1] = 2 * P
    BY Pow2
  <2>8. /\ k * pow2[n + 1] = lo /\ (k + 1) * pow2[n + 1] - 1 = hi
        /\ lo \in Nat /\ mid \in Nat /\ hi \in Nat /\ lo < mid /\ mid <= hi
        /\ hi < REG_WIDTH
    <3>1. mid = lo + P /\ hi = lo + 2 * P - 1 /\ lo = 2 * (k * P) /\ k * P \in Nat
      BY <2>3, <2>7
    <3>2. k * pow2[n + 1] = 2 * (k * P) /\ (k + 1) * pow2[n + 1] = 2 * (k * P) + 2 * P
      BY <2>3, <2>7
    <3>3. (k + 1) * pow2[n + 1] <= REG_WIDTH
      <4> DEFINE Q == pow2[L - (n + 1)]
      <4>1. /\ k \in 0 .. Q - 1 /\ Q * pow2[n + 1] = REG_WIDTH
            /\ Q \in Nat /\ pow2[n + 1] \in Nat
        <5>1. Width(n + 1) = 0 .. Q - 1 /\ Q * pow2[n + 1] = REG_WIDTH
          BY <2>2, Widths
        <5>2. pow2[L - (n + 1)] \in Nat /\ pow2[n + 1] \in Nat
          BY <2>2, Pow2
        <5>3. k \in Width(n + 1)
          BY <2>1
        <5> HIDE DEF NodeOK, lvl
        <5> QED BY <5>1, <5>2, <5>3
      <4>2. k + 1 \in Nat /\ k + 1 <= Q
        BY <2>3, <4>1
      <4>3. \A x, y, z \in Nat : x <= y => x * z <= y * z
        OBVIOUS
      <4> HIDE DEF Q
      <4> QED BY <4>1, <4>2, <4>3
    <3> HIDE DEF lo, mid, hi
    <3> QED BY <2>7, <3>1, <3>2, <3>3, RegWidthAssumption
  <2>9. lo \in Slots /\ mid \in Slots /\ hi \in Slots
    <3> HIDE DEF lo, mid, hi
    <3> QED BY <2>8, RegWidthAssumption DEF Slots
  <2> HIDE DEF lo, mid, hi, a, b, lvl, P
  <2>10. Wins(goal, r, IF <<a, b>> \in LeftOf(goal, r) THEN a ELSE b, lo, hi)
    BY <2>6, <2>8, <2>9, ComparatorWins
  <2> QED BY <2>4, <2>8, <2>10
<1>4. Nat \subseteq S
  <2> HIDE DEF S
  <2> QED BY <1>2, <1>3, Induction
<1>5. NodeOK(i)
  <2>1. i \in Nat /\ i <= L
    BY <1>1
  <2> HIDE DEF NodeOK
  <2> QED BY <1>4, <2>1
<1> HIDE DEF lvl
<1> QED BY <1>5 DEF lvl

(* What reaches the root is what the rest of the model takes it to be.     *)
LEMMA TreesAgreeAlways ==
  ASSUME NEW r, SlotsTyped(r)
  PROVE  TreesAgree(r)
<1>1. ASSUME NEW goal \in Goals
      PROVE  Wins(goal, r, Root(LeftOf(goal, r)), 0, REG_WIDTH - 1)
  <2>1. L2_REG_WIDTH \in Nat /\ L2_REG_WIDTH \in 0 .. L2_REG_WIDTH
    BY PowerOfTwoAssumption
  <2>2. L2_REG_WIDTH - L2_REG_WIDTH = 0 /\ COMP_LVLS - 1 = L2_REG_WIDTH
    BY <2>1 DEF COMP_LVLS
  <2>3. 0 \in Width(L2_REG_WIDTH)
    BY <2>1, <2>2, Widths, Pow2
  <2>4. /\ 0 * pow2[L2_REG_WIDTH] = 0
        /\ (0 + 1) * pow2[L2_REG_WIDTH] - 1 = REG_WIDTH - 1
    BY PowerOfTwoAssumption, RegWidthAssumption
  <2> QED BY <2>1, <2>2, <2>3, <2>4, NodeWins DEF Root
<1>2. /\ \A i \in Used(r) : i \in 0 .. REG_WIDTH - 1
      /\ \A i \in 0 .. REG_WIDTH - 1 : i \in Slots
  BY DEF Used, Slots
<1>3. ASSUME NEW goal \in Goals, Used(r) # {}
      PROVE  /\ Root(LeftOf(goal, r)) \in Used(r)
             /\ \A i \in Used(r) : Preferred(goal, r, Root(LeftOf(goal, r)), i)
             /\ \A k \in Used(r) :
                  (\A i \in Used(r) : Preferred(goal, r, k, i)) => k = Root(LeftOf(goal, r))
  <2>1. /\ Root(LeftOf(goal, r)) \in Used(r)
        /\ \A i \in Used(r) : Preferred(goal, r, Root(LeftOf(goal, r)), i)
    BY <1>1, <1>2, <1>3 DEF Wins
  <2> QED BY <2>1, PreferredOrder
<1>4. idx(r) = Root(LeftOf("min", r)) /\ max_idx(r) = Root(LeftOf("max", r))
  BY DEF idx, max_idx, LeftOf
<1>5. CASE Used(r) = {}
  BY <1>1, <1>2, <1>4, <1>5 DEF TreesAgree, MinIdx, MaxIdx, Wins, Goals
<1>6. CASE Used(r) # {}
  <2>1. idx(r) = MinIdx(r)
    <3>1. MinIdx(r) = CHOOSE k \in Used(r) : \A i \in Used(r) : Preferred("min", r, k, i)
      BY <1>6 DEF MinIdx, Preferred
    <3>2. "min" \in Goals
      BY DEF Goals
    <3> QED BY <1>3, <1>4, <1>6, <3>1, <3>2
  <2>2. max_idx(r) = MaxIdx(r)
    <3>1. MaxIdx(r) = CHOOSE k \in Used(r) : \A i \in Used(r) : Preferred("max", r, k, i)
      BY <1>6 DEF MaxIdx, Preferred
    <3>2. "max" \in Goals
      BY DEF Goals
    <3> QED BY <1>3, <1>4, <1>6, <3>1, <3>2
  <2> QED BY <2>1, <2>2 DEF TreesAgree
<1> QED BY <1>5, <1>6

(* In every content the register can come to have, both trees of           *)
(* comparators pass on the slot that is meant: the leftmost of the         *)
(* smallest ranks and the rightmost of the largest, among the valid slots. *)
THEOREM RegisterTreesFindExtremes == Spec => []TreesFindExtremes
<1>1. IInv => TreesFindExtremes
  BY InvSlots, TreesAgreeAlways DEF TreesFindExtremes, SlotsOK
<1> QED BY <1>1, RegisterInvariant, PTL
=============================================================================

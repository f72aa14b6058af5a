--------------------------- MODULE PifoTop_proofs ---------------------------
(***************************************************************************)
(* Proofs about pifo_top.v, for every number of skip lists, every size of  *)
(* the register and the lists, every range of ranks and every set of meta  *)
(* data: its two machines keep the rules of the register they share, the   *)
(* search state is never entered, and no entry is lost or doubled before   *)
(* the first misfiled insert.                                              *)
(***************************************************************************)
EXTENDS PifoTop, PifoRegCore_proofs

(* One clock edge, with what the client may do in it. *)
ClientEdge(ins, rmv) ==
  /\ ins # NoEntry => ins \in Entry /\ MayInsert(ins)
  /\ rmv => MayRemove
  /\ Edge(ins, rmv)

LEMMA NextIsEdge ==
  ASSUME Next
  PROVE  \E ins \in MaybeEntry, rmv \in BOOLEAN : ClientEdge(ins, rmv)
<1>1. CASE Remove
  BY <1>1 DEF Remove, ClientEdge, MaybeEntry
<1>2. CASE Idle
  BY <1>2 DEF Idle, ClientEdge, MaybeEntry
<1>3. ASSUME NEW e \in Entry, Insert(e)
      PROVE  ClientEdge(e, FALSE)
  BY <1>3 DEF Insert, ClientEdge
<1>4. ASSUME NEW e \in Entry, RemoveInsert(e)
      PROVE  ClientEdge(e, TRUE)
  BY <1>4 DEF RemoveInsert, ClientEdge
<1>5. Entry \subseteq MaybeEntry
  BY DEF MaybeEntry
<1> QED BY <1>1, <1>2, <1>3, <1>4, <1>5 DEF Next

-----------------------------------------------------------------------------
(* The search state. *)
IfsmReachable == ifsm \in {"IFSM_IDLE", "INSERT_REG", "INSERT_SL"}

LEMMA IfsmStep ==
  ASSUME IfsmReachable, NEW ins \in MaybeEntry, NEW rmv \in BOOLEAN,
         ClientEdge(ins, rmv)
  PROVE  IfsmReachable'
<1>1. ifsm' = IfsmNext(ins, rmv)
  BY DEF ClientEdge, Edge
<1>2. CASE ifsm = "IFSM_IDLE" /\ ins # NoEntry
  <2>1. ~insert_unknown
    BY <1>2 DEF ClientEdge, MayInsert, busy
  <2>2. Destination(ins) \in {"INSERT_REG", "INSERT_SL"}
    BY <2>1 DEF Destination
  <2> QED BY <1>1, <1>2, <2>2 DEF IfsmNext, IfsmReachable
<1>3. CASE ~(ifsm = "IFSM_IDLE" /\ ins # NoEntry)
  BY <1>1, <1>3 DEF IfsmNext, IfsmReachable
<1> QED BY <1>2, <1>3

(* An insert that obeys busy is never put off for want of the register's   *)
(* maximum, so the state that compares with the wrong rank is unreachable. *)
THEOREM TopNeverSearching == Spec => []NeverSearching
<1>1. Init => IfsmReachable
  BY DEF Init, IfsmReachable
<1>2. IfsmReachable /\ [Next]_vars => IfsmReachable'
  <2> SUFFICES ASSUME IfsmReachable, [Next]_vars PROVE IfsmReachable'
    OBVIOUS
  <2>1. CASE Next
    BY <2>1, NextIsEdge, IfsmStep
  <2>2. CASE UNCHANGED vars
    BY <2>2 DEF vars, IfsmReachable
  <2> QED BY <2>1, <2>2
<1>3. IfsmReachable => NeverSearching
  BY DEF IfsmReachable, NeverSearching
<1> QED BY <1>1, <1>2, <1>3, PTL DEF Spec

-----------------------------------------------------------------------------
(* The rules of the register.  ValidSteady is what makes them inductive:   *)
(* valid_out in the cycle after a change vouches for a second entry.       *)
RegisterRules ==
  /\ reg.num_entries \in 0 .. REG_WIDTH
  /\ RegisterSafe
  /\ R!ValidSteady

(* The machines share the insert port and leave a cycle between inserts. *)
LEMMA InsertsApart == pr_insert # NoEntry => ~pr_insert_last_r
BY DEF pr_insert, DirectInsert, WriteBack

LEMMA RegisterStep ==
  ASSUME RegisterRules, NEW ins \in MaybeEntry, NEW rmv \in BOOLEAN,
         ClientEdge(ins, rmv)
  PROVE  RegisterRules'
<1>1. /\ reg.num_entries \in Nat /\ reg.num_entries <= REG_WIDTH
      /\ REG_WIDTH \in Nat /\ REG_WIDTH >= 2
      /\ reg.num_entries > 0 => reg.num_entries - 1 \in 0 .. REG_WIDTH
      /\ reg.num_entries < REG_WIDTH => reg.num_entries + 1 \in 0 .. REG_WIDTH
  BY RegWidthAssumption DEF RegisterRules
<1>2. /\ reg' = RegNext(reg, pr_insert, rmv)
      /\ pr_insert_last_r' <=> pr_insert # NoEntry
      /\ remove_last' <=> rmv
      /\ rmv => reg.valid_out /\ ~remove_last
  BY DEF ClientEdge, Edge, MayRemove
<1>3. /\ reg.full <=> reg.num_entries + R!Pending = REG_WIDTH
      /\ reg.insert_ltch # NoEntry =>
            reg.num_entries < REG_WIDTH /\ pr_insert_last_r /\ remove_last
      /\ reg.valid_out => reg.num_entries > 0
      /\ reg.num_entries > 0 => reg.valid_out \/ reg.calc_min_max
      /\ reg.valid_out /\ reg.calc_min_max /\ ~remove_last => reg.num_entries >= 2
  BY DEF RegisterRules, RegisterSafe, R!FullExact, R!LatchSafe,
         R!ValidMeansEntry, R!NeverStuck, R!ValidSteady
<1>4. CASE rmv = TRUE
  <2>1. /\ reg' = AfterRemove(reg, pr_insert)
        /\ reg.insert_ltch = NoEntry /\ reg.num_entries > 0
        /\ reg.calc_min_max => reg.num_entries >= 2
        /\ remove_last'
    BY <1>2, <1>3, <1>4 DEF RegNext
  <2>2. /\ reg'.num_entries = reg.num_entries - 1
        /\ reg'.insert_ltch = pr_insert
        /\ reg'.calc_min_max
        /\ reg'.valid_out <=> (reg.calc_min_max /\ reg.num_entries > 0)
        /\ reg'.full <=> pr_insert # NoEntry /\ reg.full
    BY <2>1 DEF AfterRemove, ValidNext
  <2>3. R!FullExact'
    BY <1>1, <1>3, <2>1, <2>2 DEF R!FullExact, R!Pending
  <2>4. R!LatchSafe'
    BY <1>1, <1>2, <2>1, <2>2 DEF R!LatchSafe
  <2>45. R!NeverStuck' /\ R!ValidSteady'
    BY <2>1, <2>2 DEF R!NeverStuck, R!ValidSteady
  <2>5. R!ValidMeansEntry'
    BY <1>1, <2>1, <2>2 DEF R!ValidMeansEntry
  <2> QED BY <1>1, <2>1, <2>2, <2>3, <2>4, <2>45, <2>5
          DEF RegisterRules, RegisterSafe
<1>5. ASSUME rmv = FALSE, NEW e, NEW i, reg' = AfterInsert(reg, e, i, FALSE),
             reg.insert_ltch = NoEntry \/ i = NoEntry
      PROVE  RegisterRules'
  <2>1. /\ reg.num_entries < REG_WIDTH => reg'.num_entries = reg.num_entries + 1
        /\ ~(reg.num_entries < REG_WIDTH) => reg'.num_entries = reg.num_entries
        /\ reg'.insert_ltch = NoEntry
        /\ reg'.calc_min_max
        /\ reg'.valid_out <=> \/ reg.calc_min_max /\ reg.num_entries > 0
                              \/ reg.valid_out /\ i = NoEntry
        /\ reg'.full <=> (reg.num_entries >= REG_WIDTH - 1)
    BY <1>5 DEF AfterInsert, ValidNext
  <2>2. R!FullExact'
    BY <1>1, <2>1 DEF R!FullExact, R!Pending
  <2>3. R!LatchSafe' /\ R!NeverStuck' /\ R!ValidMeansEntry' /\ R!ValidSteady'
    BY <1>1, <1>3, <2>1
       DEF R!LatchSafe, R!NeverStuck, R!ValidMeansEntry, R!ValidSteady
  <2> QED BY <1>1, <1>2, <2>1, <2>2, <2>3 DEF RegisterRules, RegisterSafe
<1>6. CASE rmv = FALSE /\ pr_insert # NoEntry
  <2>1. reg' = AfterInsert(reg, pr_insert, pr_insert, FALSE)
    BY <1>2, <1>6 DEF RegNext
  <2>2. reg.insert_ltch = NoEntry
    BY <1>3, <1>6, InsertsApart
  <2> QED BY <1>5, <1>6, <2>1, <2>2
<1>7. CASE rmv = FALSE /\ pr_insert = NoEntry /\ reg.insert_ltch # NoEntry
  <2>1. reg' = AfterInsert(reg, reg.insert_ltch, pr_insert, FALSE)
    BY <1>2, <1>7 DEF RegNext
  <2> QED BY <1>5, <1>7, <2>1
<1>8. CASE rmv = FALSE /\ pr_insert = NoEntry /\ reg.insert_ltch = NoEntry
  <2>1. reg' = AfterIdle(reg, FALSE)
    BY <1>2, <1>8 DEF RegNext
  <2>2. /\ reg'.num_entries = reg.num_entries
        /\ reg'.insert_ltch = NoEntry
        /\ ~reg'.calc_min_max
        /\ reg'.valid_out <=> \/ reg.calc_min_max /\ reg.num_entries > 0
                              \/ reg.valid_out
        /\ reg'.full <=> reg.full
    BY <1>8, <2>1 DEF AfterIdle, ValidNext, RegisterRules
  <2>3. R!FullExact'
    BY <1>3, <1>8, <2>2 DEF R!FullExact, R!Pending
  <2>4. R!LatchSafe' /\ R!NeverStuck' /\ R!ValidMeansEntry' /\ R!ValidSteady'
    BY <1>3, <2>2 DEF R!LatchSafe, R!NeverStuck, R!ValidMeansEntry, R!ValidSteady
  <2> QED BY <1>2, <2>2, <2>3, <2>4 DEF RegisterRules, RegisterSafe
<1> QED BY <1>4, <1>6, <1>7, <1>8

LEMMA RegisterInit == Init => RegisterRules
<1> SUFFICES ASSUME Init PROVE RegisterRules
  OBVIOUS
<1>1. /\ reg.num_entries = 0 /\ reg.insert_ltch = NoEntry
      /\ ~reg.calc_min_max /\ ~reg.valid_out /\ ~reg.full
      /\ ~pr_insert_last_r /\ ~remove_last
  BY DEF Init, RegInit
<1>2. RegisterSafe /\ R!ValidSteady
  BY <1>1, RegWidthAssumption
     DEF RegisterSafe, R!FullExact, R!Pending, R!LatchSafe, R!ValidMeansEntry,
         R!NeverStuck, R!ValidSteady
<1> QED BY <1>1, <1>2, RegWidthAssumption DEF RegisterRules

LEMMA RegisterStutter ==
  ASSUME RegisterRules, UNCHANGED vars
  PROVE  RegisterRules'
BY DEF vars, RegisterRules, RegisterSafe, R!FullExact, R!Pending, R!LatchSafe,
       R!ValidMeansEntry, R!NeverStuck, R!ValidSteady

(* The insertion and the refill machine together are a client that keeps   *)
(* the rules of pifo_reg: what the register announces stays true, whatever *)
(* is inserted, and also after an insert was misfiled.                     *)
THEOREM TopRegisterSafe == Spec => []RegisterSafe
<1>1. RegisterRules /\ [Next]_vars => RegisterRules'
  <2> SUFFICES ASSUME RegisterRules, [Next]_vars PROVE RegisterRules'
    OBVIOUS
  <2>1. CASE Next
    BY <2>1, NextIsEdge, RegisterStep
  <2>2. CASE UNCHANGED vars
    BY <2>2, RegisterStutter
  <2> QED BY <2>1, <2>2
<1>2. RegisterRules => RegisterSafe
  BY DEF RegisterRules
<1> QED BY <1>1, <1>2, RegisterInit, PTL DEF Spec

-----------------------------------------------------------------------------
(* Where the entries are.  Apart says of the register H, the insertion     *)
(* machine F, the refill machine P and the lists L what Conserved says of  *)
(* Places.                                                                 *)
Apart(H, F, P, L, I) ==
  /\ \A e : e \in I <=> \/ e \in H \/ e \in F \/ e \in P
                        \/ \E k \in SkipLists : e \in L[k].held
  /\ \A e \in H : e \notin F /\ e \notin P
  /\ \A e \in F : e \notin P
  /\ \A k \in SkipLists : \A e \in L[k].held : e \notin H /\ e \notin F /\ e \notin P
  /\ \A j, k \in SkipLists : j # k => \A e \in L[j].held : e \notin L[k].held

PlacesOf(H, F, P, L) ==
  [p \in 0 .. NUM_SKIP_LISTS + 2 |->
     IF p < NUM_SKIP_LISTS THEN L[p].held
     ELSE IF p = NUM_SKIP_LISTS THEN H
     ELSE IF p = NUM_SKIP_LISTS + 1 THEN F ELSE P]

LEMMA ApartPlaces ==
  ASSUME NEW H, NEW F, NEW P, NEW L, NEW I, NEW Q, Q = PlacesOf(H, F, P, L)
  PROVE  (/\ I = UNION {Q[p] : p \in DOMAIN Q}
          /\ \A p, q \in DOMAIN Q : p # q => Q[p] \cap Q[q] = {})
         <=> Apart(H, F, P, L, I)
<1> DEFINE n == NUM_SKIP_LISTS
<1>1. /\ n \in Nat /\ n # 0
      /\ DOMAIN Q = SkipLists \cup {n, n + 1, n + 2}
      /\ \A k \in SkipLists : k # n /\ k # n + 1 /\ k # n + 2
      /\ n # n + 1 /\ n # n + 2 /\ n + 1 # n + 2
  BY NumSkipListsAssumption DEF SkipLists, PlacesOf
<1>2. /\ \A k \in SkipLists : Q[k] = L[k].held
      /\ Q[n] = H /\ Q[n + 1] = F /\ Q[n + 2] = P
  BY NumSkipListsAssumption DEF SkipLists, PlacesOf
<1> HIDE DEF n
<1>3. \A e : e \in UNION {Q[p] : p \in DOMAIN Q}
               <=> \/ e \in H \/ e \in F \/ e \in P
                   \/ \E k \in SkipLists : e \in L[k].held
  <2> TAKE e
  <2>1. e \in UNION {Q[p] : p \in DOMAIN Q} <=> \E p \in DOMAIN Q : e \in Q[p]
    OBVIOUS
  <2>2. (\E p \in DOMAIN Q : e \in Q[p])
          <=> \/ e \in Q[n] \/ e \in Q[n + 1] \/ e \in Q[n + 2]
              \/ \E k \in SkipLists : e \in Q[k]
    BY <1>1
  <2>3. (\E k \in SkipLists : e \in Q[k]) <=> \E k \in SkipLists : e \in L[k].held
    BY <1>2
  <2> QED BY <1>2, <2>1, <2>2, <2>3
<1>4. I = UNION {Q[p] : p \in DOMAIN Q}
        <=> \A e : e \in I <=> \/ e \in H \/ e \in F \/ e \in P
                               \/ \E k \in SkipLists : e \in L[k].held
  BY <1>3
<1>5. ASSUME \A p, q \in DOMAIN Q : p # q => Q[p] \cap Q[q] = {}
      PROVE  /\ \A e \in H : e \notin F /\ e \notin P
             /\ \A e \in F : e \notin P
             /\ \A k \in SkipLists : \A e \in L[k].held : e \notin H /\ e \notin F /\ e \notin P
             /\ \A j, k \in SkipLists : j # k => \A e \in L[j].held : e \notin L[k].held
  <2>1. Q[n] \cap Q[n + 1] = {} /\ Q[n] \cap Q[n + 2] = {} /\ Q[n + 1] \cap Q[n + 2] = {}
    BY <1>1, <1>5
  <2>2. \A k \in SkipLists : /\ Q[k] \cap Q[n] = {}
                             /\ Q[k] \cap Q[n + 1] = {}
                             /\ Q[k] \cap Q[n + 2] = {}
    BY <1>1, <1>5
  <2>3. \A j, k \in SkipLists : j # k => Q[j] \cap Q[k] = {}
    BY <1>1, <1>5
  <2> QED BY <1>2, <2>1, <2>2, <2>3
<1>6. ASSUME Apart(H, F, P, L, I), NEW p \in DOMAIN Q, NEW q \in DOMAIN Q, p # q
      PROVE  Q[p] \cap Q[q] = {}
  <2>1. CASE p \in SkipLists /\ q \in SkipLists
    BY <1>2, <1>6, <2>1 DEF Apart
  <2>2. CASE p \in SkipLists /\ q \in {n, n + 1, n + 2}
    BY <1>2, <1>6, <2>2 DEF Apart
  <2>3. CASE p \in {n, n + 1, n + 2} /\ q \in SkipLists
    BY <1>2, <1>6, <2>3 DEF Apart
  <2>4. CASE p \in {n, n + 1, n + 2} /\ q \in {n, n + 1, n + 2}
    BY <1>2, <1>6, <2>4 DEF Apart
  <2> QED BY <1>1, <2>1, <2>2, <2>3, <2>4
<1>7. Apart(H, F, P, L, I) => I = UNION {Q[p] : p \in DOMAIN Q}
  BY <1>4 DEF Apart
<1> QED BY <1>4, <1>5, <1>6, <1>7 DEF Apart

LEMMA ConservedApart ==
  Conserved <=> Apart(Held(reg), InFlight, InRefill, sls, inside)
<1>1. Places = PlacesOf(Held(reg), InFlight, InRefill, sls)
  BY DEF Places, PlacesOf
<1>2. (/\ inside = UNION {Places[p] : p \in DOMAIN Places}
       /\ \A p, q \in DOMAIN Places : p # q => Places[p] \cap Places[q] = {})
      <=> Apart(Held(reg), InFlight, InRefill, sls, inside)
  BY ONLY <1>1, ApartPlaces
<1> QED BY <1>2 DEF Conserved

(* The moves of one cycle keep the places apart: entries are given by the  *)
(* client or gone to it, go from the insertion or the refill machine into  *)
(* the register, are kicked out of it, fetched from list d, stored in q.   *)
(* The moves of one clock edge: where entries come from, and what the      *)
(* places hold after it.                                                   *)
MovesFrom(H, F, P, L, I, given, gone, fromF, fromP, kicked, fetched, d, stored, q) ==
  /\ gone \subseteq H /\ kicked \subseteq H /\ gone \cap kicked = {}
  /\ fromF \subseteq F /\ stored \subseteq F /\ fromF \cap stored = {}
  /\ fromP \subseteq P
  /\ given \cap I = {}
  /\ \A e \in fetched : d \in SkipLists /\ e \in L[d].held
  /\ \A e \in stored : q \in SkipLists

ListsAfter(L, L2, fetched, d, stored, q) ==
  \A k \in SkipLists :
    L2[k].held = (L[k].held \ (IF k = d THEN fetched ELSE {}))
                   \cup (IF k = q THEN stored ELSE {})

LEMMA MovesKeepApart ==
  ASSUME NEW H, NEW F, NEW P, NEW L, NEW I, Apart(H, F, P, L, I),
         NEW given, NEW gone, NEW fromF, NEW fromP, NEW kicked,
         NEW fetched, NEW d, NEW stored, NEW q,
         MovesFrom(H, F, P, L, I, given, gone, fromF, fromP, kicked, fetched, d, stored, q),
         NEW L2, ListsAfter(L, L2, fetched, d, stored, q)
  PROVE  Apart(((H \ gone) \ kicked) \cup fromF \cup fromP,
               ((F \ fromF) \ stored) \cup kicked \cup given,
               (P \ fromP) \cup fetched,
               L2,
               (I \ gone) \cup given)
<1> DEFINE H2 == ((H \ gone) \ kicked) \cup fromF \cup fromP
           F2 == ((F \ fromF) \ stored) \cup kicked \cup given
           P2 == (P \ fromP) \cup fetched
           I2 == (I \ gone) \cup given
<1> USE DEF MovesFrom
<1>1. /\ \A e : e \in I <=> \/ e \in H \/ e \in F \/ e \in P
                            \/ \E k \in SkipLists : e \in L[k].held
      /\ \A e \in H : e \notin F /\ e \notin P
      /\ \A e \in F : e \notin P
      /\ \A k \in SkipLists : \A e \in L[k].held : e \notin H /\ e \notin F /\ e \notin P
      /\ \A j, k \in SkipLists : j # k => \A e \in L[j].held : e \notin L[k].held
  BY DEF Apart
<1>2. \A k \in SkipLists : \A e :
        e \in L2[k].held <=> \/ e \in L[k].held /\ ~(k = d /\ e \in fetched)
                             \/ k = q /\ e \in stored
  BY DEF ListsAfter
<1>3. \A e : e \in I2 <=> \/ e \in H2 \/ e \in F2 \/ e \in P2
                          \/ \E k \in SkipLists : e \in L2[k].held
  <2> SUFFICES ASSUME NEW e
               PROVE  e \in I2 <=> \/ e \in H2 \/ e \in F2 \/ e \in P2
                                   \/ \E k \in SkipLists : e \in L2[k].held
    OBVIOUS
  <2>1. ASSUME e \in I2
        PROVE  \/ e \in H2 \/ e \in F2 \/ e \in P2
               \/ \E k \in SkipLists : e \in L2[k].held
    <3>1. CASE e \in given
      BY <3>1
    <3>2. CASE e \in H /\ e \notin gone
      BY <3>2
    <3>3. CASE e \in F
      BY <1>2, <3>3
    <3>4. CASE e \in P
      BY <3>4
    <3>5. ASSUME NEW k \in SkipLists, e \in L[k].held
          PROVE  e \in P2 \/ e \in L2[k].held
      BY <1>2, <3>5
    <3> QED BY <1>1, <2>1, <3>1, <3>2, <3>3, <3>4, <3>5
  <2>2. ASSUME e \in H2 \/ e \in F2 \/ e \in P2
        PROVE  e \in I2
    BY <1>1, <2>2
  <2>3. ASSUME NEW k \in SkipLists, e \in L2[k].held
        PROVE  e \in I2
    BY <1>1, <1>2, <2>3
  <2> QED BY <2>1, <2>2, <2>3
<1>4. \A e \in H2 : e \notin F2 /\ e \notin P2
  BY <1>1
<1>5. \A e \in F2 : e \notin P2
  BY <1>1
<1>6. ASSUME NEW k \in SkipLists, NEW e \in L2[k].held
      PROVE  e \notin H2 /\ e \notin F2 /\ e \notin P2
  BY <1>1, <1>2
<1>7. ASSUME NEW j \in SkipLists, NEW k \in SkipLists, j # k, NEW e \in L2[j].held
      PROVE  e \notin L2[k].held
  BY <1>1, <1>2, <1>7
<1> QED BY <1>3, <1>4, <1>5, <1>6, <1>7 DEF Apart

-----------------------------------------------------------------------------
(* What holds as long as no insert was misfiled. *)
LossInv ==
  /\ IfsmReachable
  /\ RegisterRules
  /\ SlotsOK(reg)
  /\ inside \subseteq Entry
  /\ \A k \in SkipLists : sls[k].head # NoEntry => sls[k].head \in sls[k].held
  /\ Apart(Held(reg), InFlight, InRefill, sls, inside)

(* What moves in a cycle. *)
Given(ins) == {ins} \ {NoEntry}
Gone(rmv) == IF rmv THEN {MinOut(reg)} ELSE {}
Kicked(rmv) == IF Kick(rmv) THEN {MaxOut(reg)} ELSE {}
FromFlight == IF DirectInsert THEN {in_r} ELSE {}
FromRefill == IF WriteBack THEN {rep_r} ELSE {}
Fetched == IF Fetch THEN {sls[final_deq_sel].head} ELSE {}
ToList == IF SlInsertReady THEN {in_r} ELSE {}

(* The registers of the machines hold entries when they are in use. *)
LEMMA InUseEntries ==
  ASSUME LossInv
  PROVE  /\ DirectInsert \/ SlInsertReady => in_r \in Entry /\ in_r \in InFlight
         /\ WriteBack => rep_r \in Entry /\ rep_r \in InRefill
         /\ Held(reg) \subseteq Entry
<1>1. InFlight \subseteq Entry /\ InRefill \subseteq Entry
  BY DEF LossInv, Apart
<1>2. DirectInsert \/ SlInsertReady => in_r \in InFlight
  BY DEF DirectInsert, SlInsertReady, InFlight
<1>3. WriteBack => rep_r \in InRefill
  BY DEF WriteBack, InRefill
<1> QED BY <1>1, <1>2, <1>3, FilledSlots DEF LossInv

LEMMA RegisterMoves ==
  ASSUME LossInv, NEW ins \in MaybeEntry, NEW rmv \in BOOLEAN,
         ClientEdge(ins, rmv), ~misfiled'
  PROVE  /\ SlotsOK(reg')
         /\ Gone(rmv) \subseteq Held(reg) /\ Kicked(rmv) \subseteq Held(reg)
         /\ Gone(rmv) \cap Kicked(rmv) = {}
         /\ Held(reg') = ((Held(reg) \ Gone(rmv)) \ Kicked(rmv))
                           \cup FromFlight \cup FromRefill
<1>1. /\ reg' = RegNext(reg, pr_insert, rmv)
      /\ rmv => reg.valid_out /\ ~remove_last
      /\ ~(Kick(rmv) /\ in_r.rank >= MaxOut(reg).rank)
  BY DEF ClientEdge, Edge, MayRemove
<1>2. /\ SlotsOK(reg)
      /\ reg.num_entries \in Nat /\ reg.num_entries <= REG_WIDTH
      /\ REG_WIDTH \in Nat
      /\ reg.full <=> reg.num_entries + R!Pending = REG_WIDTH
      /\ reg.insert_ltch # NoEntry =>
            reg.num_entries < REG_WIDTH /\ pr_insert_last_r /\ remove_last
      /\ reg.valid_out => reg.num_entries > 0
      /\ \A e \in Held(reg) : e \notin InFlight /\ e \notin InRefill
  BY FilledSlots
     DEF LossInv, RegisterRules, RegisterSafe, R!FullExact, R!LatchSafe,
         R!ValidMeansEntry, Apart
<1>3. /\ pr_insert # NoEntry <=> DirectInsert \/ WriteBack
      /\ DirectInsert => pr_insert = in_r /\ ~WriteBack
      /\ WriteBack => pr_insert = rep_r /\ ~reg.full
      /\ pr_insert # NoEntry => pr_insert \in Entry
      /\ pr_insert \in MaybeEntry
      /\ pr_insert \notin Held(reg)
      /\ FromFlight \cup FromRefill = {pr_insert} \ {NoEntry}
  <2>1. CASE DirectInsert
    <3>1. ~WriteBack /\ pr_insert = in_r
      BY <2>1 DEF DirectInsert, WriteBack, pr_insert
    <3> QED BY <1>2, <2>1, <3>1, InUseEntries, NoEntryAssumption
            DEF MaybeEntry, FromFlight, FromRefill
  <2>2. CASE ~DirectInsert /\ WriteBack
    <3>1. pr_insert = rep_r /\ ~reg.full
      BY <2>2 DEF WriteBack, pr_insert
    <3> QED BY <1>2, <2>2, <3>1, InUseEntries, NoEntryAssumption
            DEF MaybeEntry, FromFlight, FromRefill
  <2>3. CASE ~DirectInsert /\ ~WriteBack
    <3>1. pr_insert = NoEntry
      BY <2>3 DEF pr_insert
    <3> QED BY <2>3, <3>1, InUseEntries, NoEntryAssumption
            DEF MaybeEntry, FromFlight, FromRefill
  <2> QED BY <2>1, <2>2, <2>3
<1>4. Kick(rmv) => DirectInsert /\ reg.full /\ ~rmv
  BY DEF Kick
<1>5. CASE rmv = TRUE
  <2>1. /\ reg' = AfterRemove(reg, pr_insert)
        /\ reg.insert_ltch = NoEntry /\ reg.num_entries > 0
    BY <1>1, <1>2, <1>5 DEF RegNext
  <2>2. Kicked(rmv) = {} /\ Gone(rmv) = {MinOut(reg)}
    BY <1>4, <1>5 DEF Kicked, Gone
  <2> QED BY <1>2, <1>3, <2>1, <2>2, RemoveEffect
<1>6. CASE rmv = FALSE /\ pr_insert # NoEntry
  <2>1. reg' = AfterInsert(reg, pr_insert, pr_insert, rmv)
    BY <1>1, <1>6 DEF RegNext
  <2>2. reg.insert_ltch = NoEntry /\ Gone(rmv) = {}
    BY <1>2, <1>6, InsertsApart DEF Gone
  <2>3. CASE reg.full
    <3>1. DirectInsert /\ Kick(rmv) /\ reg.num_entries = REG_WIDTH
      BY <1>2, <1>3, <1>6, <2>2, <2>3 DEF Kick, R!Pending
    <3>2. Kicked(rmv) = {MaxOut(reg)} /\ MaxOut(reg) \in Held(reg)
      BY <1>2, <1>3, <1>6, <2>2, <3>1, InsertEffect DEF Kicked
    <3>3. pr_insert.rank < MaxOut(reg).rank
      <4>1. MaxOut(reg) \in Entry /\ in_r \in Entry /\ pr_insert = in_r
        BY <1>3, <3>1, <3>2, InUseEntries
      <4>2. MaxOut(reg).rank \in Nat /\ in_r.rank \in Nat
        BY <4>1 DEF Entry, Ranks
      <4> QED BY <1>1, <3>1, <4>1, <4>2
    <3>4. /\ SlotsOK(reg')
          /\ Held(reg') = (Held(reg) \ {MaxOut(reg)}) \cup {pr_insert}
      <4>1. SlotsOK(reg) /\ pr_insert \in Entry /\ pr_insert \notin Held(reg)
        BY <1>2, <1>3, <1>6
      <4> QED BY <2>1, <2>2, <3>1, <3>3, <4>1, InsertEffect
    <3> QED BY <1>3, <1>6, <2>2, <3>2, <3>4
  <2>4. CASE ~reg.full
    <3>1. Kicked(rmv) = {} /\ reg.num_entries < REG_WIDTH
      BY <1>2, <1>4, <2>2, <2>4 DEF Kicked, R!Pending
    <3>2. SlotsOK(reg') /\ Held(reg') = Held(reg) \cup {pr_insert}
      <4>1. SlotsOK(reg) /\ pr_insert \in Entry /\ pr_insert \notin Held(reg)
        BY <1>2, <1>3, <1>6
      <4> QED BY <2>1, <2>2, <3>1, <4>1, InsertEffect
    <3> QED BY <1>3, <1>6, <2>2, <3>1, <3>2
  <2> QED BY <2>3, <2>4
<1>7. CASE rmv = FALSE /\ pr_insert = NoEntry /\ reg.insert_ltch # NoEntry
  <2>1. reg' = AfterInsert(reg, reg.insert_ltch, pr_insert, rmv)
    BY <1>1, <1>7 DEF RegNext
  <2>2. Kicked(rmv) = {} /\ Gone(rmv) = {}
    BY <1>3, <1>4, <1>7 DEF Kicked, Gone
  <2>3. reg.insert_ltch \in Held(reg) /\ reg.insert_ltch \in Entry
    BY <1>2, <1>7, FilledSlots DEF Held
  <2>4. SlotsOK(reg') /\ Held(reg') = Held(reg) \cup {reg.insert_ltch}
    <3>1. SlotsOK(reg) /\ reg.num_entries < REG_WIDTH
      BY <1>2, <1>7
    <3> QED BY <2>1, <2>3, <3>1, InsertEffect
  <2> QED BY <1>3, <1>7, <2>2, <2>3, <2>4
<1>8. CASE rmv = FALSE /\ pr_insert = NoEntry /\ reg.insert_ltch = NoEntry
  <2>1. reg' = AfterIdle(reg, rmv)
    BY <1>1, <1>8 DEF RegNext
  <2>2. Kicked(rmv) = {} /\ Gone(rmv) = {}
    BY <1>3, <1>4, <1>8 DEF Kicked, Gone
  <2> QED BY <1>2, <1>3, <1>8, <2>1, <2>2, IdleEffect
<1> QED BY <1>5, <1>6, <1>7, <1>8

LEMMA FlightMoves ==
  ASSUME LossInv, NEW ins \in MaybeEntry, NEW rmv \in BOOLEAN,
         ClientEdge(ins, rmv)
  PROVE  /\ FromFlight \subseteq InFlight /\ ToList \subseteq InFlight
         /\ FromFlight \cap ToList = {}
         /\ InFlight' = ((InFlight \ FromFlight) \ ToList)
                          \cup Kicked(rmv) \cup Given(ins)
<1>1. /\ ifsm' = IfsmNext(ins, rmv)
      /\ in_r' = InNext(ins, rmv)
      /\ ins # NoEntry => ifsm = "IFSM_IDLE"
      /\ IfsmReachable'
  BY IfsmStep DEF ClientEdge, Edge, MayInsert, busy, LossInv
<1>2. CASE ifsm = "IFSM_IDLE"
  <2>1. /\ FromFlight = {} /\ ToList = {} /\ Kicked(rmv) = {}
        /\ InFlight = {}
    BY <1>2 DEF FromFlight, ToList, Kicked, Kick, DirectInsert, SlInsertReady, InFlight
  <2>2. CASE ins = NoEntry
    BY <1>1, <1>2, <2>1, <2>2 DEF IfsmNext, InFlight, Given
  <2>3. CASE ins # NoEntry
    <3>1. ifsm' # "IFSM_IDLE" /\ in_r' = ins
      BY <1>1, <1>2, <2>3 DEF IfsmNext, Destination, InNext
    <3> QED BY <2>1, <2>3, <3>1 DEF InFlight, Given
  <2> QED BY <2>2, <2>3
<1>3. CASE ifsm = "INSERT_REG"
  <2>1. /\ ToList = {} /\ Given(ins) = {} /\ InFlight = {in_r}
    BY <1>1, <1>3 DEF ToList, Given, SlInsertReady, InFlight
  <2>2. CASE Kick(rmv)
    <3>1. ifsm' = "INSERT_SL" /\ in_r' = MaxOut(reg) /\ DirectInsert
      BY <1>1, <1>3, <2>2 DEF IfsmNext, InNext, Kick
    <3> QED BY <2>1, <2>2, <3>1 DEF InFlight, Kicked, FromFlight
  <2>3. CASE ~Kick(rmv) /\ DirectInsert
    <3>1. ifsm' = "IFSM_IDLE"
      BY <1>1, <1>3, <2>3 DEF IfsmNext
    <3> QED BY <2>1, <2>3, <3>1 DEF InFlight, Kicked, FromFlight
  <2>4. CASE ~DirectInsert
    <3>1. ifsm' = ifsm /\ in_r' = in_r /\ ~Kick(rmv)
      BY <1>1, <1>3, <2>4 DEF IfsmNext, InNext, Kick, SlInsertReady
    <3> QED BY <1>3, <2>1, <2>4, <3>1 DEF InFlight, Kicked, FromFlight
  <2> QED BY <2>2, <2>3, <2>4
<1>4. CASE ifsm = "INSERT_SL"
  <2>1. /\ FromFlight = {} /\ Kicked(rmv) = {} /\ Given(ins) = {}
        /\ InFlight = {in_r} /\ ~DirectInsert /\ ~Kick(rmv)
    BY <1>1, <1>4 DEF FromFlight, Kicked, Given, Kick, DirectInsert, InFlight
  <2>2. CASE SlInsertReady
    <3>1. ifsm' = "IFSM_IDLE"
      BY <1>1, <1>4, <2>2 DEF IfsmNext
    <3> QED BY <2>1, <2>2, <3>1 DEF InFlight, ToList
  <2>3. CASE ~SlInsertReady
    <3>1. ifsm' = ifsm /\ in_r' = in_r
      BY <1>1, <1>4, <2>1, <2>3 DEF IfsmNext, InNext
    <3> QED BY <1>4, <2>1, <2>3, <3>1 DEF InFlight, ToList
  <2> QED BY <2>2, <2>3
<1> QED BY <1>2, <1>3, <1>4 DEF LossInv, IfsmReachable

LEMMA RefillMoves ==
  ASSUME NEW ins, NEW rmv, Edge(ins, rmv)
  PROVE  /\ FromRefill \subseteq InRefill
         /\ InRefill' = (InRefill \ FromRefill) \cup Fetched
<1>1. refill' = RefillNext /\ rep_r' = RepNext
  BY DEF Edge
<1>2. CASE Fetch
  BY <1>1, <1>2 DEF Fetch, WriteBack, RefillNext, RepNext, InRefill, FromRefill, Fetched
<1>3. CASE ~Fetch /\ WriteBack
  BY <1>1, <1>3 DEF WriteBack, RefillNext, RepNext, InRefill, FromRefill, Fetched
<1>4. CASE ~Fetch /\ ~WriteBack
  BY <1>1, <1>4 DEF RefillNext, RepNext, InRefill, FromRefill, Fetched
<1> QED BY <1>2, <1>3, <1>4

(* A list keeps what it holds but for the ports, and offers one of it. *)
LEMMA SlKeeps ==
  ASSUME NEW s, s.head # NoEntry => s.head \in s.held,
         NEW ins, NEW rmv \in BOOLEAN, NEW t \in SL!SlNext(s, ins, rmv)
  PROVE  /\ t.held = SL!AfterPorts(s, ins, rmv)
         /\ t.head # NoEntry => t.head \in t.held
<1>a. PICK b \in SL!BusyNext(s, ins, rmv) :
        t \in UNION {SL!ListsWith(s, ins, rmv, b, f) : f \in SL!FreshNext(s, ins, b)}
  BY DEF SL!SlNext
<1>0. PICK f \in SL!FreshNext(s, ins, b) : t \in SL!ListsWith(s, ins, rmv, b, f)
  BY <1>a
<1>1. PICK h \in SL!HeadNext(s, rmv, SL!AfterPorts(s, ins, rmv) \ {f}),
           n \in SL!NumNext(s) :
        t = [held |-> SL!AfterPorts(s, ins, rmv), fresh |-> f, head |-> h,
             busy |-> b, num |-> n]
  BY <1>0 DEF SL!ListsWith
<1>2. t.held = SL!AfterPorts(s, ins, rmv) /\ t.head = h
  BY <1>1
<1>3. h # NoEntry => h \in SL!AfterPorts(s, ins, rmv)
  BY <1>1 DEF SL!HeadNext, SL!LeastRank, SL!AfterPorts
<1> QED BY <1>2, <1>3

LEMMA ListMoves ==
  ASSUME LossInv, NEW ins, NEW rmv, Edge(ins, rmv)
  PROVE  /\ \A e \in Fetched : /\ final_deq_sel \in SkipLists
                               /\ e \in sls[final_deq_sel].held
         /\ \A e \in ToList : final_enq_sel \in SkipLists
         /\ \A k \in SkipLists :
              /\ sls'[k].held = (sls[k].held \ (IF k = final_deq_sel THEN Fetched ELSE {}))
                                  \cup (IF k = final_enq_sel THEN ToList ELSE {})
              /\ sls'[k].head # NoEntry => sls'[k].head \in sls'[k].held
<1>1. \A k \in SkipLists : sls[k].head # NoEntry => sls[k].head \in sls[k].held
  BY DEF LossInv
<1>2. Fetch => /\ final_deq_sel \in SkipLists
               /\ sls[final_deq_sel].head # NoEntry
  BY DEF Fetch, Offering
<1>3. SlInsertReady => /\ final_enq_sel \in SkipLists
                       /\ ~sls[final_enq_sel].busy
                       /\ ~SL!SlFull(sls[final_enq_sel])
                       /\ in_r # NoEntry
  BY InUseEntries, NoEntryAssumption DEF SlInsertReady, Available
<1>4. ASSUME NEW k \in SkipLists
      PROVE  /\ sls'[k].held = (sls[k].held \ (IF k = final_deq_sel THEN Fetched ELSE {}))
                                 \cup (IF k = final_enq_sel THEN ToList ELSE {})
             /\ sls'[k].head # NoEntry => sls'[k].head \in sls'[k].held
  <2>1. sls'[k] \in SL!SlNext(sls[k], sl_insert(k), sl_remove(k))
    BY DEF Edge, SlsNext
  <2>2. sl_remove(k) \in BOOLEAN
    BY DEF sl_remove
  <2>3. /\ sls'[k].held = SL!AfterPorts(sls[k], sl_insert(k), sl_remove(k))
        /\ sls'[k].head # NoEntry => sls'[k].head \in sls'[k].held
    BY <1>1, <2>1, <2>2, SlKeeps
  <2>4. (IF sl_remove(k) THEN {sls[k].head} ELSE {})
          = IF k = final_deq_sel THEN Fetched ELSE {}
    BY DEF sl_remove, Fetched
  <2>5. SL!Accepted(sls[k], sl_insert(k)) = IF k = final_enq_sel THEN ToList ELSE {}
    BY <1>3 DEF SL!Accepted, sl_insert, ToList
  <2> QED BY <2>3, <2>4, <2>5 DEF SL!AfterPorts
<1> QED BY <1>1, <1>2, <1>3, <1>4 DEF Fetched, ToList

LEMMA LossStep ==
  ASSUME LossInv, NEW ins \in MaybeEntry, NEW rmv \in BOOLEAN,
         ClientEdge(ins, rmv), ~misfiled'
  PROVE  LossInv'
<1>1. Edge(ins, rmv)
  BY DEF ClientEdge
<1>2. /\ inside' = (inside \ Gone(rmv)) \cup Given(ins)
      /\ Given(ins) \cap inside = {}
      /\ Given(ins) \subseteq Entry
  BY DEF ClientEdge, Edge, MayInsert, Gone, Given
<1>3. Apart(Held(reg), InFlight, InRefill, sls, inside)
  BY DEF LossInv
<1>4. Apart(Held(reg'), InFlight', InRefill', sls', inside')
  <2>1. /\ Gone(rmv) \subseteq Held(reg) /\ Kicked(rmv) \subseteq Held(reg)
        /\ Gone(rmv) \cap Kicked(rmv) = {}
        /\ Held(reg') = ((Held(reg) \ Gone(rmv)) \ Kicked(rmv))
                          \cup FromFlight \cup FromRefill
    BY RegisterMoves
  <2>2. /\ FromFlight \subseteq InFlight /\ ToList \subseteq InFlight
        /\ FromFlight \cap ToList = {}
        /\ InFlight' = ((InFlight \ FromFlight) \ ToList)
                         \cup Kicked(rmv) \cup Given(ins)
    BY FlightMoves
  <2>3. FromRefill \subseteq InRefill /\ InRefill' = (InRefill \ FromRefill) \cup Fetched
    BY <1>1, RefillMoves
  <2>4. ListsAfter(sls, sls', Fetched, final_deq_sel, ToList, final_enq_sel)
    BY <1>1, ListMoves DEF ListsAfter
  <2>5. MovesFrom(Held(reg), InFlight, InRefill, sls, inside, Given(ins), Gone(rmv),
                  FromFlight, FromRefill, Kicked(rmv), Fetched, final_deq_sel,
                  ToList, final_enq_sel)
    BY <1>1, <1>2, <2>1, <2>2, <2>3, ListMoves DEF MovesFrom
  <2>6. Apart(((Held(reg) \ Gone(rmv)) \ Kicked(rmv)) \cup FromFlight \cup FromRefill,
              ((InFlight \ FromFlight) \ ToList) \cup Kicked(rmv) \cup Given(ins),
              (InRefill \ FromRefill) \cup Fetched, sls',
              (inside \ Gone(rmv)) \cup Given(ins))
    BY ONLY <1>3, <2>4, <2>5, MovesKeepApart
  <2> QED BY <1>2, <2>1, <2>2, <2>3, <2>6
<1>5. inside' \subseteq Entry
  BY <1>2 DEF LossInv
<1>6. IfsmReachable' /\ RegisterRules'
  BY IfsmStep, RegisterStep DEF LossInv
<1>7. SlotsOK(reg')
  BY RegisterMoves
<1>8. \A k \in SkipLists : sls'[k].head # NoEntry => sls'[k].head \in sls'[k].held
  BY <1>1, ListMoves
<1> QED BY <1>4, <1>5, <1>6, <1>7, <1>8 DEF LossInv

LEMMA LossInit == Init => LossInv
<1> SUFFICES ASSUME Init PROVE LossInv
  OBVIOUS
<1>1. SlotsOK(reg) /\ Held(reg) = {}
  BY RegInitSlots DEF Init
<1>2. /\ ifsm = "IFSM_IDLE" /\ refill = "WAIT_VALID" /\ inside = {}
      /\ \A k \in SkipLists : sls[k].held = {} /\ sls[k].head = NoEntry
  BY DEF Init, SL!SlInit
<1>3. InFlight = {} /\ InRefill = {}
  BY <1>2 DEF InFlight, InRefill
<1>4. Apart(Held(reg), InFlight, InRefill, sls, inside)
  BY <1>1, <1>2, <1>3 DEF Apart
<1> QED BY <1>1, <1>2, <1>4, RegisterInit DEF LossInv, IfsmReachable

(* Up to the first misfiled insert every entry that the client gave and    *)
(* has not got back is in exactly one place, however the cycles of the two *)
(* machines, the register and the lists fall together.                     *)
THEOREM TopLossOnlyByMisfiling == Spec => []LossOnlyByMisfiling
<1> DEFINE Inv == ~misfiled => LossInv
<1>1. Init => Inv
  BY LossInit
<1>2. Inv /\ [Next]_vars => Inv'
  <2> SUFFICES ASSUME Inv, [Next]_vars, ~misfiled' PROVE LossInv'
    OBVIOUS
  <2>1. CASE Next
    <3>1. PICK ins \in MaybeEntry, rmv \in BOOLEAN : ClientEdge(ins, rmv)
      BY <2>1, NextIsEdge
    <3>2. ~misfiled
      BY <3>1 DEF ClientEdge, Edge
    <3> QED BY <3>1, <3>2, LossStep
  <2>2. CASE UNCHANGED vars
    <3>1. LossInv
      BY <2>2 DEF vars
    <3>2. RegisterRules'
      BY <2>2, <3>1, RegisterStutter DEF LossInv
    <3> QED BY <2>2, <3>1, <3>2 DEF vars, LossInv, IfsmReachable, InFlight, InRefill
  <2> QED BY <2>1, <2>2
<1>3. Inv => LossOnlyByMisfiling
  BY ConservedApart DEF LossInv, LossOnlyByMisfiling
<1> QED BY <1>1, <1>2, <1>3, PTL DEF Spec
=============================================================================

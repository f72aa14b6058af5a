------------------------- MODULE PktStorage_proofs -------------------------
(***************************************************************************)
(* Proofs about the packet storage, for every size of the RAM, every set   *)
(* of packets and every length of them, when no packet arrives before the  *)
(* free lists are filled:                                                  *)
(*  - no meta data slot is lost or doubled, however long the output is     *)
(*    stalled and also when packets are requested while they arrive;       *)
(*  - no segment is lost, leaked or taken by two packets, and a packet     *)
(*    leaves as it arrived, when the output is stalled at most four cycles *)
(*    in a row and a packet requested while it arrives is requested two    *)
(*    cycles later after its first word than its source pauses.            *)
(***************************************************************************)
EXTENDS PktStorage, FiniteSetTheorems, TLAPS

(* No element twice, and none of it is x. *)
Once(fl) == \A i, j \in 1 .. Len(fl) : fl[i] = fl[j] => i = j
Lacks(fl, x) == \A i \in 1 .. Len(fl) : fl[i] # x

(* What taking the head off and putting something behind does to a list. *)
LEMMA TailOnce ==
  ASSUME NEW fl \in Seq(Ptrs), Once(fl), fl # <<>>
  PROVE  /\ Tail(fl) \in Seq(Ptrs) /\ Once(Tail(fl))
         /\ Len(Tail(fl)) = Len(fl) - 1
         /\ Head(fl) \in Ptrs /\ Head(fl) = fl[1] /\ Lacks(Tail(fl), Head(fl))
         /\ \A x : Lacks(fl, x) => Lacks(Tail(fl), x)
         /\ \A x : Lacks(Tail(fl), x) /\ x # Head(fl) => Lacks(fl, x)
<1>1. /\ Len(fl) \in Nat /\ Len(fl) > 0
      /\ Len(Tail(fl)) = Len(fl) - 1
      /\ Tail(fl) \in Seq(Ptrs)
      /\ \A i \in 1 .. Len(Tail(fl)) : Tail(fl)[i] = fl[i + 1]
      /\ Head(fl) = fl[1] /\ fl[1] \in Ptrs
  OBVIOUS
<1>2. \A i \in 1 .. Len(Tail(fl)) : i + 1 \in 1 .. Len(fl) /\ 1 \in 1 .. Len(fl) /\ i + 1 # 1
  BY <1>1
<1>3. Once(Tail(fl))
  BY <1>1, <1>2 DEF Once
<1>4. ASSUME NEW x, Lacks(Tail(fl), x), x # Head(fl)
      PROVE  Lacks(fl, x)
  <2>1. ASSUME NEW i \in 1 .. Len(fl), i # 1
        PROVE  fl[i] # x
    <3>1. i - 1 \in 1 .. Len(Tail(fl)) /\ (i - 1) + 1 = i
      BY <1>1, <2>1
    <3>2. Tail(fl)[i - 1] = fl[i]
      BY <1>1, <3>1
    <3> QED BY <1>4, <3>1, <3>2 DEF Lacks
  <2> QED BY <1>1, <1>4, <2>1 DEF Lacks
<1> QED BY <1>1, <1>2, <1>3, <1>4 DEF Once, Lacks

(* A slot the list lacks may be put behind it. *)
LEMMA AppendOnce ==
  ASSUME NEW fl \in Seq(Ptrs), Once(fl), NEW x \in Ptrs, Lacks(fl, x)
  PROVE  /\ fl \o <<x>> \in Seq(Ptrs) /\ Once(fl \o <<x>>)
         /\ Len(fl \o <<x>>) = Len(fl) + 1
         /\ \A y : Lacks(fl \o <<x>>, y) <=> Lacks(fl, y) /\ y # x
<1> DEFINE t == fl \o <<x>>
<1>1. /\ Len(fl) \in Nat
      /\ t \in Seq(Ptrs) /\ Len(t) = Len(fl) + 1
      /\ \A i \in 1 .. Len(fl) : t[i] = fl[i]
      /\ t[Len(fl) + 1] = x
  OBVIOUS
<1> HIDE DEF t
<1>2. \A i \in 1 .. Len(t) : i \in 1 .. Len(fl) \/ i = Len(fl) + 1
  BY <1>1
<1>3. Once(t)
  BY <1>1, <1>2 DEF Once, Lacks
<1>4. \A y : Lacks(t, y) <=> Lacks(fl, y) /\ y # x
  BY <1>1, <1>2 DEF Lacks
<1> QED BY <1>1, <1>3, <1>4 DEF t

-----------------------------------------------------------------------------
(* The slot of the packet that leaves is still out. *)
HoldsMeta == rfsm = "WAIT_BOTH_BRAM" /\ ~free_list_written_r

(* The invariant: nothing happens before the lists are filled, and every   *)
(* slot handed out is in the list, with one packet that waits, or with the *)
(* one that leaves.                                                        *)
FillingIsQuiet ==
  /\ cur_val \in 0 .. MAX_PKTS - 1
  /\ Filling => ifsm = "START_WORD" /\ waiting = {} /\ rfsm = "WAIT_REQUEST"

ListSound ==
  /\ meta_fl \in Seq(Ptrs)
  /\ Once(meta_fl)
  /\ \A i \in 1 .. Len(meta_fl) : meta_fl[i] < cur_val

WaitingApart ==
  /\ IsFiniteSet(waiting)
  /\ \A w \in waiting : /\ w.pkt \in Pkts /\ w.pkt # leaving.pkt
                        /\ w.meta \in Ptrs /\ w.meta < cur_val
                        /\ Lacks(meta_fl, w.meta)
  /\ \A v, w \in waiting : v # w => v.meta # w.meta /\ v.pkt # w.pkt

HeldApart ==
  HoldsMeta => /\ rfsm_cur_meta_ptr \in Ptrs /\ rfsm_cur_meta_ptr < cur_val
               /\ Lacks(meta_fl, rfsm_cur_meta_ptr)
               /\ \A w \in waiting : w.meta # rfsm_cur_meta_ptr

MetaInv ==
  /\ leaving \in [pkt : Pkts \cup {NoPkt}, words : Nat]
  /\ FillingIsQuiet
  /\ ListSound
  /\ WaitingApart
  /\ HeldApart
  /\ Len(meta_fl) + MetaOut = cur_val

-----------------------------------------------------------------------------
(* What the insertion machine does to the slots. *)
LEMMA Arrivals ==
  ASSUME MetaInv, Next, ~EARLY_TRAFFIC
  PROVE  /\ meta_fl_rd_en => /\ ~Filling /\ meta_fl # <<>>
                             /\ arriving'.pkt \in Pkts \ Inside
         /\ Filling => ifsm' = ifsm
<1>1. CASE NoArrival
  BY <1>1 DEF NoArrival, insVars, meta_fl_rd_en
<1>2. CASE StartWord
  <2>1. ~Filling /\ meta_fl # <<>>
    BY <1>2, MaxPktsAssumption DEF StartWord, Filling, s_axis_pkt_tready
  <2>2. arriving'.pkt \in Pkts \ Inside
    BY <1>2 DEF StartWord
  <2> QED BY <2>1, <2>2
<1>3. CASE WordOne \/ WordTwo
  BY <1>3 DEF WordOne, WordTwo, meta_fl_rd_en, MetaInv, FillingIsQuiet
<1> QED BY <1>1, <1>2, <1>3 DEF Next, Insertion

(* What the removal machine does: it takes a packet that waits, gives the  *)
(* slot back, or leaves it where it is.                                    *)
Taken(w) ==
  /\ rfsm = "WAIT_REQUEST" /\ HoldsMeta'
  /\ rfsm_cur_meta_ptr' = w.meta /\ leaving'.pkt = w.pkt
Departs ==
  /\ rfsm_cur_meta_ptr' = rfsm_cur_meta_ptr
  /\ leaving'.pkt \in {leaving.pkt, NoPkt}
  /\ HoldsMeta' <=> HoldsMeta /\ ~meta_fl_wr_en

LEMMA Removals ==
  ASSUME MetaInv, Next
  PROVE  /\ leaving' \in [pkt : Pkts \cup {NoPkt}, words : Nat]
         /\ (\E w \in waiting : Taken(w)) \/ Departs
         /\ meta_fl_wr_en => HoldsMeta
         /\ rfsm = "WAIT_REQUEST" /\ waiting = {} => rfsm' = "WAIT_REQUEST"
<1>1. meta_fl_wr_en => HoldsMeta
  BY DEF meta_fl_wr_en, seg_fl_wr_en, HoldsMeta
<1>2. leaving \in [pkt : Pkts \cup {NoPkt}, words : Nat]
  BY DEF MetaInv
<1>3. CASE NoRequest
  BY <1>1, <1>2, <1>3 DEF NoRequest, Departs, HoldsMeta
<1>4. CASE Request
  <2>1. PICK w \in waiting : /\ rfsm_cur_meta_ptr' = w.meta
                             /\ leaving' = [pkt |-> w.pkt, words |-> 0]
    BY <1>4 DEF Request
  <2>2. Taken(w)
    BY <1>4, <2>1 DEF Request, Taken, HoldsMeta
  <2>3. leaving' \in [pkt : Pkts \cup {NoPkt}, words : Nat]
    BY <2>1 DEF MetaInv, WaitingApart
  <2> QED BY <1>1, <2>1, <2>2, <2>3
<1>5. CASE WaitBram
  <2>1. ~meta_fl_wr_en
    BY <1>5 DEF WaitBram, meta_fl_wr_en, seg_fl_wr_en, FirstOfSegment
  <2> QED BY <1>2, <1>5, <2>1 DEF WaitBram, Departs, HoldsMeta
<1>6. ASSUME NEW tready \in BOOLEAN, Leave(tready)
      PROVE  /\ leaving' \in [pkt : Pkts \cup {NoPkt}, words : Nat]
             /\ leaving'.pkt \in {leaving.pkt, NoPkt}
  BY <1>2, <1>6 DEF Leave, Nobody
<1>7. ASSUME NEW tready \in BOOLEAN, FirstWord(tready)
      PROVE  Departs /\ leaving' \in [pkt : Pkts \cup {NoPkt}, words : Nat]
  <2>1. Leave(tready) /\ rfsm_cur_meta_ptr' = rfsm_cur_meta_ptr
    BY <1>7 DEF FirstWord
  <2>2. HoldsMeta' <=> HoldsMeta /\ ~meta_fl_wr_en
    BY <1>7 DEF FirstWord, FirstOfSegment, AfterFirstWord, HoldsMeta,
                meta_fl_wr_en, seg_fl_wr_en
  <2> QED BY <1>6, <2>1, <2>2 DEF Departs
<1>8. ASSUME NEW tready \in BOOLEAN, SecondWord(tready)
      PROVE  Departs /\ leaving' \in [pkt : Pkts \cup {NoPkt}, words : Nat]
  <2>1. Leave(tready) /\ rfsm_cur_meta_ptr' = rfsm_cur_meta_ptr
    BY <1>8 DEF SecondWord
  <2>2. ~HoldsMeta /\ ~HoldsMeta'
    BY <1>8 DEF SecondWord, HoldsMeta
  <2> QED BY <1>6, <2>1, <2>2 DEF Departs
<1>9. rfsm = "WAIT_REQUEST" /\ waiting = {} => rfsm' = "WAIT_REQUEST"
  BY DEF Next, Removal, NoRequest, Request, WaitBram, FirstWord, SecondWord,
         FirstOfSegment
<1> QED BY <1>1, <1>3, <1>4, <1>5, <1>7, <1>8, <1>9 DEF Next, Removal

-----------------------------------------------------------------------------
(* The list itself: what is appended was not in it, what is taken from it  *)
(* is not in it any more.                                                  *)
LEMMA ListMoves ==
  ASSUME MetaInv, Next, ~EARLY_TRAFFIC
  PROVE  /\ ListSound' /\ FillingIsQuiet'
         /\ cur_val' = IF Filling THEN cur_val + 1 ELSE cur_val
         /\ Len(meta_fl') = Len(meta_fl) - (IF meta_fl_rd_en THEN 1 ELSE 0)
                              + (IF Filling \/ meta_fl_wr_en THEN 1 ELSE 0)
         /\ ~(Filling /\ meta_fl_wr_en)
         /\ \A x : Lacks(meta_fl, x) /\ x # cur_val
                  /\ (meta_fl_wr_en => x # rfsm_cur_meta_ptr) => Lacks(meta_fl', x)
         /\ meta_fl_rd_en => /\ Head(meta_fl) \in Ptrs /\ Head(meta_fl) < cur_val
                             /\ ~Lacks(meta_fl, Head(meta_fl))
                             /\ Lacks(meta_fl', Head(meta_fl))
<1> DEFINE mid == IF meta_fl_rd_en THEN Tail(meta_fl) ELSE meta_fl
<1>1. /\ MAX_PKTS \in Nat /\ MAX_PKTS >= 2
      /\ cur_val \in Nat /\ cur_val <= MAX_PKTS - 1
      /\ meta_fl \in Seq(Ptrs) /\ Once(meta_fl) /\ Len(meta_fl) \in Nat
      /\ \A i \in 1 .. Len(meta_fl) : meta_fl[i] < cur_val /\ meta_fl[i] \in Nat
  BY MaxPktsAssumption DEF MetaInv, FillingIsQuiet, ListSound, Ptrs
<1>2. /\ meta_fl_rd_en => ~Filling /\ meta_fl # <<>>
      /\ Filling => ~meta_fl_wr_en
      /\ meta_fl_wr_en => HoldsMeta
  BY Arrivals, Removals DEF MetaInv, FillingIsQuiet, HoldsMeta
<1>3. /\ mid \in Seq(Ptrs) /\ Once(mid)
      /\ Len(mid) = Len(meta_fl) - (IF meta_fl_rd_en THEN 1 ELSE 0)
      /\ \A x : Lacks(meta_fl, x) => Lacks(mid, x)
      /\ meta_fl_rd_en => /\ Head(meta_fl) \in Ptrs /\ Head(meta_fl) < cur_val
                          /\ ~Lacks(meta_fl, Head(meta_fl))
                          /\ Lacks(mid, Head(meta_fl))
  <2>1. CASE meta_fl_rd_en
    <3>1. 1 \in 1 .. Len(meta_fl)
      BY <1>1, <1>2, <2>1
    <3> QED BY <1>1, <1>2, <2>1, <3>1, TailOnce DEF Lacks
  <2>2. CASE ~meta_fl_rd_en
    BY <1>1, <2>2
  <2> QED BY <2>1, <2>2
<1>4. \A x : x \notin Nat \/ x >= cur_val => Lacks(meta_fl, x)
  BY <1>1 DEF Lacks
<1>5. /\ meta_fl' = mid \o (IF Filling THEN <<cur_val>>
                             ELSE IF meta_fl_wr_en THEN <<rfsm_cur_meta_ptr>> ELSE <<>>)
      /\ cur_val' = IF Filling THEN cur_val + 1 ELSE cur_val
  BY DEF Next, FreeLists, Refilled
<1>6. /\ meta_fl_wr_en => /\ rfsm_cur_meta_ptr \in Ptrs /\ rfsm_cur_meta_ptr < cur_val
                          /\ Lacks(meta_fl, rfsm_cur_meta_ptr)
      /\ Filling => cur_val \in Ptrs /\ Lacks(meta_fl, cur_val)
  BY <1>1, <1>2, <1>4 DEF MetaInv, HeldApart, Filling, Ptrs
<1> HIDE DEF mid
<1>7. /\ meta_fl' \in Seq(Ptrs) /\ Once(meta_fl')
      /\ Len(meta_fl') = Len(mid) + (IF Filling \/ meta_fl_wr_en THEN 1 ELSE 0)
      /\ \A x : Lacks(mid, x) /\ (Filling => x # cur_val)
               /\ (meta_fl_wr_en => x # rfsm_cur_meta_ptr) => Lacks(meta_fl', x)
  <2>1. ASSUME NEW y \in Ptrs, Lacks(meta_fl, y), meta_fl' = mid \o <<y>>
        PROVE  /\ meta_fl' \in Seq(Ptrs) /\ Once(meta_fl')
               /\ Len(meta_fl') = Len(mid) + 1
               /\ \A x : Lacks(mid, x) /\ x # y => Lacks(meta_fl', x)
    <3>1. Lacks(mid, y)
      BY <1>3, <2>1
    <3> QED BY <1>3, <2>1, <3>1, AppendOnce
  <2>2. CASE Filling
    <3>1. meta_fl' = mid \o <<cur_val>> /\ ~meta_fl_wr_en
      BY <1>2, <1>5, <2>2
    <3> QED BY <1>6, <2>1, <2>2, <3>1
  <2>3. CASE ~Filling /\ meta_fl_wr_en
    <3>1. meta_fl' = mid \o <<rfsm_cur_meta_ptr>>
      BY <1>5, <2>3
    <3> QED BY <1>6, <2>1, <2>3, <3>1
  <2>4. CASE ~Filling /\ ~meta_fl_wr_en
    <3>1. mid \o <<>> = mid
      BY <1>3
    <3>2. meta_fl' = mid
      BY <1>5, <2>4, <3>1
    <3> QED BY <1>3, <2>4, <3>2
  <2> QED BY <2>2, <2>3, <2>4
<1>8. ASSUME NEW x \in Nat, x >= cur_val'
      PROVE  Lacks(meta_fl', x)
  <2>1. x >= cur_val /\ (Filling => x # cur_val)
    BY <1>1, <1>5, <1>8
  <2>2. meta_fl_wr_en => x # rfsm_cur_meta_ptr
    BY <1>1, <1>6, <2>1 DEF Ptrs
  <2>3. Lacks(mid, x)
    BY <1>3, <1>4, <2>1
  <2> QED BY <1>7, <2>1, <2>2, <2>3
<1>9. ListSound'
  <2>1. ASSUME NEW i \in 1 .. Len(meta_fl')
        PROVE  meta_fl'[i] < cur_val'
    <3>1. meta_fl'[i] \in Ptrs
      BY <1>7
    <3> QED BY <1>1, <1>5, <1>8, <3>1 DEF Lacks, Ptrs
  <2> QED BY <1>7, <2>1 DEF ListSound
<1>10. FillingIsQuiet'
  <2>1. cur_val' \in 0 .. MAX_PKTS - 1
    BY <1>1, <1>5 DEF Filling
  <2>2. Filling' => Filling
    BY <1>1, <1>5 DEF Filling
  <2>3. CASE Filling
    <3>1. ifsm = "START_WORD" /\ waiting = {} /\ rfsm = "WAIT_REQUEST"
      BY <2>3 DEF MetaInv, FillingIsQuiet
    <3>2. ifsm' = "START_WORD" /\ rfsm' = "WAIT_REQUEST" /\ ~meta_fl_rd_en
      BY <1>2, <2>3, <3>1, Arrivals, Removals
    <3>3. waiting' = {}
      BY <3>1, <3>2 DEF Next, Pointers
    <3> QED BY <2>1, <3>2, <3>3 DEF FillingIsQuiet
  <2> QED BY <2>1, <2>2, <2>3 DEF FillingIsQuiet
<1>11. ASSUME meta_fl_rd_en
       PROVE  Lacks(meta_fl', Head(meta_fl))
  <2>1. ~Filling /\ (meta_fl_wr_en => Head(meta_fl) # rfsm_cur_meta_ptr)
    BY <1>2, <1>3, <1>6, <1>11
  <2> QED BY <1>3, <1>7, <1>11, <2>1
<1>12. ASSUME NEW x, Lacks(meta_fl, x), x # cur_val,
              meta_fl_wr_en => x # rfsm_cur_meta_ptr
       PROVE  Lacks(meta_fl', x)
  BY <1>3, <1>7, <1>12
<1>13. Len(meta_fl') = Len(meta_fl) - (IF meta_fl_rd_en THEN 1 ELSE 0)
                        + (IF Filling \/ meta_fl_wr_en THEN 1 ELSE 0)
  BY <1>3, <1>7
<1> QED BY <1>2, <1>3, <1>5, <1>9, <1>10, <1>11, <1>12, <1>13

(* The packets that wait: the one requested goes, a new one comes. *)
LEMMA WaitingMoves ==
  ASSUME MetaInv, Next, ~EARLY_TRAFFIC
  PROVE  \E old : /\ old \subseteq waiting
                  /\ \/ old = waiting /\ Departs
                     \/ \E w \in waiting : old = waiting \ {w} /\ Taken(w)
                  /\ \A w \in old : w.pkt # leaving'.pkt
                  /\ ~meta_fl_rd_en => waiting' = old
                  /\ meta_fl_rd_en => \E new :
                        /\ waiting' = old \cup {new}
                        /\ new.meta = Head(meta_fl) /\ new.pkt \in Pkts
                        /\ new.pkt # leaving'.pkt
                        /\ \A w \in waiting : w.pkt # new.pkt
<1> DEFINE old == {w \in waiting : w.pkt # leaving'.pkt}
           new == [pkt |-> arriving'.pkt, seg |-> Head(seg_fl), meta |-> Head(meta_fl)]
<1>1. /\ ~meta_fl_rd_en => waiting' = old
      /\ meta_fl_rd_en => waiting' = old \cup {new}
  BY DEF Next, Pointers
<1>2. /\ \A w \in waiting : w.pkt \in Pkts /\ w.pkt # leaving.pkt
      /\ \A v, w \in waiting : v # w => v.pkt # w.pkt
  BY DEF MetaInv, WaitingApart
<1>3. \/ old = waiting /\ Departs
      \/ \E w \in waiting : old = waiting \ {w} /\ Taken(w)
  <2>1. CASE Departs
    BY <1>2, <2>1, NoPktAssumption DEF Departs
  <2>2. ASSUME NEW w \in waiting, Taken(w)
        PROVE  old = waiting \ {w}
    BY <1>2, <2>2 DEF Taken
  <2> QED BY <2>1, <2>2, Removals
<1>4. meta_fl_rd_en => /\ new.pkt \in Pkts /\ new.pkt # leaving'.pkt
                       /\ \A w \in waiting : w.pkt # new.pkt
  <2> SUFFICES ASSUME meta_fl_rd_en
               PROVE  /\ new.pkt \in Pkts /\ new.pkt # leaving'.pkt
                      /\ \A w \in waiting : w.pkt # new.pkt
    OBVIOUS
  <2>1. new.pkt \in Pkts \ Inside
    BY Arrivals
  <2>2. \A w \in waiting : w.pkt \in Inside
    BY <1>2, NoPktAssumption DEF Inside
  <2>3. leaving'.pkt \in {leaving.pkt, NoPkt} \/ \E w \in waiting : leaving'.pkt = w.pkt
    BY Removals DEF Departs, Taken
  <2>4. leaving'.pkt \in Inside \cup {NoPkt}
    BY <2>2, <2>3 DEF Inside
  <2> QED BY <2>1, <2>2, <2>4, NoPktAssumption
<1>5. new.meta = Head(meta_fl)
  OBVIOUS
<1> HIDE DEF new
<1> QED BY <1>1, <1>3, <1>4, <1>5

(* One cycle keeps the invariant: what the list gives and takes is what the *)
(* packets inside take and give.                                           *)
LEMMA MetaStep ==
  ASSUME MetaInv, Next, ~EARLY_TRAFFIC
  PROVE  MetaInv'
<1>1. PICK old : /\ old \subseteq waiting
                 /\ \/ old = waiting /\ Departs
                    \/ \E w \in waiting : old = waiting \ {w} /\ Taken(w)
                 /\ \A w \in old : w.pkt # leaving'.pkt
                 /\ ~meta_fl_rd_en => waiting' = old
                 /\ meta_fl_rd_en => \E new :
                       /\ waiting' = old \cup {new}
                       /\ new.meta = Head(meta_fl) /\ new.pkt \in Pkts
                       /\ new.pkt # leaving'.pkt
                       /\ \A w \in waiting : w.pkt # new.pkt
  BY WaitingMoves
<1>2. /\ cur_val \in Nat /\ cur_val' \in Nat /\ cur_val' >= cur_val
      /\ Len(meta_fl) \in Nat
      /\ IsFiniteSet(waiting) /\ Cardinality(waiting) \in Nat
  BY ListMoves, FS_CardinalityType DEF MetaInv, FillingIsQuiet, ListSound, WaitingApart
<1>3. meta_fl_wr_en => HoldsMeta
  BY Removals
(* A slot that is out stays out of the list unless it is given back. *)
<1>4. ASSUME NEW x \in Ptrs, x < cur_val, Lacks(meta_fl, x),
             meta_fl_wr_en => x # rfsm_cur_meta_ptr
      PROVE  x < cur_val' /\ Lacks(meta_fl', x) /\ (meta_fl_rd_en => x # Head(meta_fl))
  <2>1. x \in Nat /\ x # cur_val
    BY <1>2, <1>4 DEF Ptrs
  <2> QED BY <1>2, <1>4, <2>1, ListMoves
<1>5. ASSUME NEW w \in waiting
      PROVE  /\ w.meta \in Ptrs /\ w.meta < cur_val' /\ Lacks(meta_fl', w.meta)
             /\ meta_fl_rd_en => w.meta # Head(meta_fl)
             /\ w.pkt \in Pkts
  BY <1>3, <1>4 DEF MetaInv, WaitingApart, HeldApart
<1>6. meta_fl_rd_en => /\ Head(meta_fl) \in Ptrs /\ Head(meta_fl) < cur_val'
                       /\ Lacks(meta_fl', Head(meta_fl))
  <2> SUFFICES ASSUME meta_fl_rd_en
               PROVE  /\ Head(meta_fl) \in Ptrs /\ Head(meta_fl) < cur_val'
                      /\ Lacks(meta_fl', Head(meta_fl))
    OBVIOUS
  <2>1. Head(meta_fl) \in Nat /\ Head(meta_fl) < cur_val
    BY ListMoves DEF Ptrs
  <2> QED BY <1>2, <2>1, ListMoves
<1>7. \A v, w \in waiting : v # w => v.meta # w.meta /\ v.pkt # w.pkt
  BY DEF MetaInv, WaitingApart
<1>8. /\ WaitingApart'
      /\ Cardinality(waiting') = Cardinality(old) + (IF meta_fl_rd_en THEN 1 ELSE 0)
      /\ \A w \in waiting' : w \in old \/ (meta_fl_rd_en /\ w.meta = Head(meta_fl))
  <2>1. IsFiniteSet(old) /\ Cardinality(old) \in Nat
    BY <1>1, <1>2, FS_Subset, FS_CardinalityType
  <2>2. CASE ~meta_fl_rd_en
    BY <1>1, <1>5, <1>7, <2>1, <2>2 DEF WaitingApart
  <2>3. CASE meta_fl_rd_en
    <3>1. PICK new : /\ waiting' = old \cup {new}
                     /\ new.meta = Head(meta_fl) /\ new.pkt \in Pkts
                     /\ new.pkt # leaving'.pkt
                     /\ \A w \in waiting : w.pkt # new.pkt
      BY <1>1, <2>3
    <3>2. new \notin old
      BY <1>1, <3>1
    <3>3. IsFiniteSet(waiting') /\ Cardinality(waiting') = Cardinality(old) + 1
      BY <2>1, <3>1, <3>2, FS_AddElement
    <3>4. \A w \in waiting' : /\ w.pkt \in Pkts /\ w.pkt # leaving'.pkt
                              /\ w.meta \in Ptrs /\ w.meta < cur_val'
                              /\ Lacks(meta_fl', w.meta)
      BY <1>1, <1>5, <1>6, <2>3, <3>1
    <3>5. \A v, w \in waiting' : v # w => v.meta # w.meta /\ v.pkt # w.pkt
      BY <1>1, <1>5, <1>7, <2>3, <3>1
    <3> QED BY <2>3, <3>1, <3>3, <3>4, <3>5 DEF WaitingApart
  <2> QED BY <2>2, <2>3
<1>9. HeldApart'
  <2> SUFFICES ASSUME HoldsMeta'
               PROVE  /\ rfsm_cur_meta_ptr' \in Ptrs /\ rfsm_cur_meta_ptr' < cur_val'
                      /\ Lacks(meta_fl', rfsm_cur_meta_ptr')
                      /\ \A w \in waiting' : w.meta # rfsm_cur_meta_ptr'
    BY DEF HeldApart
  <2>1. ASSUME NEW w \in waiting, old = waiting \ {w}, Taken(w)
        PROVE  /\ rfsm_cur_meta_ptr' \in Ptrs /\ rfsm_cur_meta_ptr' < cur_val'
               /\ Lacks(meta_fl', rfsm_cur_meta_ptr')
               /\ \A v \in waiting' : v.meta # rfsm_cur_meta_ptr'
    <3>1. rfsm_cur_meta_ptr' = w.meta
      BY <2>1 DEF Taken
    <3> QED BY <1>5, <1>7, <1>8, <2>1, <3>1
  <2>2. CASE old = waiting /\ Departs
    <3>1. /\ HoldsMeta /\ ~meta_fl_wr_en /\ rfsm_cur_meta_ptr' = rfsm_cur_meta_ptr
      BY <2>2 DEF Departs
    <3>2. /\ rfsm_cur_meta_ptr \in Ptrs /\ rfsm_cur_meta_ptr < cur_val
          /\ Lacks(meta_fl, rfsm_cur_meta_ptr)
          /\ \A w \in waiting : w.meta # rfsm_cur_meta_ptr
      BY <3>1 DEF MetaInv, HeldApart
    <3> QED BY <1>4, <1>8, <2>2, <3>1, <3>2
  <2> QED BY <1>1, <2>1, <2>2
<1>10. (Len(meta_fl) + MetaOut = cur_val)'
  <2> DEFINE out == IF HoldsMeta THEN 1 ELSE 0
             outN == IF HoldsMeta' THEN 1 ELSE 0
             rd == IF meta_fl_rd_en THEN 1 ELSE 0
             back == IF meta_fl_wr_en THEN 1 ELSE 0
             fill == IF Filling THEN 1 ELSE 0
  <2>1. /\ MetaOut = Cardinality(waiting) + out
        /\ MetaOut' = Cardinality(waiting') + outN
    BY DEF MetaOut, HoldsMeta
  <2>2. Len(meta_fl) + MetaOut = cur_val
    BY DEF MetaInv
  <2>3. /\ Len(meta_fl') = Len(meta_fl) - rd + (fill + back)
        /\ cur_val' = cur_val + fill
    BY <1>2, ListMoves
  <2>4. Cardinality(old) + outN = Cardinality(waiting) + out - back
    <3>1. ASSUME NEW w \in waiting, old = waiting \ {w}, Taken(w)
          PROVE  Cardinality(old) + outN = Cardinality(waiting) + out - back
      <4>1. Cardinality(old) = Cardinality(waiting) - 1
        BY <1>2, <3>1, FS_RemoveElement
      <4>2. HoldsMeta' /\ ~HoldsMeta /\ ~meta_fl_wr_en
        BY <1>3, <3>1 DEF Taken, HoldsMeta
      <4> QED BY <1>2, <4>1, <4>2
    <3>2. CASE old = waiting /\ Departs
      BY <1>2, <1>3, <3>2 DEF Departs
    <3> QED BY <1>1, <3>1, <3>2
  <2>5. Cardinality(waiting') = Cardinality(old) + rd /\ Cardinality(old) \in Nat
    BY <1>1, <1>2, <1>8, FS_Subset, FS_CardinalityType
  <2>6. /\ out \in Nat /\ outN \in Nat /\ rd \in Nat /\ back \in Nat /\ fill \in Nat
    OBVIOUS
  <2> HIDE DEF out, outN, rd, back, fill
  <2>7. /\ Len(meta_fl') \in Nat /\ Cardinality(waiting') \in Nat
        /\ Len(meta_fl) \in Nat /\ Cardinality(waiting) \in Nat
        /\ cur_val \in Nat
    BY <1>2, <2>3, <2>5, <2>6, ListMoves DEF ListSound
  <2>8. PICK L \in Nat, M \in Nat, W \in Nat, V \in Nat, K \in Nat, C \in Nat :
          /\ L = Len(meta_fl) /\ M = Len(meta_fl') /\ W = Cardinality(waiting)
          /\ V = Cardinality(waiting') /\ K = Cardinality(old) /\ C = cur_val
    BY ONLY <2>5, <2>7
  <2>9. PICK o \in Nat, p \in Nat, r \in Nat, b \in Nat, f \in Nat :
          o = out /\ p = outN /\ r = rd /\ b = back /\ f = fill
    BY ONLY <2>6
  <2>10. /\ L + (W + o) = C /\ M = L - r + (f + b)
         /\ V = K + r /\ K + p = W + o - b
    <3>1. L + (W + o) = C
      BY <2>1, <2>2, <2>8, <2>9
    <3>2. M = L - r + (f + b)
      BY <2>3, <2>8, <2>9
    <3>3. V = K + r
      BY <2>5, <2>8, <2>9
    <3>4. K + p = W + o - b
      BY <2>4, <2>8, <2>9
    <3> QED BY <3>1, <3>2, <3>3, <3>4
  <2>11. M + (V + p) = C + f
    BY <2>10
  <2>12. Len(meta_fl') + (Cardinality(waiting') + outN) = cur_val + fill
    BY ONLY <2>8, <2>9, <2>11
  <2> QED BY <2>1, <2>3, <2>12
<1>11. /\ leaving' \in [pkt : Pkts \cup {NoPkt}, words : Nat]
       /\ FillingIsQuiet' /\ ListSound'
  BY ListMoves, Removals
<1> QED BY <1>8, <1>9, <1>10, <1>11 DEF MetaInv

(* After reset the lists are empty and nobody is inside. *)
LEMMA MetaInit == Init => MetaInv
<1> SUFFICES ASSUME Init PROVE MetaInv
  OBVIOUS
<1>1. /\ FillingIsQuiet /\ ListSound /\ HeldApart
      /\ leaving \in [pkt : Pkts \cup {NoPkt}, words : Nat]
  BY MaxPktsAssumption
     DEF Init, FillingIsQuiet, ListSound, HeldApart, HoldsMeta, Once, Nobody
<1>2. waiting = {} /\ IsFiniteSet({}) /\ Cardinality({}) = 0
  BY FS_EmptySet DEF Init
<1>3. WaitingApart
  BY <1>2 DEF WaitingApart
<1>4. Len(meta_fl) + MetaOut = cur_val
  BY <1>2 DEF Init, MetaOut
<1> QED BY <1>1, <1>3, <1>4 DEF MetaInv

(* No meta data slot is lost, handed out twice or given back twice: the    *)
(* slots in the list are different, and with those of the packets inside   *)
(* they are all that were ever filled in.                                  *)
THEOREM StorageMetaSlotsExact == ~EARLY_TRAFFIC => (Spec => []MetaSlotsExact)
<1> SUFFICES ASSUME ~EARLY_TRAFFIC PROVE Spec => []MetaSlotsExact
  OBVIOUS
<1>1. MetaInv /\ [Next]_vars => MetaInv'
  <2> SUFFICES ASSUME MetaInv, [Next]_vars PROVE MetaInv'
    OBVIOUS
  <2>1. CASE Next
    BY <2>1, MetaStep
  <2>2. CASE UNCHANGED vars
    BY <2>2 DEF vars, remVars, MetaInv, FillingIsQuiet, Filling, ListSound,
                WaitingApart, HeldApart, HoldsMeta, MetaOut, insVars
  <2> QED BY <2>1, <2>2
<1>2. MetaInv => MetaSlotsExact
  BY DEF MetaInv, ListSound, Once, MetaSlotsExact
<1> QED BY <1>1, <1>2, MetaInit, PTL DEF Spec

-----------------------------------------------------------------------------
(* Segments.  Each taken segment holds, or will hold, two words of its     *)
(* packet.  Num is the number of the first one: the segment being filled   *)
(* is not in the RAM yet.                                                  *)
Odd(n) == n % 2 = 1
Open == IF ifsm = "START_WORD" THEN {} ELSE {cur_seg_ptr}
OpenNum == IF ifsm = "WORD_TWO" THEN arriving.words ELSE arriving.words + 1
Num == [s \in Ptrs |-> IF s \in Open THEN OpenNum ELSE seg_ram[s].one[2]]
Holds(s, p, n) == s \in Ptrs /\ owner[s] = p /\ Num[s] = n

(* A segment that begins with word n of packet p, which has L words.       *)
Cut(g, p, n, L) ==
  /\ g.one = <<p, n>>
  /\ g.two = IF n < L THEN <<p, n + 1>> ELSE NoWord
  /\ g.next = null_seg_ptr <=> n + 1 >= L

(* A written segment leads to the one with the next two words; a packet    *)
(* still arriving has at least two more words.                             *)
Size(p, n) == IF p = arriving.pkt THEN n + 2 ELSE length[p]
Written(g, p, n) ==
  /\ Cut(g, p, n, Size(p, n))
  /\ g.next # null_seg_ptr => Holds(g.next, p, n + 2)

(* The last segment of a packet so far, and the first one not given back.  *)
High == [p \in Pkts |-> IF p = arriving.pkt THEN OpenNum ELSE length[p]]
Low == [p \in Pkts |->
          IF p # leaving.pkt THEN 1
          ELSE IF rfsm = "WRITE_OUT_WORD_TWO" THEN leaving.words + 2
          ELSE IF stalled = 0 THEN leaving.words + 1 ELSE leaving.words + 3]

Tag == (Pkts \cup {NoPkt}) \X Nat
Record == [one : Tag, two : Tag, next : SegPtrs]
SegTypes ==
  /\ seg_fl \in Seq(Ptrs) /\ Once(seg_fl)
  /\ owner \in [Ptrs -> Pkts \cup {NoPkt}]
  /\ seg_ram \in [SegPtrs -> Record]
  /\ meta_ram \in [SegPtrs -> Pkts \cup {NoPkt}]
  /\ arriving \in [pkt : Pkts \cup {NoPkt}, words : Nat]
  /\ length \in [Pkts -> Nat]
  /\ stalled \in Nat /\ stalled <= MAX_STALL
  /\ pauses \in Nat /\ pauses <= MAX_PAUSE
  /\ cut_through \in CUT_THROUGH

InputShape ==
  /\ ifsm \in {"START_WORD", "WORD_ONE", "WORD_TWO"}
  /\ arriving.pkt = NoPkt <=> ifsm = "START_WORD"
  /\ ifsm = "WORD_TWO" => Odd(arriving.words) /\ word_one = <<arriving.pkt, arriving.words>>
  /\ ifsm = "WORD_ONE" => ~Odd(arriving.words) /\ arriving.words # 0
  /\ ~Filling /\ ifsm # "WORD_TWO" => meta_fl # <<>>

InputSound ==
  /\ ifsm # "START_WORD" => /\ cur_seg_ptr \in Ptrs /\ owner[cur_seg_ptr] = arriving.pkt
                            /\ length[arriving.pkt] = 0
                            /\ \/ leaving.pkt = arriving.pkt
                               \/ \E w \in waiting : w.pkt = arriving.pkt
  /\ leaving.pkt # NoPkt => arriving.pkt = leaving.pkt \/ length[leaving.pkt] >= 2
  /\ \A w \in waiting : w.pkt # arriving.pkt => length[w.pkt] >= 2

(* A packet that leaves while it arrives: its source is ahead of the output *)
(* by the cycles its request came late.  They go by together, whether a    *)
(* word comes or not, and the output passes at most one word in each.      *)
PausesFit == TRUE \in CUT_THROUGH => MAX_PAUSE + 2 <= LEAD
Addressing == rfsm = "WAIT_BOTH_BRAM" /\ bram_rd_cycle_cnt = 0
LeadSound ==
  leaving.pkt # NoPkt /\ leaving.pkt = arriving.pkt =>
    /\ cut_through
    /\ arriving.words + pauses >= LEAD + leaving.words + (IF Addressing THEN 1 ELSE 2)

FreeSound ==
  \A s \in Ptrs : Lacks(seg_fl, s) <=> s >= cur_val \/ owner[s] # NoPkt

SegmentsSound ==
  \A s \in Ptrs : owner[s] # NoPkt =>
    /\ owner[s] \in Inside
    /\ Num[s] \in Nat /\ Odd(Num[s])
    /\ Low[owner[s]] <= Num[s] /\ Num[s] <= High[owner[s]]
    /\ s \notin Open => Written(seg_ram[s], owner[s], Num[s])

NumbersApart ==
  \A s, t \in Ptrs : owner[s] # NoPkt /\ owner[s] = owner[t] /\ Num[s] = Num[t] => s = t

WaitingSound ==
  \A w \in waiting : Holds(w.seg, w.pkt, 1) /\ meta_ram[w.meta] = w.pkt

(* The output.  A segment is given back in the first cycle of its first    *)
(* word; while that word waits the segment may be taken again, after one   *)
(* cycle, and written, after two, and each stage of the RAM follows a      *)
(* cycle later.  After four cycles its word may be gone.                   *)
OutputShape ==
  /\ rfsm \in {"WAIT_REQUEST", "WAIT_BOTH_BRAM", "WAIT_SEG_BRAM", "WRITE_OUT_WORD_TWO"}
  /\ leaving.pkt = NoPkt <=> rfsm = "WAIT_REQUEST"
  /\ bram_rd_cycle_cnt \in {0, 1}
  /\ rfsm \in {"WAIT_REQUEST", "WAIT_SEG_BRAM"} => bram_rd_cycle_cnt = 0
  /\ rfsm = "WAIT_BOTH_BRAM" => leaving.words = 0 /\ meta_rd_addr = rfsm_cur_meta_ptr
  /\ rfsm = "WAIT_SEG_BRAM" => leaving.words # 0

ReadingSound ==
  rfsm = "WAIT_BOTH_BRAM" /\ bram_rd_cycle_cnt = 0 =>
    /\ Holds(seg_rd_addr, leaving.pkt, 1) /\ rfsm_cur_seg_ptr = seg_rd_addr
    /\ seg_data = seg_ram[seg_rd_addr]
    /\ meta_data = leaving.pkt /\ meta_ram[meta_rd_addr] = leaving.pkt
    /\ stalled = 0 /\ ~free_list_written_r /\ ~tlast_r

FirstSound ==
  FirstOfSegment =>
    /\ Odd(leaving.words + 1)
    /\ leaving.pkt # arriving.pkt => leaving.words + 1 <= length[leaving.pkt]
    /\ free_list_written_r <=> stalled # 0
    /\ seg_dout \in Record /\ Written(seg_dout, leaving.pkt, leaving.words + 1)
    /\ seg_rd_addr \in Ptrs
    /\ stalled = 0 => /\ Holds(seg_rd_addr, leaving.pkt, leaving.words + 1)
                      /\ rfsm_cur_seg_ptr = seg_rd_addr
    /\ stalled <= 1 => seg_rd_addr \notin Open
    /\ stalled <= 2 => seg_ram[seg_rd_addr] = seg_dout
    /\ stalled <= 3 => seg_data = seg_dout
    /\ tlast_r => AtEnd

FirstMetaSound ==
  FirstOfSegment /\ rfsm = "WAIT_BOTH_BRAM" =>
    /\ stalled = 0 => HoldsMeta
    /\ stalled = 1 /\ ifsm = "START_WORD" => Head(meta_fl) # meta_rd_addr
    /\ stalled <= 2 => meta_ram[meta_rd_addr] = leaving.pkt
    /\ stalled <= 3 => meta_data = leaving.pkt
    /\ meta_rd_addr \in Ptrs
    /\ meta_dout = leaving.pkt

SecondSound ==
  rfsm = "WRITE_OUT_WORD_TWO" =>
    /\ Odd(leaving.words)
    /\ leaving.pkt # arriving.pkt => leaving.words + 1 <= length[leaving.pkt]
    /\ word_two = <<leaving.pkt, leaving.words + 1>>
    /\ rfsm_cur_seg_ptr = null_seg_ptr <=> leaving.words + 1 = length[leaving.pkt]
    /\ rfsm_cur_seg_ptr # null_seg_ptr =>
         /\ Holds(rfsm_cur_seg_ptr, leaving.pkt, leaving.words + 2)
         /\ seg_rd_addr = rfsm_cur_seg_ptr
         /\ seg_data = seg_ram[seg_rd_addr]
    /\ tlast_r => AtEnd

OutputSound == OutputShape /\ ReadingSound /\ FirstSound /\ FirstMetaSound /\ SecondSound

StorageInv ==
  /\ MetaInv
  /\ SegTypes
  /\ InputShape /\ InputSound
  /\ LeadSound
  /\ FreeSound
  /\ SegmentsSound /\ NumbersApart
  /\ WaitingSound
  /\ OutputSound

-----------------------------------------------------------------------------
LEMMA OddFacts ==
  /\ \A n \in Nat : Odd(n) => ~Odd(n + 1) /\ Odd(n + 2) /\ n >= 1
  /\ \A n \in Nat : ~Odd(n) => Odd(n + 1) /\ ~Odd(n + 2)
  /\ \A m, n \in Nat : Odd(m) /\ Odd(n) /\ m < n => m + 2 <= n
  /\ Odd(1)
BY SMT DEF Odd

LEMMA PtrFacts ==
  /\ MAX_PKTS \in Nat /\ null_seg_ptr \in Nat /\ null_seg_ptr = MAX_PKTS - 1
  /\ null_seg_ptr \notin Ptrs /\ Ptrs \subseteq SegPtrs /\ null_seg_ptr \in SegPtrs
  /\ \A s \in Ptrs : s \in Nat /\ s < null_seg_ptr
  /\ Filling <=> cur_val <= MAX_PKTS - 2
BY MaxPktsAssumption DEF null_seg_ptr, Ptrs, SegPtrs, Filling

(* A packet that was complete is not cut differently by words that arrive. *)
LEMMA CutLonger ==
  ASSUME NEW g, NEW p, NEW n \in Nat, NEW k \in Nat, NEW m \in Nat,
         k >= n + 2, m >= n + 2, Cut(g, p, n, k)
  PROVE  Cut(g, p, n, m)
BY DEF Cut

-----------------------------------------------------------------------------
(* What the insertion machine does to the segments. *)
Taking == seg_fl_rd_en
InsertionMoves ==
  /\ arriving' \in [pkt : Pkts \cup {NoPkt}, words : Nat]
  /\ length' \in [Pkts -> Nat]
  /\ seg_ram' \in [SegPtrs -> Record]
  /\ meta_ram' \in [SegPtrs -> Pkts \cup {NoPkt}]
  /\ ifsm' \in {"START_WORD", "WORD_ONE", "WORD_TWO"}
  /\ arriving'.pkt = NoPkt <=> ifsm' = "START_WORD"
  /\ ifsm' = "WORD_TWO" => Odd(arriving'.words) /\ word_one' = <<arriving'.pkt, arriving'.words>>
  /\ ifsm' = "WORD_ONE" => ~Odd(arriving'.words) /\ arriving'.words # 0

(* A segment is taken for a new packet or for the next words of this one.  *)
TakingMoves ==
  /\ seg_fl_rd_en => /\ seg_fl # <<>> /\ ~Filling
                     /\ cur_seg_ptr' = Head(seg_fl) /\ ifsm' # "START_WORD"
  /\ meta_fl_rd_en => /\ arriving'.pkt \in Pkts \ Inside /\ OpenNum' = 1
                      /\ meta_ram' = [meta_ram EXCEPT ![Head(meta_fl)] = arriving'.pkt]
  /\ ~meta_fl_rd_en => meta_ram' = meta_ram
  /\ seg_fl_rd_en /\ ~meta_fl_rd_en =>
        /\ ifsm # "START_WORD"
        /\ arriving'.pkt = arriving.pkt /\ OpenNum' = OpenNum + 2
  /\ ~seg_fl_rd_en /\ ifsm' # "START_WORD" =>
        /\ ifsm # "START_WORD" /\ cur_seg_ptr' = cur_seg_ptr
        /\ arriving'.pkt = arriving.pkt /\ OpenNum' = OpenNum

(* The open segment is written when it is full or the packet ends.         *)
WritingMoves ==
  /\ \A s \in SegPtrs : s \notin Open => seg_ram'[s] = seg_ram[s]
  /\ ifsm # "START_WORD" /\ (seg_fl_rd_en \/ ifsm' = "START_WORD") =>
        LET L == IF seg_fl_rd_en THEN OpenNum + 2 ELSE length'[arriving.pkt]
        IN  /\ Cut(seg_ram'[cur_seg_ptr], arriving.pkt, OpenNum, L)
            /\ seg_fl_rd_en => seg_ram'[cur_seg_ptr].next = Head(seg_fl)
  /\ ifsm # "START_WORD" /\ ifsm' = "START_WORD" =>
        /\ OpenNum <= length'[arriving.pkt] /\ length'[arriving.pkt] <= OpenNum + 1
        /\ length'[arriving.pkt] >= 2
  /\ \A q \in Pkts : q # arriving.pkt /\ q # arriving'.pkt => length'[q] = length[q]
  /\ arriving'.pkt # NoPkt => length'[arriving'.pkt] = 0

LEMMA InsertionEffect ==
  ASSUME StorageInv, Next, ~EARLY_TRAFFIC
  PROVE  InsertionMoves /\ TakingMoves /\ WritingMoves
<1>0. /\ SegTypes /\ InputShape /\ OpenNum \in Nat
      /\ MAX_PKTS \in Nat
      /\ ifsm # "START_WORD" => /\ cur_seg_ptr \in Ptrs /\ arriving.pkt \in Pkts /\ Odd(OpenNum)
                                /\ Open = {cur_seg_ptr}
                                /\ length[arriving.pkt] = 0
      /\ ifsm = "START_WORD" => Open = {}
  <2>1. /\ SegTypes /\ InputShape /\ InputSound /\ MAX_PKTS \in Nat
        /\ arriving.words \in Nat /\ OpenNum \in Nat
        /\ arriving.pkt \in Pkts \cup {NoPkt}
    BY PtrFacts DEF StorageInv, SegTypes, OpenNum
  <2>2. ifsm # "START_WORD" => Odd(OpenNum)
    BY <2>1, OddFacts DEF InputShape, OpenNum
  <2> QED BY <2>1, <2>2 DEF InputShape, InputSound, Open
<1>1. CASE NoArrival
  BY <1>0, <1>1 DEF NoArrival, insVars, SegTypes, InputShape, meta_fl_rd_en, seg_fl_rd_en,
       InsertionMoves, TakingMoves, WritingMoves, OpenNum, Open
<1>2. CASE StartWord
  <2>1. PICK p \in Pkts \ Inside :
          /\ arriving' = [pkt |-> p, words |-> 1]
          /\ length' = [length EXCEPT ![p] = 0]
          /\ meta_ram' = [meta_ram EXCEPT ![Head(meta_fl)] = p]
          /\ word_one' = <<p, 1>>
    BY <1>2 DEF StartWord
  <2>2. /\ ifsm = "START_WORD" /\ ifsm' = "WORD_TWO" /\ cur_seg_ptr' = Head(seg_fl)
        /\ seg_ram' = seg_ram /\ seg_fl # <<>> /\ ~Filling /\ p # NoPkt
        /\ meta_fl_rd_en /\ seg_fl_rd_en
    BY <1>2, PtrFacts, NoPktAssumption DEF StartWord, s_axis_pkt_tready, meta_fl_rd_en, seg_fl_rd_en
  <2>3. InsertionMoves
    BY <1>0, <2>1, <2>2, OddFacts DEF SegTypes, InsertionMoves
  <2>4. OpenNum' = 1
    BY <2>1, <2>2 DEF OpenNum
  <2>5. TakingMoves
    BY <2>1, <2>2, <2>4 DEF TakingMoves
  <2>6. WritingMoves
    BY <1>0, <2>1, <2>2 DEF WritingMoves, SegTypes
  <2> QED BY <2>3, <2>5, <2>6
<1>3. ASSUME NEW last \in BOOLEAN, Arrive(last), ifsm # "START_WORD"
      PROVE  /\ arriving' \in [pkt : Pkts \cup {NoPkt}, words : Nat]
             /\ length' \in [Pkts -> Nat]
             /\ last => /\ arriving'.pkt = NoPkt
                        /\ length'[arriving.pkt] = arriving.words + 1
             /\ ~last => /\ arriving'.pkt = arriving.pkt
                         /\ arriving'.words = arriving.words + 1
                         /\ length'[arriving.pkt] = 0
             /\ arriving.pkt # NoPkt /\ arriving.words \in Nat
             /\ \A q \in Pkts : q # arriving.pkt => length'[q] = length[q]
  <2>1. /\ arriving \in [pkt : Pkts \cup {NoPkt}, words : Nat] /\ length \in [Pkts -> Nat]
        /\ arriving.pkt \in Pkts /\ arriving.pkt # NoPkt
        /\ arriving.words \in Nat /\ arriving.words + 1 \in Nat
        /\ length[arriving.pkt] = 0
    BY <1>0, <1>3, NoPktAssumption DEF SegTypes
  <2>2. CASE last
    <3>1. /\ arriving' = Nobody
          /\ length' = [length EXCEPT ![arriving.pkt] = arriving.words + 1]
      BY <1>3, <2>2 DEF Arrive
    <3> QED BY <2>1, <2>2, <3>1 DEF Nobody
  <2>3. CASE ~last
    <3>1. /\ arriving' = [arriving EXCEPT !.words = arriving.words + 1]
          /\ length' = length
      BY <1>3, <2>3 DEF Arrive
    <3> QED BY <2>1, <2>3, <3>1
  <2> QED BY <2>2, <2>3
<1>4. CASE WordOne
  <2>1. PICK last \in BOOLEAN :
        /\ Arrive(last)
        /\ seg_ram' = IF last
             THEN [seg_ram EXCEPT ![cur_seg_ptr] =
                     [one |-> NextWord, two |-> NoWord, next |-> null_seg_ptr]]
             ELSE seg_ram
        /\ ifsm' = IF last THEN "START_WORD" ELSE "WORD_TWO"
    BY <1>4 DEF WordOne
  <2>2. /\ ifsm = "WORD_ONE" /\ word_one' = NextWord /\ cur_seg_ptr' = cur_seg_ptr
        /\ meta_ram' = meta_ram
        /\ ~meta_fl_rd_en /\ ~seg_fl_rd_en
    BY <1>4 DEF WordOne, meta_fl_rd_en, seg_fl_rd_en
  <2>0. /\ arriving' \in [pkt : Pkts \cup {NoPkt}, words : Nat]
        /\ length' \in [Pkts -> Nat]
        /\ last => /\ arriving'.pkt = NoPkt
                   /\ length'[arriving.pkt] = arriving.words + 1
        /\ ~last => /\ arriving'.pkt = arriving.pkt
                    /\ arriving'.words = arriving.words + 1
                    /\ length'[arriving.pkt] = 0
        /\ arriving.pkt # NoPkt /\ arriving.words \in Nat
        /\ \A q \in Pkts : q # arriving.pkt => length'[q] = length[q]
    BY <1>3, <2>1, <2>2
  <2>3. OpenNum = arriving.words + 1 /\ (~last => OpenNum' = OpenNum)
    BY <2>0, <2>1, <2>2 DEF OpenNum
  <2>4. /\ NextWord \in Tag /\ NoWord \in Tag /\ NextWord = <<arriving.pkt, OpenNum>>
        /\ cur_seg_ptr \in SegPtrs /\ null_seg_ptr \in SegPtrs
    BY <1>0, <2>0, <2>1, <2>2, <2>3, PtrFacts DEF NextWord, Tag, NoWord
  <2>5. InsertionMoves
    <3>1. seg_ram' \in [SegPtrs -> Record]
      BY <1>0, <2>1, <2>4 DEF SegTypes, Record
    <3> QED BY <1>0, <2>0, <2>1, <2>2, <2>4, <3>1, OddFacts
            DEF SegTypes, InputShape, InsertionMoves, NextWord
  <2>6. TakingMoves
    BY <2>0, <2>1, <2>2, <2>3 DEF TakingMoves
  <2>7. WritingMoves
    <3>1. last => Cut(seg_ram'[cur_seg_ptr], arriving.pkt, OpenNum, length'[arriving.pkt])
      BY <1>0, <2>0, <2>1, <2>2, <2>3, <2>4 DEF Cut, SegTypes
    <3>2. last => length'[arriving.pkt] >= 2 /\ length'[arriving.pkt] = OpenNum
      BY <1>0, <2>0, <2>1, <2>2, <2>3 DEF InputShape
    <3> QED BY <1>0, <2>0, <2>1, <2>2, <3>1, <3>2 DEF WritingMoves, SegTypes
  <2> QED BY <2>5, <2>6, <2>7
<1>5. CASE WordTwo
  <2>1. PICK last \in BOOLEAN :
        /\ Arrive(last)
        /\ cur_seg_ptr' = IF last THEN null_seg_ptr ELSE Head(seg_fl)
        /\ ifsm' = IF last THEN "START_WORD" ELSE "WORD_ONE"
    BY <1>5 DEF WordTwo
  <2>2. /\ ifsm = "WORD_TWO" /\ seg_fl # <<>>
        /\ seg_ram' = [seg_ram EXCEPT ![cur_seg_ptr] =
                   [one |-> word_one, two |-> NextWord, next |-> cur_seg_ptr']]
        /\ word_one' = word_one /\ meta_ram' = meta_ram
        /\ ~meta_fl_rd_en /\ (seg_fl_rd_en <=> ~last)
    BY <1>5, <2>1 DEF WordTwo, meta_fl_rd_en, seg_fl_rd_en, s_axis_pkt_tready
  <2>0. /\ arriving' \in [pkt : Pkts \cup {NoPkt}, words : Nat]
        /\ length' \in [Pkts -> Nat]
        /\ last => /\ arriving'.pkt = NoPkt
                   /\ length'[arriving.pkt] = arriving.words + 1
        /\ ~last => /\ arriving'.pkt = arriving.pkt
                    /\ arriving'.words = arriving.words + 1
                    /\ length'[arriving.pkt] = 0
        /\ arriving.pkt # NoPkt /\ arriving.words \in Nat
        /\ \A q \in Pkts : q # arriving.pkt => length'[q] = length[q]
    BY <1>3, <2>1, <2>2
  <2>3. OpenNum = arriving.words /\ (~last => OpenNum' = OpenNum + 2)
    BY <2>0, <2>1, <2>2 DEF OpenNum
  <2>4. /\ NextWord \in Tag /\ word_one \in Tag /\ word_one = <<arriving.pkt, OpenNum>>
        /\ NextWord = <<arriving.pkt, OpenNum + 1>>
        /\ cur_seg_ptr \in SegPtrs
        /\ cur_seg_ptr' \in SegPtrs /\ (~last => cur_seg_ptr' # null_seg_ptr)
    <3>1. Head(seg_fl) \in Ptrs
      BY <1>0, <2>2, TailOnce DEF SegTypes
    <3>2. /\ cur_seg_ptr \in SegPtrs
          /\ cur_seg_ptr' \in SegPtrs /\ (~last => cur_seg_ptr' # null_seg_ptr)
      BY <1>0, <2>1, <2>2, <3>1, PtrFacts
    <3>3. word_one = <<arriving.pkt, OpenNum>> /\ NextWord = <<arriving.pkt, OpenNum + 1>>
      BY <1>0, <2>2, <2>3 DEF NextWord, InputShape
    <3>4. arriving.pkt \in Pkts /\ OpenNum \in Nat /\ OpenNum + 1 \in Nat
      BY <1>0, <2>2
    <3> QED BY <3>2, <3>3, <3>4 DEF Tag
  <2>5. InsertionMoves
    <3>1. seg_ram' \in [SegPtrs -> Record]
      BY <1>0, <2>2, <2>4 DEF SegTypes, Record
    <3>2. ~last => ~Odd(arriving'.words) /\ arriving'.words # 0
      <4>1. OpenNum \in Nat /\ Odd(OpenNum)
        BY <1>0, <2>2
      <4>2. ~Odd(OpenNum + 1) /\ OpenNum + 1 # 0
        BY <4>1, OddFacts
      <4> QED BY <2>0, <2>3, <4>2
    <3> QED BY <1>0, <2>0, <2>1, <2>2, <3>1, <3>2
            DEF SegTypes, InsertionMoves
  <2>6. TakingMoves
    <3>1. ~Filling
      BY <1>0, <2>2 DEF StorageInv, MetaInv, FillingIsQuiet
    <3> QED BY <2>0, <2>1, <2>2, <2>3, <3>1 DEF TakingMoves
  <2>7. WritingMoves
    <3> DEFINE L == IF seg_fl_rd_en THEN OpenNum + 2 ELSE length'[arriving.pkt]
    <3>1. last => length'[arriving.pkt] = OpenNum + 1 /\ OpenNum >= 1
      BY <1>0, <2>0, <2>1, <2>2, <2>3, OddFacts
    <3>2. OpenNum < L /\ (OpenNum + 1 >= L <=> last)
      BY <1>0, <2>2, <3>1
    <3>3. seg_ram'[cur_seg_ptr] =
            [one |-> word_one, two |-> NextWord, next |-> cur_seg_ptr']
      BY <1>0, <2>2, <2>4 DEF SegTypes
    <3>4. Cut(seg_ram'[cur_seg_ptr], arriving.pkt, OpenNum, L)
      BY <2>1, <2>4, <3>2, <3>3 DEF Cut
    <3>5. seg_fl_rd_en => seg_ram'[cur_seg_ptr].next = Head(seg_fl)
      BY <2>1, <2>2, <3>3
    <3>6. \A s \in SegPtrs : s \notin Open => seg_ram'[s] = seg_ram[s]
      BY <1>0, <2>2 DEF SegTypes
    <3> QED BY <1>0, <2>0, <2>1, <2>2, <3>1, <3>4, <3>5, <3>6 DEF WritingMoves
  <2> QED BY <2>5, <2>6, <2>7
<1> QED BY <1>1, <1>2, <1>4, <1>5 DEF Next, Insertion

-----------------------------------------------------------------------------
(* The word on the bus is the next one of the packet that leaves, and the  *)
(* machine sees its end where the packet ends.                             *)
LEMMA OnTheBus ==
  ASSUME StorageInv, m_axis_pkt_tvalid
  PROVE  /\ leaving.pkt \in Pkts /\ leaving.words \in Nat
         /\ leaving.pkt # NoPkt /\ length[leaving.pkt] \in Nat
         /\ leaving.pkt # arriving.pkt => leaving.words + 1 <= length[leaving.pkt]
         /\ leaving.pkt = arriving.pkt => length[leaving.pkt] = 0
         /\ m_axis_pkt_tlast <=> AtEnd
         /\ AtEnd <=> leaving.words + 1 = length[leaving.pkt]
         /\ m_axis_pkt_tdata = <<leaving.pkt, leaving.words + 1>>
<1>1. /\ leaving \in [pkt : Pkts \cup {NoPkt}, words : Nat]
      /\ length \in [Pkts -> Nat]
      /\ OutputShape /\ FirstSound /\ SecondSound /\ InputSound
  BY DEF StorageInv, SegTypes, MetaInv, OutputSound
<1>2. leaving.pkt # NoPkt
  BY <1>1 DEF OutputShape, m_axis_pkt_tvalid, FirstOfSegment
<1>3. /\ leaving.pkt \in Pkts /\ leaving.words \in Nat
      /\ length[leaving.pkt] \in Nat
      /\ leaving.pkt = arriving.pkt => length[leaving.pkt] = 0
  BY <1>1, <1>2 DEF InputSound, StorageInv, InputShape
<1>4. CASE FirstOfSegment
  <2> DEFINE L == Size(leaving.pkt, leaving.words + 1)
  <2>1. /\ leaving.pkt # arriving.pkt => leaving.words + 1 <= length[leaving.pkt]
        /\ Cut(seg_dout, leaving.pkt, leaving.words + 1, L)
        /\ L = IF leaving.pkt = arriving.pkt THEN leaving.words + 3 ELSE length[leaving.pkt]
        /\ tlast_r => AtEnd
    BY <1>1, <1>3, <1>4 DEF FirstSound, Written, Size
  <2> HIDE DEF L
  <2>2. AtEnd <=> seg_dout.two = NoWord /\ seg_dout.next = null_seg_ptr
    BY <1>4 DEF AtEnd
  <2>3. seg_dout.two = NoWord <=> ~(leaving.words + 1 < L)
    BY <1>2, <2>1 DEF Cut, NoWord
  <2>4. seg_dout.next = null_seg_ptr <=> leaving.words + 1 + 1 >= L
    BY <2>1 DEF Cut
  <2>5. AtEnd <=> leaving.words + 1 = length[leaving.pkt]
    BY <1>3, <2>1, <2>2, <2>3, <2>4
  <2> QED BY <1>2, <1>3, <1>4, <2>1, <2>5 DEF m_axis_pkt_tlast, m_axis_pkt_tdata, Cut
<1>5. CASE rfsm = "WRITE_OUT_WORD_TWO"
  <2>1. ~FirstOfSegment
    BY <1>5 DEF FirstOfSegment
  <2> QED BY <1>1, <1>2, <1>3, <1>5, <2>1
          DEF SecondSound, AtEnd, m_axis_pkt_tlast, m_axis_pkt_tdata
<1> QED BY <1>4, <1>5 DEF m_axis_pkt_tvalid

(* What the removal machine does to the segments: it gives back the first  *)
(* one the packet still has, and all of them before it ends.               *)
Back == IF seg_fl_wr_en THEN 2 ELSE 0
RemovalMoves ==
  /\ leaving \in [pkt : Pkts \cup {NoPkt}, words : Nat]
  /\ leaving' \in [pkt : Pkts \cup {NoPkt}, words : Nat]
  /\ stalled' \in Nat /\ stalled' <= MAX_STALL
  /\ seg_fl_wr_en => /\ leaving.pkt \in Pkts
                     /\ Holds(rfsm_cur_seg_ptr, leaving.pkt, Low[leaving.pkt])
  /\ leaving.pkt # NoPkt => Low[leaving.pkt] \in Nat
  /\ leaving.pkt # NoPkt /\ leaving'.pkt = leaving.pkt =>
        Low'[leaving.pkt] = Low[leaving.pkt] + Back
  /\ leaving.pkt # NoPkt /\ leaving'.pkt # leaving.pkt =>
        /\ leaving'.pkt = NoPkt /\ leaving.pkt # arriving.pkt
        /\ Low[leaving.pkt] + Back > length[leaving.pkt]
  /\ leaving.pkt = NoPkt /\ leaving'.pkt # NoPkt =>
        /\ Low'[leaving'.pkt] = 1
        /\ \E w \in waiting : w.pkt = leaving'.pkt
  /\ \A q \in Pkts : q # leaving'.pkt => Low'[q] = 1

LEMMA RemovalEffect ==
  ASSUME StorageInv, Next, ~EARLY_TRAFFIC, PausesFit
  PROVE  RemovalMoves
<1>1. /\ leaving \in [pkt : Pkts \cup {NoPkt}, words : Nat]
      /\ length \in [Pkts -> Nat]
      /\ stalled \in Nat /\ stalled <= MAX_STALL
      /\ OutputShape /\ FirstSound /\ SecondSound /\ ReadingSound /\ MetaInv
      /\ MAX_STALL \in Nat
  BY ClientAssumption DEF StorageInv, SegTypes, MetaInv, OutputSound
<1>2. leaving' \in [pkt : Pkts \cup {NoPkt}, words : Nat]
  BY <1>1, Removals
<1>3. \A q \in Pkts : q # leaving'.pkt => Low'[q] = 1
  BY DEF Low
<1>4. leaving.pkt # NoPkt => leaving.pkt \in Pkts /\ Low[leaving.pkt] \in Nat
  BY <1>1 DEF Low
<1>5. CASE rfsm = "WAIT_REQUEST"
  <2>1. leaving.pkt = NoPkt /\ ~seg_fl_wr_en
    BY <1>1, <1>5 DEF OutputShape, seg_fl_wr_en, FirstOfSegment
  <2>2. CASE NoRequest
    BY <1>1, <1>2, <1>3, <2>1, <2>2 DEF NoRequest, RemovalMoves
  <2>3. CASE Request
    <3>1. PICK w \in waiting : leaving' = [pkt |-> w.pkt, words |-> 0]
      BY <2>3 DEF Request
    <3>2. w.pkt \in Pkts
      BY <1>1 DEF MetaInv, WaitingApart
    <3>3. Low'[w.pkt] = 1
      BY <2>3, <3>1, <3>2 DEF Request, Low
    <3> QED BY <1>1, <1>2, <1>3, <2>1, <2>3, <3>1, <3>3 DEF RemovalMoves, Request
  <2> QED BY <1>5, <2>2, <2>3 DEF Next, Removal, WaitBram, FirstWord, SecondWord, FirstOfSegment
<1>6. CASE WaitBram
  <2>1. /\ ~seg_fl_wr_en /\ leaving' = leaving /\ stalled' = 0 /\ stalled = 0
        /\ rfsm' = rfsm /\ leaving.pkt # NoPkt
    BY <1>1, <1>6 DEF WaitBram, ReadingSound, seg_fl_wr_en, FirstOfSegment, OutputShape
  <2>2. Low'[leaving.pkt] = Low[leaving.pkt]
    BY <1>4, <2>1 DEF Low
  <2>3. Back = 0 /\ Low[leaving.pkt] + 0 = Low[leaving.pkt]
    BY <1>4, <2>1 DEF Back
  <2> QED BY <1>1, <1>2, <1>3, <1>4, <2>1, <2>2, <2>3 DEF RemovalMoves
(* A word is on the bus. *)
<1>7. ASSUME NEW tready \in BOOLEAN, FirstWord(tready) \/ SecondWord(tready)
      PROVE  RemovalMoves
  <2>1. /\ m_axis_pkt_tvalid /\ Leave(tready)
    BY <1>7 DEF FirstWord, SecondWord, m_axis_pkt_tvalid
  <2>2. /\ leaving.pkt \in Pkts /\ leaving.words \in Nat /\ leaving.pkt # NoPkt
        /\ length[leaving.pkt] \in Nat
        /\ m_axis_pkt_tlast <=> AtEnd
        /\ AtEnd <=> leaving.words + 1 = length[leaving.pkt]
        /\ AtEnd => leaving.pkt # arriving.pkt
    BY <2>1, OnTheBus
  <2>3. /\ ~tready => stalled' = stalled + 1 /\ leaving' = leaving /\ stalled < MAX_STALL
        /\ tready => stalled' = 0
        /\ tready /\ AtEnd => leaving'.pkt = NoPkt
        /\ tready /\ ~AtEnd => /\ leaving'.pkt = leaving.pkt
                               /\ leaving'.words = leaving.words + 1
    BY <1>1, <2>1, <2>2 DEF Leave, Nobody
  <2>4. /\ stalled' \in Nat /\ stalled' <= MAX_STALL
    BY <1>1, <2>3
  <2>5. CASE FirstWord(tready)
    <3>1. /\ FirstOfSegment
          /\ rfsm # "WRITE_OUT_WORD_TWO"
          /\ ~tready => rfsm' = rfsm
          /\ tready /\ ~AtEnd => rfsm' = "WRITE_OUT_WORD_TWO"
      BY <2>5 DEF FirstWord, AfterFirstWord, FirstOfSegment
    <3>2. seg_fl_wr_en <=> stalled = 0
      BY <1>1, <3>1 DEF FirstSound, seg_fl_wr_en
    <3>3. /\ stalled = 0 => Low[leaving.pkt] = leaving.words + 1
          /\ stalled # 0 => Low[leaving.pkt] = leaving.words + 3
      BY <2>2, <3>1 DEF Low
    <3>4. Low[leaving.pkt] + Back = leaving.words + 3
      BY <2>2, <3>2, <3>3 DEF Back
    <3>5. seg_fl_wr_en => Holds(rfsm_cur_seg_ptr, leaving.pkt, Low[leaving.pkt])
      BY <1>1, <3>1, <3>2, <3>3 DEF FirstSound
    <3>6. leaving'.pkt = leaving.pkt => Low'[leaving.pkt] = leaving.words + 3
      <4>1. CASE ~tready
        BY <1>1, <2>2, <2>3, <3>1, <4>1 DEF Low
      <4>2. CASE tready
        BY <1>1, <2>2, <2>3, <3>1, <4>2 DEF Low
      <4> QED BY <4>1, <4>2
    <3>7. leaving'.pkt # leaving.pkt =>
            /\ leaving'.pkt = NoPkt /\ leaving.pkt # arriving.pkt
            /\ leaving.words + 3 > length[leaving.pkt]
      BY <2>2, <2>3
    <3> QED BY <1>1, <1>2, <1>3, <1>4, <2>2, <2>4, <3>4, <3>5, <3>6, <3>7 DEF RemovalMoves
  <2>6. CASE SecondWord(tready)
    <3>1. /\ rfsm = "WRITE_OUT_WORD_TWO" /\ ~FirstOfSegment
          /\ ~tready => rfsm' = rfsm
          /\ tready /\ ~AtEnd => rfsm' = "WAIT_SEG_BRAM"
      BY <2>6 DEF SecondWord, FirstOfSegment
    <3>2. ~seg_fl_wr_en
      BY <3>1 DEF seg_fl_wr_en
    <3>3. Low[leaving.pkt] = leaving.words + 2
      BY <2>2, <3>1 DEF Low
    <3>4. Low[leaving.pkt] + Back = leaving.words + 2
      BY <2>2, <3>2, <3>3 DEF Back
    <3>6. leaving'.pkt = leaving.pkt => Low'[leaving.pkt] = leaving.words + 2
      <4>1. CASE ~tready
        BY <1>1, <2>2, <2>3, <3>1, <4>1 DEF Low
      <4>2. CASE tready
        BY <1>1, <2>2, <2>3, <3>1, <4>2 DEF Low
      <4> QED BY <4>1, <4>2
    <3>7. leaving'.pkt # leaving.pkt =>
            /\ leaving'.pkt = NoPkt /\ leaving.pkt # arriving.pkt
            /\ leaving.words + 2 > length[leaving.pkt]
      BY <2>2, <2>3
    <3> QED BY <1>1, <1>2, <1>3, <1>4, <2>2, <2>4, <3>2, <3>4, <3>6, <3>7 DEF RemovalMoves
  <2> QED BY <1>7, <2>5, <2>6
<1> QED BY <1>5, <1>6, <1>7 DEF Next, Removal, NoRequest, Request

-----------------------------------------------------------------------------
(* Who owns what after a cycle, and that no owned segment is renumbered.   *)
Returned(s) == seg_fl_wr_en /\ s = rfsm_cur_seg_ptr

LEMMA OwnersMove ==
  ASSUME StorageInv, Next, ~EARLY_TRAFFIC, PausesFit
  PROVE  /\ owner' \in [Ptrs -> Pkts \cup {NoPkt}]
         /\ seg_fl_rd_en => LET h == Head(seg_fl) IN
               /\ h \in Ptrs /\ owner[h] = NoPkt /\ ~Lacks(seg_fl, h)
               /\ Open' = {h} /\ Num'[h] = OpenNum' /\ owner'[h] = arriving'.pkt
         /\ ~seg_fl_rd_en => Open' \subseteq Open
         /\ arriving'.pkt # NoPkt <=> Open' # {}
         /\ \A s \in Ptrs : owner[s] # NoPkt =>
               /\ Num'[s] = Num[s] /\ (s \in Open' => s \in Open)
               /\ owner'[s] = IF Returned(s) THEN NoPkt ELSE owner[s]
         /\ \A s \in Ptrs : owner[s] = NoPkt /\ ~(seg_fl_rd_en /\ s = Head(seg_fl)) =>
               owner'[s] = NoPkt
<1>1. InsertionMoves /\ TakingMoves /\ WritingMoves
  BY InsertionEffect
<1>2. RemovalMoves
  BY RemovalEffect
<1>3. owner' = [s \in Ptrs |->
              IF seg_fl_rd_en /\ s = Head(seg_fl) THEN arriving'.pkt
              ELSE IF Returned(s) THEN NoPkt
              ELSE owner[s]]
  BY DEF Next, Owners, Returned
<1>4. /\ SegTypes /\ InputShape /\ InputSound /\ FreeSound
      /\ \A s \in Ptrs : s \in SegPtrs
  BY PtrFacts DEF StorageInv
<1>5. seg_fl_rd_en => /\ Head(seg_fl) \in Ptrs /\ ~Lacks(seg_fl, Head(seg_fl))
                      /\ owner[Head(seg_fl)] = NoPkt
  <2> SUFFICES ASSUME seg_fl_rd_en
               PROVE  /\ Head(seg_fl) \in Ptrs /\ ~Lacks(seg_fl, Head(seg_fl))
                      /\ owner[Head(seg_fl)] = NoPkt
    OBVIOUS
  <2>1. seg_fl \in Seq(Ptrs) /\ Once(seg_fl) /\ seg_fl # <<>>
    BY <1>1, <1>4 DEF SegTypes, TakingMoves
  <2>2. Head(seg_fl) \in Ptrs /\ Head(seg_fl) = seg_fl[1] /\ 1 \in 1 .. Len(seg_fl)
    BY <2>1, TailOnce
  <2>3. ~Lacks(seg_fl, Head(seg_fl))
    BY <2>2 DEF Lacks
  <2> QED BY <1>4, <2>2, <2>3 DEF FreeSound
<1>6. owner' \in [Ptrs -> Pkts \cup {NoPkt}]
  BY <1>1, <1>3, <1>4 DEF SegTypes, InsertionMoves
<1>7. /\ ifsm' = "START_WORD" => Open' = {}
      /\ ifsm' # "START_WORD" => Open' = {cur_seg_ptr'}
      /\ ifsm = "START_WORD" => Open = {}
      /\ ifsm # "START_WORD" => Open = {cur_seg_ptr}
  BY DEF Open
<1>8. ~seg_fl_rd_en => Open' \subseteq Open
  BY <1>1, <1>7 DEF TakingMoves
<1>9. /\ \A s \in Ptrs : Num'[s] = IF s \in Open' THEN OpenNum' ELSE seg_ram'[s].one[2]
      /\ \A s \in Ptrs : Num[s] = IF s \in Open THEN OpenNum ELSE seg_ram[s].one[2]
  BY DEF Num
<1>10. seg_fl_rd_en => LET h == Head(seg_fl) IN
               /\ h \in Ptrs /\ owner[h] = NoPkt /\ ~Lacks(seg_fl, h)
               /\ Open' = {h} /\ Num'[h] = OpenNum' /\ owner'[h] = arriving'.pkt
  <2> SUFFICES ASSUME seg_fl_rd_en
               PROVE  /\ Open' = {Head(seg_fl)} /\ Num'[Head(seg_fl)] = OpenNum'
                      /\ owner'[Head(seg_fl)] = arriving'.pkt
    BY <1>5
  <2>1. Open' = {Head(seg_fl)}
    BY <1>1, <1>7 DEF TakingMoves
  <2> QED BY <1>3, <1>5, <1>9, <2>1
<1>11. ASSUME NEW s \in Ptrs, owner[s] # NoPkt
       PROVE  /\ Num'[s] = Num[s] /\ (s \in Open' => s \in Open)
              /\ owner'[s] = IF Returned(s) THEN NoPkt ELSE owner[s]
  <2>1. seg_fl_rd_en => s # Head(seg_fl)
    BY <1>5, <1>11
  <2>2. s \in Open' => s \in Open /\ ~seg_fl_rd_en
    BY <1>8, <1>10, <2>1
  <2>3. CASE s \in Open'
    <3>1. s \in Open /\ ~seg_fl_rd_en /\ ifsm' # "START_WORD"
      BY <1>7, <2>2, <2>3
    <3>2. OpenNum' = OpenNum
      BY <1>1, <3>1 DEF TakingMoves
    <3>3. owner'[s] = IF Returned(s) THEN NoPkt ELSE owner[s]
      BY <1>3, <2>1
    <3> QED BY <1>9, <2>3, <3>1, <3>2, <3>3
  <2>4. CASE s \notin Open' /\ s \in Open
    <3>1. /\ s = cur_seg_ptr /\ ifsm # "START_WORD"
          /\ seg_fl_rd_en \/ ifsm' = "START_WORD"
      BY <1>1, <1>7, <2>4 DEF TakingMoves
    <3>2. seg_ram'[s].one = <<arriving.pkt, OpenNum>>
      BY <1>1, <3>1 DEF WritingMoves, Cut
    <3> QED BY <1>3, <1>9, <2>1, <2>4, <3>2
  <2>5. CASE s \notin Open' /\ s \notin Open
    BY <1>1, <1>3, <1>4, <1>9, <2>1, <2>5 DEF WritingMoves
  <2>6. owner'[s] = IF Returned(s) THEN NoPkt ELSE owner[s]
    BY <1>3, <2>1
  <2> QED BY <2>2, <2>3, <2>4, <2>5, <2>6
<1>12. arriving'.pkt # NoPkt <=> Open' # {}
  BY <1>1, <1>7 DEF InsertionMoves
<1> QED BY <1>3, <1>6, <1>8, <1>10, <1>11, <1>12

(* The list of the free segments. *)
LEMMA SegListMoves ==
  ASSUME StorageInv, Next, ~EARLY_TRAFFIC, PausesFit
  PROVE  /\ seg_fl' \in Seq(Ptrs) /\ Once(seg_fl')
         /\ FreeSound'
<1> DEFINE h == Head(seg_fl)
           mid == IF seg_fl_rd_en THEN Tail(seg_fl) ELSE seg_fl
<1>1. /\ seg_fl \in Seq(Ptrs) /\ Once(seg_fl)
      /\ MAX_PKTS \in Nat /\ cur_val \in Nat /\ cur_val <= MAX_PKTS - 1
      /\ \A s \in Ptrs : s \in Nat /\ s <= MAX_PKTS - 2
      /\ Filling <=> cur_val <= MAX_PKTS - 2
      /\ Filling => ifsm = "START_WORD" /\ waiting = {} /\ rfsm = "WAIT_REQUEST"
      /\ FreeSound
  BY PtrFacts DEF StorageInv, SegTypes, MetaInv, FillingIsQuiet
<1>2. seg_fl_rd_en => seg_fl # <<>> /\ ~Filling /\ arriving'.pkt # NoPkt
  <2>1. TakingMoves /\ InsertionMoves
    BY InsertionEffect
  <2> QED BY <2>1 DEF TakingMoves, InsertionMoves
<1>3. seg_fl_wr_en => /\ ~Filling /\ rfsm_cur_seg_ptr \in Ptrs /\ owner[rfsm_cur_seg_ptr] # NoPkt
  <2>1. seg_fl_wr_en => ~Filling
    BY <1>1 DEF seg_fl_wr_en, FirstOfSegment
  <2> QED BY <2>1, RemovalEffect, NoPktAssumption DEF RemovalMoves, Holds
<1>4. Filling => \A s \in Ptrs : owner[s] = NoPkt
  BY <1>1 DEF StorageInv, SegmentsSound, Inside, InputShape, OutputSound, OutputShape
<1>5. /\ seg_fl' = mid \o (IF Filling THEN <<cur_val>>
                            ELSE IF seg_fl_wr_en THEN <<rfsm_cur_seg_ptr>> ELSE <<>>)
      /\ cur_val' = IF Filling THEN cur_val + 1 ELSE cur_val
  BY DEF Next, FreeLists, Refilled
<1>6. /\ mid \in Seq(Ptrs) /\ Once(mid)
      /\ \A s : Lacks(mid, s) <=> Lacks(seg_fl, s) \/ (seg_fl_rd_en /\ s = h)
  <2>1. CASE seg_fl_rd_en
    BY <1>1, <1>2, <2>1, TailOnce
  <2>2. CASE ~seg_fl_rd_en
    BY <1>1, <2>2
  <2> QED BY <2>1, <2>2
<1>7. \A s \in Ptrs : Lacks(seg_fl, s) <=> s >= cur_val \/ owner[s] # NoPkt
  BY <1>1 DEF FreeSound
<1> HIDE DEF mid
<1>8. CASE Filling
  <2>1. /\ seg_fl' = mid \o <<cur_val>> /\ cur_val' = cur_val + 1
        /\ ~seg_fl_rd_en /\ ~seg_fl_wr_en
        /\ cur_val \in Ptrs
    BY <1>1, <1>2, <1>3, <1>5, <1>8 DEF Ptrs
  <2>2. Lacks(mid, cur_val)
    BY <1>1, <1>6, <1>7, <2>1
  <2>3. /\ seg_fl' \in Seq(Ptrs) /\ Once(seg_fl')
        /\ \A s : Lacks(seg_fl', s) <=> Lacks(mid, s) /\ s # cur_val
    BY <1>6, <2>1, <2>2, AppendOnce
  <2>4. \A s \in Ptrs : owner'[s] = NoPkt
    BY <1>4, <1>8, <2>1, OwnersMove
  <2>5. ASSUME NEW s \in Ptrs
        PROVE  Lacks(seg_fl', s) <=> s >= cur_val' \/ owner'[s] # NoPkt
    BY <1>1, <1>4, <1>6, <1>7, <1>8, <2>1, <2>3, <2>4
  <2> QED BY <2>3, <2>5 DEF FreeSound
<1>9. CASE ~Filling
  <2>1. cur_val' = cur_val /\ \A s \in Ptrs : ~(s >= cur_val)
    BY <1>1, <1>5, <1>9
  <2>2. /\ seg_fl' \in Seq(Ptrs) /\ Once(seg_fl')
        /\ \A s : Lacks(seg_fl', s) <=> Lacks(mid, s) /\ ~Returned(s)
    <3>1. CASE seg_fl_wr_en
      <4>1. Lacks(mid, rfsm_cur_seg_ptr)
        BY <1>3, <1>6, <1>7, <3>1
      <4>2. seg_fl' = mid \o <<rfsm_cur_seg_ptr>>
        BY <1>5, <1>9, <3>1
      <4> QED BY <1>3, <1>6, <3>1, <4>1, <4>2, AppendOnce DEF Returned
    <3>2. CASE ~seg_fl_wr_en
      <4>1. mid \o <<>> = mid
        BY <1>6
      <4> QED BY <1>5, <1>6, <1>9, <3>2, <4>1 DEF Returned
    <3> QED BY <3>1, <3>2
  <2>3. ASSUME NEW s \in Ptrs
        PROVE  Lacks(seg_fl', s) <=> s >= cur_val' \/ owner'[s] # NoPkt
    <3>1. Lacks(seg_fl', s) <=> (owner[s] # NoPkt \/ (seg_fl_rd_en /\ s = h)) /\ ~Returned(s)
      BY <1>6, <1>7, <2>1, <2>2
    <3>2. CASE owner[s] # NoPkt
      <4>1. owner'[s] = IF Returned(s) THEN NoPkt ELSE owner[s]
        BY <3>2, OwnersMove
      <4> QED BY <2>1, <3>1, <3>2, <4>1
    <3>3. CASE owner[s] = NoPkt
      <4>1. ~Returned(s)
        BY <1>3, <3>3 DEF Returned
      <4>2. /\ seg_fl_rd_en /\ s = h => owner'[s] = arriving'.pkt
            /\ ~(seg_fl_rd_en /\ s = h) => owner'[s] = NoPkt
        BY <3>3, OwnersMove
      <4> QED BY <1>2, <2>1, <3>1, <3>3, <4>1, <4>2
    <3> QED BY <3>2, <3>3
  <2> QED BY <2>2, <2>3 DEF FreeSound
<1> QED BY <1>8, <1>9

-----------------------------------------------------------------------------
(* Who is inside after a cycle.                                            *)
LEMMA InsideMoves ==
  ASSUME StorageInv, Next, ~EARLY_TRAFFIC, PausesFit
  PROVE  /\ \A q \in Inside : q \in Pkts /\ q # NoPkt
         /\ arriving'.pkt # NoPkt =>
              IF meta_fl_rd_en THEN arriving'.pkt \in Pkts \ Inside
              ELSE arriving'.pkt = arriving.pkt
         /\ \A q \in Inside : q # arriving.pkt =>
              q # arriving'.pkt /\ length'[q] = length[q]
         /\ leaving'.pkt # NoPkt =>
              /\ leaving'.pkt \in Inside
              /\ leaving'.pkt = arriving'.pkt =>
                   leaving'.pkt = arriving.pkt /\ ~meta_fl_rd_en
         /\ \A w \in waiting : w.pkt \in Inside /\ (w.pkt # leaving'.pkt => w \in waiting')
         /\ \A w \in waiting' : \/ w \in waiting /\ w.pkt # leaving'.pkt
                                \/ /\ meta_fl_rd_en /\ w.pkt = arriving'.pkt
                                   /\ w.seg = Head(seg_fl) /\ w.meta = Head(meta_fl)
         /\ meta_fl_rd_en => \E w \in waiting' : w.pkt = arriving'.pkt
<1>1. InsertionMoves /\ TakingMoves /\ WritingMoves /\ RemovalMoves
  BY InsertionEffect, RemovalEffect
<1>2. /\ \A w \in waiting : w.pkt \in Pkts
      /\ arriving.pkt \in Pkts \cup {NoPkt} /\ leaving.pkt \in Pkts \cup {NoPkt}
  BY DEF StorageInv, SegTypes, MetaInv, WaitingApart
<1>3. \A q \in Inside : q \in Pkts /\ q # NoPkt
  BY <1>2 DEF Inside
<1>4. \A w \in waiting : w.pkt \in Inside
  BY <1>2, NoPktAssumption DEF Inside
<1>5. arriving'.pkt # NoPkt =>
        IF meta_fl_rd_en THEN arriving'.pkt \in Pkts \ Inside
        ELSE arriving'.pkt = arriving.pkt
  BY <1>1 DEF InsertionMoves, TakingMoves
<1>6. \A q \in Inside : q # arriving.pkt => q # arriving'.pkt /\ length'[q] = length[q]
  BY <1>1, <1>3, <1>5 DEF WritingMoves
<1>7. leaving'.pkt # NoPkt => leaving'.pkt \in Inside
  <2>1. CASE leaving.pkt = NoPkt
    BY <1>1, <1>4, <2>1 DEF RemovalMoves
  <2>2. CASE leaving.pkt # NoPkt
    BY <1>1, <1>2, <2>2 DEF RemovalMoves, Inside
  <2> QED BY <2>1, <2>2
<1>8. waiting' = {w \in waiting : w.pkt # leaving'.pkt} \cup
             (IF meta_fl_rd_en
              THEN {[pkt |-> arriving'.pkt, seg |-> Head(seg_fl), meta |-> Head(meta_fl)]}
              ELSE {})
  BY DEF Next, Pointers
<1>9. meta_fl_rd_en => \E w \in waiting' : w.pkt = arriving'.pkt
  <2> DEFINE new == [pkt |-> arriving'.pkt, seg |-> Head(seg_fl), meta |-> Head(meta_fl)]
  <2>1. meta_fl_rd_en => new \in waiting'
    BY <1>8
  <2>2. new.pkt = arriving'.pkt
    OBVIOUS
  <2> QED BY <2>1, <2>2
<1> QED BY <1>3, <1>4, <1>5, <1>6, <1>7, <1>8, <1>9

(* A segment given back is the first one of the packet that leaves.        *)
LEMMA KeepHolds ==
  ASSUME StorageInv, Next, ~EARLY_TRAFFIC, PausesFit
  PROVE  /\ \A s \in Ptrs : Returned(s) => /\ owner[s] = leaving.pkt /\ leaving.pkt # NoPkt
                                           /\ Num[s] = Low[leaving.pkt]
         /\ \A s, p, n : Holds(s, p, n) /\ p \in Pkts /\ (p = leaving.pkt => n # Low[p] \/ ~seg_fl_wr_en)
                           => s \in Ptrs /\ owner'[s] = p /\ Num'[s] = n
<1>1. \A s \in Ptrs : Returned(s) => /\ owner[s] = leaving.pkt /\ leaving.pkt # NoPkt
                                     /\ Num[s] = Low[leaving.pkt]
  BY RemovalEffect, NoPktAssumption DEF RemovalMoves, Returned, Holds
<1>2. ASSUME NEW s, NEW p \in Pkts, NEW n, Holds(s, p, n), p = leaving.pkt => n # Low[p] \/ ~seg_fl_wr_en
      PROVE  s \in Ptrs /\ owner'[s] = p /\ Num'[s] = n
  <2>1. s \in Ptrs /\ owner[s] = p /\ Num[s] = n /\ owner[s] # NoPkt
    BY <1>2, NoPktAssumption DEF Holds
  <2>2. ~Returned(s)
    BY <1>1, <1>2, <2>1 DEF Returned
  <2> QED BY <2>1, <2>2, OwnersMove
<1> QED BY <1>1, <1>2

LEMMA KeepWritten ==
  ASSUME StorageInv, Next, ~EARLY_TRAFFIC, PausesFit
  PROVE  \A g, p, n :
           /\ p \in Inside /\ n \in Nat
           /\ Written(g, p, n)
           /\ p = arriving.pkt => n + 2 <= OpenNum
           /\ p = leaving.pkt => n + 2 # Low[p] \/ ~seg_fl_wr_en
           => /\ Cut(g, p, n, IF p = arriving'.pkt THEN n + 2 ELSE length'[p])
              /\ g.next # null_seg_ptr =>
                   g.next \in Ptrs /\ owner'[g.next] = p /\ Num'[g.next] = n + 2
<1> SUFFICES ASSUME NEW g, NEW p \in Inside, NEW n \in Nat,
                    Written(g, p, n),
                    p = arriving.pkt => n + 2 <= OpenNum,
                    p = leaving.pkt => n + 2 # Low[p] \/ ~seg_fl_wr_en
             PROVE  /\ Cut(g, p, n, IF p = arriving'.pkt THEN n + 2 ELSE length'[p])
                    /\ g.next # null_seg_ptr =>
                         g.next \in Ptrs /\ owner'[g.next] = p /\ Num'[g.next] = n + 2
  OBVIOUS
<1>1. p \in Pkts /\ p # NoPkt
  BY InsideMoves
<1>2. g.next # null_seg_ptr => g.next \in Ptrs /\ owner'[g.next] = p /\ Num'[g.next] = n + 2
  BY <1>1, KeepHolds DEF Written
<1>3. Cut(g, p, n, Size(p, n))
  BY DEF Written
<1> DEFINE L == IF p = arriving'.pkt THEN n + 2 ELSE length'[p]
<1>4. CASE p # arriving.pkt
  <2>1. Size(p, n) = L
    BY <1>4, InsideMoves DEF Size
  <2> QED BY <1>2, <1>3, <2>1
<1>5. CASE p = arriving.pkt /\ p = arriving'.pkt
  <2>1. Size(p, n) = L
    BY <1>5 DEF Size
  <2> QED BY <1>2, <1>3, <2>1
<1>6. CASE p = arriving.pkt /\ p # arriving'.pkt
  <2>1. InsertionMoves /\ WritingMoves /\ TakingMoves
    BY InsertionEffect
  <2>2. ifsm # "START_WORD" /\ arriving.pkt # NoPkt
    BY <1>1, <1>6 DEF StorageInv, InputShape
  <2>3. arriving'.pkt = NoPkt
    BY <1>6, <2>1, <2>2 DEF TakingMoves, InsertionMoves, meta_fl_rd_en
  <2>4. OpenNum <= length'[p] /\ length'[p] \in Nat /\ OpenNum \in Nat
    BY <1>1, <1>6, <2>1, <2>2, <2>3 DEF InsertionMoves, WritingMoves, StorageInv, SegTypes, OpenNum
  <2>5. length'[p] >= n + 2
    BY <1>6, <2>4
  <2>6. Size(p, n) = n + 2 /\ L = length'[p]
    BY <1>6 DEF Size
  <2>7. Cut(g, p, n, n + 2)
    BY <1>3, <2>6
  <2>8. Cut(g, p, n, length'[p])
    BY <2>4, <2>5, <2>7, CutLonger
  <2> QED BY <1>2, <2>6, <2>8
<1> QED BY <1>2, <1>4, <1>5, <1>6

-----------------------------------------------------------------------------
(* Each cycle brings the packet that arrives a word or a pause.            *)
LEMMA PauseMoves ==
  ASSUME StorageInv, Next, ~EARLY_TRAFFIC
  PROVE  /\ pauses' \in Nat /\ pauses' <= MAX_PAUSE
         /\ cut_through /\ arriving'.pkt # NoPkt /\ arriving'.pkt = arriving.pkt =>
              arriving'.words + pauses' = arriving.words + pauses + 1
<1>1. /\ SegTypes /\ InputShape /\ MAX_PAUSE \in Nat
      /\ arriving.words \in Nat /\ pauses \in Nat /\ pauses <= MAX_PAUSE
      /\ arriving \in [pkt : Pkts \cup {NoPkt}, words : Nat]
  BY ClientAssumption DEF StorageInv, SegTypes
<1>2. pauses' = IF ~cut_through \/ arriving'.pkt = NoPkt THEN 0
                ELSE IF arriving' = arriving THEN pauses + 1 ELSE pauses
  BY DEF Next, Insertion, Pauses
<1>3. CASE NoArrival
  <2>1. arriving' = arriving /\ (cut_through /\ arriving.pkt # NoPkt => pauses < MAX_PAUSE)
    BY <1>3 DEF NoArrival
  <2> QED BY <1>1, <1>2, <2>1
<1>4. CASE StartWord
  <2>1. arriving.pkt = NoPkt /\ arriving'.pkt # NoPkt
    BY <1>1, <1>4, NoPktAssumption DEF StartWord, InputShape
  <2> QED BY <1>1, <1>2, <2>1
<1>5. CASE WordOne \/ WordTwo
  <2>1. PICK last \in BOOLEAN : Arrive(last)
    BY <1>5 DEF WordOne, WordTwo
  <2>2. CASE last
    <3>1. arriving'.pkt = NoPkt
      BY <2>1, <2>2 DEF Arrive, Nobody
    <3> QED BY <1>1, <1>2, <3>1
  <2>3. CASE ~last
    <3>1. arriving'.words = arriving.words + 1
      BY <1>1, <2>1, <2>3 DEF Arrive
    <3>2. arriving' # arriving
      BY <1>1, <3>1
    <3> QED BY <1>1, <1>2, <3>1, <3>2
  <2> QED BY <2>2, <2>3
<1> QED BY <1>3, <1>4, <1>5 DEF Next, Insertion

LEMMA ClientFits ==
  ASSUME StorageInv, PausesFit, cut_through
  PROVE  MAX_PAUSE + 2 <= LEAD
<1>1. cut_through \in CUT_THROUGH /\ cut_through \in BOOLEAN
  BY ClientAssumption DEF StorageInv, SegTypes
<1>2. cut_through = TRUE
  BY <1>1
<1> QED BY <1>1, <1>2 DEF PausesFit

(* What its lead is worth: the segment after the one on the bus is closed. *)
LEMMA Ahead ==
  ASSUME StorageInv, PausesFit, leaving.pkt # NoPkt, leaving.pkt = arriving.pkt
  PROVE  /\ OpenNum \in Nat /\ leaving.words \in Nat
         /\ leaving.words + 3 <= OpenNum
         /\ ~Addressing => leaving.words + 4 <= OpenNum
<1>1. /\ arriving.words \in Nat /\ leaving.words \in Nat
      /\ pauses \in Nat /\ pauses <= MAX_PAUSE /\ LEAD \in Nat /\ MAX_PAUSE \in Nat
      /\ LeadSound
  BY ClientAssumption DEF StorageInv, SegTypes, MetaInv
<1>2. /\ arriving.words + pauses >= LEAD + leaving.words + (IF Addressing THEN 1 ELSE 2)
      /\ MAX_PAUSE + 2 <= LEAD
  BY <1>1, ClientFits DEF LeadSound
<1>3. /\ leaving.words + 3 <= arriving.words
      /\ ~Addressing => leaving.words + 4 <= arriving.words
  BY <1>1, <1>2
<1> QED BY <1>1, <1>3 DEF OpenNum

LEMMA LeadStep ==
  ASSUME StorageInv, Next, ~EARLY_TRAFFIC, PausesFit
  PROVE  LeadSound'
<1> SUFFICES ASSUME leaving'.pkt # NoPkt, leaving'.pkt = arriving'.pkt
             PROVE  /\ cut_through
                    /\ arriving'.words + pauses' >=
                         LEAD + leaving'.words + (IF Addressing' THEN 1 ELSE 2)
  BY DEF LeadSound, Next
<1>1. /\ arriving.words \in Nat /\ leaving.words \in Nat /\ pauses \in Nat /\ LEAD \in Nat
      /\ LeadSound /\ OutputShape
      /\ leaving \in [pkt : Pkts \cup {NoPkt}, words : Nat]
  BY ClientAssumption DEF StorageInv, SegTypes, MetaInv, OutputSound
<1>2. /\ leaving'.pkt = arriving.pkt
      /\ cut_through => arriving'.words + pauses' = arriving.words + pauses + 1
  <2>1. leaving'.pkt = arriving.pkt
    BY InsideMoves
  <2> QED BY <2>1, PauseMoves
<1>3. CASE NoRequest
  BY <1>1, <1>3 DEF NoRequest, OutputShape
<1>4. CASE Request
  <2>1. PICK w \in waiting :
          /\ w.pkt = arriving.pkt => cut_through /\ arriving.words + pauses >= LEAD
          /\ leaving' = [pkt |-> w.pkt, words |-> 0]
    BY <1>4 DEF Request
  <2>2. Addressing'
    BY <1>4 DEF Request, Addressing
  <2> QED BY <1>1, <1>2, <2>1, <2>2
<1>5. CASE WaitBram
  <2>1. Addressing /\ ~Addressing' /\ leaving' = leaving
    BY <1>5 DEF WaitBram, Addressing
  <2> QED BY <1>1, <1>2, <2>1 DEF LeadSound
<1>6. ASSUME NEW tready \in BOOLEAN, FirstWord(tready) \/ SecondWord(tready)
      PROVE  /\ cut_through
             /\ arriving'.words + pauses' >=
                  LEAD + leaving'.words + (IF Addressing' THEN 1 ELSE 2)
  <2>1. Leave(tready) /\ ~Addressing
    BY <1>6 DEF FirstWord, SecondWord, FirstOfSegment, Addressing
  <2>2. /\ leaving'.pkt = leaving.pkt
        /\ leaving'.words = leaving.words \/ leaving'.words = leaving.words + 1
    BY <1>1, <2>1 DEF Leave, Nobody
  <2>3. ~Addressing'
    BY <1>6 DEF FirstWord, SecondWord, FirstOfSegment, AfterFirstWord, Addressing
  <2> QED BY <1>1, <1>2, <2>1, <2>2, <2>3 DEF LeadSound
<1> QED BY <1>3, <1>4, <1>5, <1>6 DEF Next, Removal

(* The end of the packet that leaves: it does not move below the next word *)
(* but one.                                                                *)
LEMMA Ends ==
  ASSUME StorageInv, Next, ~EARLY_TRAFFIC, PausesFit, leaving.pkt # NoPkt
  PROVE  LET p == leaving.pkt
             n == leaving.words + 1
         IN  /\ p \in Pkts /\ p \in Inside /\ n \in Nat /\ leaving.words \in Nat
             /\ length[p] \in Nat /\ length'[p] \in Nat
             /\ p = arriving'.pkt => p = arriving.pkt /\ length'[p] = 0
             /\ p = arriving.pkt => length[p] = 0
             /\ p # arriving.pkt => n <= length[p] /\ length'[p] = length[p] /\ length[p] >= 2
             /\ p = arriving.pkt /\ p # arriving'.pkt => n + 2 <= length'[p]
<1> DEFINE p == leaving.pkt
           n == leaving.words + 1
<1>1. InsertionMoves /\ TakingMoves /\ WritingMoves
  BY InsertionEffect
<1>2. /\ p \in Pkts /\ leaving.words \in Nat /\ n \in Nat
      /\ InputShape /\ InputSound /\ OutputShape /\ FirstSound /\ SecondSound
  BY DEF StorageInv, MetaInv, OutputSound
<1>3. p \in Inside
  BY DEF Inside
<1>4. length[p] \in Nat /\ length'[p] \in Nat
  BY <1>1, <1>2 DEF StorageInv, SegTypes, InsertionMoves
<1>5. p = arriving.pkt => length[p] = 0
  BY <1>2 DEF InputShape, InputSound
<1>6. p = arriving'.pkt => p = arriving.pkt /\ length'[p] = 0
  BY <1>1, <1>3, InsideMoves DEF WritingMoves
<1>7. ASSUME p # arriving.pkt
      PROVE  n <= length[p] /\ length'[p] = length[p] /\ length[p] >= 2
  <2>1. length'[p] = length[p] /\ length[p] >= 2
    BY <1>2, <1>3, <1>7, InsideMoves DEF InputSound
  <2>2. CASE rfsm = "WAIT_BOTH_BRAM"
    BY <1>2, <1>4, <2>1, <2>2 DEF OutputShape
  <2>3. CASE rfsm = "WAIT_SEG_BRAM"
    BY <1>2, <1>7, <2>1, <2>3 DEF FirstSound, FirstOfSegment
  <2>4. CASE rfsm = "WRITE_OUT_WORD_TWO"
    BY <1>2, <1>7, <2>1, <2>4 DEF SecondSound
  <2> QED BY <1>2, <2>2, <2>3, <2>4 DEF OutputShape
<1>8. ASSUME p = arriving.pkt, p # arriving'.pkt
      PROVE  n + 2 <= length'[p]
  <2>1. ifsm # "START_WORD"
    BY <1>2, <1>8 DEF InputShape
  <2>2. ifsm' = "START_WORD"
    BY <1>1, <1>8, <2>1 DEF TakingMoves, InsertionMoves, meta_fl_rd_en
  <2>3. OpenNum <= length'[p]
    BY <1>1, <1>8, <2>1, <2>2 DEF WritingMoves
  <2> QED BY <1>2, <1>4, <1>8, <2>3, Ahead
<1> QED BY <1>2, <1>3, <1>4, <1>5, <1>6, <1>7, <1>8

-----------------------------------------------------------------------------
(* The insertion machine keeps what it relies on.                          *)
LEMMA InputStep ==
  ASSUME StorageInv, Next, ~EARLY_TRAFFIC, PausesFit
  PROVE  SegTypes' /\ InputShape' /\ InputSound'
<1>1. InsertionMoves /\ TakingMoves /\ WritingMoves /\ RemovalMoves
  BY InsertionEffect, RemovalEffect
<1>2. SegTypes'
  <2>1. cut_through' \in CUT_THROUGH
    BY DEF Next, StorageInv, SegTypes
  <2> QED BY <1>1, <2>1, SegListMoves, OwnersMove, PauseMoves
          DEF SegTypes, InsertionMoves, RemovalMoves
<1>3. ~Filling' /\ ifsm' # "WORD_TWO" => meta_fl' # <<>>
  <2>1. /\ meta_fl \in Seq(Ptrs) /\ meta_fl' \in Seq(Ptrs)
        /\ Len(meta_fl') = Len(meta_fl) - (IF meta_fl_rd_en THEN 1 ELSE 0)
                              + (IF Filling \/ meta_fl_wr_en THEN 1 ELSE 0)
    BY ListMoves DEF StorageInv, MetaInv, ListSound
  <2>2. ifsm' # "WORD_TWO" => ~meta_fl_rd_en
    BY DEF meta_fl_rd_en
  <2>3. ~Filling /\ ifsm' # "WORD_TWO" => meta_fl # <<>>
    <3>1. CASE ifsm # "WORD_TWO"
      BY <3>1 DEF StorageInv, InputShape
    <3>2. CASE ifsm = "WORD_TWO"
      BY <3>2 DEF Next, Insertion, NoArrival, insVars, StartWord, WordOne, WordTwo, s_axis_pkt_tready
    <3> QED BY <3>1, <3>2
  <2>4. Len(meta_fl) \in Nat /\ (meta_fl # <<>> => Len(meta_fl) > 0)
        /\ (Len(meta_fl') > 0 => meta_fl' # <<>>)
    <3>1. \A f \in Seq(Ptrs) : Len(f) \in Nat /\ (f # <<>> <=> Len(f) > 0)
      OBVIOUS
    <3> QED BY <2>1, <3>1
  <2>5. ASSUME ~Filling', ifsm' # "WORD_TWO"
        PROVE  Len(meta_fl') > 0
    <3>1. CASE Filling
      BY <2>1, <2>2, <2>4, <2>5, <3>1
    <3>2. CASE ~Filling
      BY <2>1, <2>2, <2>3, <2>4, <2>5, <3>2
    <3> QED BY <3>1, <3>2
  <2> QED BY <2>4, <2>5
<1>4. InputShape'
  BY <1>1, <1>3 DEF InputShape, InsertionMoves
<1>5. ASSUME ifsm' # "START_WORD"
      PROVE  /\ cur_seg_ptr' \in Ptrs /\ owner'[cur_seg_ptr'] = arriving'.pkt
             /\ \/ leaving'.pkt = arriving'.pkt
                \/ \E w \in waiting' : w.pkt = arriving'.pkt
  <2>1. CASE meta_fl_rd_en
    <3>1. seg_fl_rd_en
      BY <2>1 DEF seg_fl_rd_en
    <3> QED BY <1>1, <2>1, <3>1, OwnersMove, InsideMoves DEF TakingMoves
  <2>2. CASE ~meta_fl_rd_en
    <3>1. /\ ifsm # "START_WORD" /\ arriving'.pkt = arriving.pkt
          /\ ~seg_fl_rd_en => cur_seg_ptr' = cur_seg_ptr
      BY <1>1, <1>5, <2>2 DEF TakingMoves
    <3>2. arriving.pkt # NoPkt
      BY <3>1 DEF StorageInv, InputShape
    <3>3. leaving'.pkt = arriving.pkt \/ \E w \in waiting' : w.pkt = arriving.pkt
      <4>1. CASE leaving.pkt = arriving.pkt
        BY <1>1, <3>2, <4>1 DEF RemovalMoves
      <4>2. ASSUME NEW w \in waiting, w.pkt = arriving.pkt
            PROVE  leaving'.pkt = arriving.pkt \/ \E v \in waiting' : v.pkt = arriving.pkt
        BY <4>2, InsideMoves
      <4> QED BY <3>1, <4>1, <4>2 DEF StorageInv, InputSound
    <3>4. cur_seg_ptr \in Ptrs /\ owner[cur_seg_ptr] = arriving.pkt
      BY <3>1 DEF StorageInv, InputSound
(* The open segment is above the one given back. *)
    <3>5. ~Returned(cur_seg_ptr)
      <4> SUFFICES ASSUME Returned(cur_seg_ptr) PROVE FALSE
        OBVIOUS
      <4>1. leaving.pkt = arriving.pkt /\ Num[cur_seg_ptr] = Low[leaving.pkt]
        BY <3>4, KeepHolds
      <4>2. Num[cur_seg_ptr] = OpenNum
        BY <3>1, <3>4 DEF Num, Open
      <4>3. leaving.words + 4 <= OpenNum /\ leaving.words \in Nat /\ OpenNum \in Nat
        BY <3>2, <4>1, Ahead DEF Returned, seg_fl_wr_en, FirstOfSegment, Addressing
      <4>4. Low[leaving.pkt] <= leaving.words + 3
        BY <3>2, <4>1, <4>3 DEF Low, StorageInv, MetaInv
      <4> QED BY <4>1, <4>2, <4>3, <4>4
    <3>6. owner'[cur_seg_ptr] = arriving.pkt
      BY <3>2, <3>4, <3>5, OwnersMove
    <3> QED BY <1>1, <3>1, <3>2, <3>3, <3>4, <3>6, OwnersMove DEF TakingMoves
  <2> QED BY <2>1, <2>2
<1>6. \A q \in Inside : q # arriving'.pkt /\ (q # arriving.pkt => length[q] >= 2) => length'[q] >= 2
  <2> SUFFICES ASSUME NEW q \in Inside, q # arriving'.pkt, q # arriving.pkt => length[q] >= 2
               PROVE  length'[q] >= 2
    OBVIOUS
  <2>1. CASE q # arriving.pkt
    BY <2>1, InsideMoves
  <2>2. CASE q = arriving.pkt
    <3>1. ifsm # "START_WORD" /\ ifsm' = "START_WORD"
      BY <1>1, <2>2, InsideMoves DEF StorageInv, InputShape, InsertionMoves, TakingMoves,
                                     meta_fl_rd_en
    <3> QED BY <1>1, <2>2, <3>1 DEF WritingMoves
  <2> QED BY <2>1, <2>2
<1>7. ASSUME leaving'.pkt # NoPkt, arriving'.pkt # leaving'.pkt
      PROVE  length'[leaving'.pkt] >= 2
  <2>1. leaving'.pkt \in Inside
    BY <1>7, InsideMoves
  <2>2. leaving'.pkt # arriving.pkt => length[leaving'.pkt] >= 2
    <3>1. CASE leaving.pkt = NoPkt
      BY <1>1, <1>7, <2>1, <3>1 DEF RemovalMoves, StorageInv, InputSound
    <3>2. CASE leaving.pkt # NoPkt
      BY <1>1, <1>7, <3>2 DEF RemovalMoves, StorageInv, InputSound
    <3> QED BY <3>1, <3>2
  <2> QED BY <1>6, <1>7, <2>1, <2>2
<1>8. ASSUME NEW w \in waiting', w.pkt # arriving'.pkt
      PROVE  length'[w.pkt] >= 2
  <2>1. w \in waiting /\ w.pkt \in Inside
    BY <1>8, InsideMoves
  <2>2. w.pkt # arriving.pkt => length[w.pkt] >= 2
    BY <2>1 DEF StorageInv, InputSound
  <2> QED BY <1>6, <1>8, <2>1, <2>2
<1>9. InputSound'
  <2>1. ifsm' # "START_WORD" => length'[arriving'.pkt] = 0
    BY <1>1 DEF InsertionMoves, WritingMoves
  <2> QED BY <1>5, <1>7, <1>8, <2>1 DEF InputSound
<1> QED BY <1>2, <1>4, <1>9

(* The packets that wait keep their first segment and their meta data.     *)
LEMMA WaitingStep ==
  ASSUME StorageInv, Next, ~EARLY_TRAFFIC, PausesFit
  PROVE  WaitingSound'
<1>1. TakingMoves /\ WaitingSound /\ SegTypes /\ MetaInv
  BY InsertionEffect DEF StorageInv
<1>2. \A x \in Ptrs : x \in SegPtrs
  BY PtrFacts
<1> SUFFICES ASSUME NEW w \in waiting'
             PROVE  /\ w.seg \in Ptrs /\ owner'[w.seg] = w.pkt /\ Num'[w.seg] = 1
                    /\ meta_ram'[w.meta] = w.pkt
  BY DEF WaitingSound, Holds
<1>3. CASE w \in waiting
  <2>1. w.pkt # leaving.pkt /\ w.pkt \in Pkts /\ w.meta \in Ptrs /\ Lacks(meta_fl, w.meta)
    BY <1>1, <1>3 DEF MetaInv, WaitingApart
  <2>2. w.seg \in Ptrs /\ owner'[w.seg] = w.pkt /\ Num'[w.seg] = 1
    BY <1>1, <1>3, <2>1, KeepHolds DEF WaitingSound
  <2>3. meta_fl_rd_en => Head(meta_fl) # w.meta
    BY <1>1, <2>1, ListMoves
  <2>4. meta_ram'[w.meta] = meta_ram[w.meta]
    BY <1>1, <1>2, <2>1, <2>3 DEF TakingMoves, SegTypes
  <2> QED BY <1>1, <1>3, <2>2, <2>4 DEF WaitingSound
<1>4. CASE w \notin waiting
  <2>1. /\ meta_fl_rd_en /\ seg_fl_rd_en /\ w.pkt = arriving'.pkt
        /\ w.seg = Head(seg_fl) /\ w.meta = Head(meta_fl)
    BY <1>4, InsideMoves DEF seg_fl_rd_en
  <2>2. Head(meta_fl) \in Ptrs
    BY <1>1, <2>1, ListMoves
  <2>3. meta_ram'[w.meta] = w.pkt
    BY <1>1, <1>2, <2>1, <2>2 DEF TakingMoves, SegTypes
  <2>4. w.seg \in Ptrs /\ owner'[w.seg] = w.pkt /\ Num'[w.seg] = 1
    BY <1>1, <2>1, OwnersMove DEF TakingMoves
  <2> QED BY <2>3, <2>4
<1> QED BY <1>3, <1>4

(* The number of a segment just taken follows those of its packet.         *)
LEMMA Fresh ==
  ASSUME StorageInv, Next, ~EARLY_TRAFFIC, PausesFit, seg_fl_rd_en
  PROVE  /\ OpenNum' \in Nat /\ Odd(OpenNum') /\ arriving'.pkt # NoPkt
         /\ \A s \in Ptrs : owner[s] = arriving'.pkt => /\ Num[s] + 2 <= OpenNum'
                                                        /\ Num[s] \in Nat
<1>1. InsertionMoves /\ TakingMoves /\ SegTypes
  BY InsertionEffect DEF StorageInv
<1>2. arriving'.pkt # NoPkt
  BY <1>1 DEF InsertionMoves, TakingMoves
<1>3. \A s \in Ptrs : owner[s] # NoPkt =>
        owner[s] \in Inside /\ Num[s] \in Nat /\ Num[s] <= High[owner[s]]
  BY DEF StorageInv, SegmentsSound
<1>4. CASE meta_fl_rd_en
  <2>1. OpenNum' = 1 /\ arriving'.pkt \notin Inside
    BY <1>1, <1>4 DEF TakingMoves
  <2> QED BY <1>2, <1>3, <2>1, OddFacts
<1>5. CASE ~meta_fl_rd_en
  <2>1. /\ ifsm # "START_WORD" /\ arriving'.pkt = arriving.pkt
        /\ OpenNum' = OpenNum + 2
    BY <1>1, <1>5 DEF TakingMoves
  <2>2. OpenNum \in Nat /\ Odd(OpenNum)
    <3>1. arriving.words \in Nat /\ InputShape
      BY DEF StorageInv, SegTypes
    <3>2. CASE ifsm = "WORD_TWO"
      BY <3>1, <3>2 DEF InputShape, OpenNum
    <3>3. CASE ifsm = "WORD_ONE"
      <4>1. ~Odd(arriving.words) /\ OpenNum = arriving.words + 1
        BY <3>1, <3>3 DEF InputShape, OpenNum
      <4> QED BY <3>1, <4>1, OddFacts
    <3> QED BY <2>1, <3>1, <3>2, <3>3 DEF InputShape
  <2>3. High[arriving.pkt] = OpenNum
    BY <1>1, <1>2, <2>1 DEF High, SegTypes
  <2> QED BY <1>2, <1>3, <2>1, <2>2, <2>3, OddFacts
<1> QED BY <1>4, <1>5

(* No two segments of a packet have the same number.                       *)
LEMMA NumbersStep ==
  ASSUME StorageInv, Next, ~EARLY_TRAFFIC, PausesFit
  PROVE  NumbersApart'
<1> SUFFICES ASSUME NEW s \in Ptrs, NEW t \in Ptrs, owner'[s] # NoPkt,
                    owner'[s] = owner'[t], Num'[s] = Num'[t]
             PROVE  s = t
  BY DEF NumbersApart
<1>1. ASSUME NEW x \in Ptrs, owner'[x] # NoPkt
      PROVE  \/ seg_fl_rd_en /\ x = Head(seg_fl) /\ owner'[x] = arriving'.pkt
                /\ Num'[x] = OpenNum'
             \/ owner[x] = owner'[x] /\ Num'[x] = Num[x]
  BY <1>1, OwnersMove
<1>2. ASSUME NEW x \in Ptrs, NEW y \in Ptrs, owner'[x] = owner'[y],
             seg_fl_rd_en, owner'[x] = arriving'.pkt, Num'[x] = OpenNum',
             owner[y] = owner'[y], Num'[y] = Num[y]
      PROVE  Num'[x] # Num'[y]
  BY <1>2, Fresh
<1>3. NumbersApart
  BY DEF StorageInv
<1> QED BY <1>1, <1>2, <1>3 DEF NumbersApart

(* What is known of the segments of the packets inside.                    *)
LEMMA SegmentStep ==
  ASSUME StorageInv, Next, ~EARLY_TRAFFIC, PausesFit
  PROVE  SegmentsSound'
<1>1. InsertionMoves /\ TakingMoves /\ WritingMoves /\ RemovalMoves
  BY InsertionEffect, RemovalEffect
<1>2. /\ SegTypes /\ InputShape /\ InputSound /\ SegmentsSound /\ NumbersApart
      /\ \A x \in Ptrs : x \in SegPtrs
  BY PtrFacts DEF StorageInv
<1>3. /\ High' = [p \in Pkts |-> IF p = arriving'.pkt THEN OpenNum' ELSE length'[p]]
      /\ High = [p \in Pkts |-> IF p = arriving.pkt THEN OpenNum ELSE length[p]]
  BY DEF High
<1> SUFFICES ASSUME NEW s \in Ptrs, owner'[s] # NoPkt
             PROVE  /\ owner'[s] \in Inside'
                    /\ Num'[s] \in Nat /\ Odd(Num'[s])
                    /\ Low'[owner'[s]] <= Num'[s] /\ Num'[s] <= High'[owner'[s]]
                    /\ s \notin Open' => Written(seg_ram[s], owner[s], Num[s])'
  BY DEF SegmentsSound
<1> DEFINE q == owner'[s]
<1>4. CASE seg_fl_rd_en /\ s = Head(seg_fl)
  <2>1. s \in Open' /\ Num'[s] = OpenNum' /\ q = arriving'.pkt
    BY <1>4, OwnersMove
  <2>2. OpenNum' \in Nat /\ Odd(OpenNum') /\ OpenNum' >= 1 /\ q \in Pkts
    BY <1>1, <1>4, <2>1, Fresh, OddFacts DEF InsertionMoves
  <2>3. Low'[q] <= OpenNum' /\ High'[q] = OpenNum'
    <3>1. High'[q] = OpenNum'
      BY <1>3, <2>1, <2>2
    <3>2. CASE leaving'.pkt # q \/ leaving.pkt = NoPkt
      <4>1. q # NoPkt
        BY <2>2, NoPktAssumption
      <4>2. Low'[q] = 1
        <5> HIDE DEF q
        <5> QED BY <1>1, <2>2, <3>2, <4>1 DEF RemovalMoves
      <4> QED BY <2>2, <3>1, <4>2
    <3>3. CASE leaving'.pkt = q /\ leaving.pkt # NoPkt
      <4>1. /\ leaving.pkt = q /\ q = arriving.pkt /\ ~meta_fl_rd_en
            /\ Low'[q] = Low[q] + Back
        BY <1>1, <2>1, <2>2, <3>3, InsideMoves, NoPktAssumption DEF RemovalMoves
      <4>2. ifsm # "START_WORD" /\ OpenNum' = OpenNum + 2
        BY <1>1, <1>4, <4>1 DEF TakingMoves
      <4>3. Low[q] <= OpenNum /\ Low[q] \in Nat /\ OpenNum \in Nat
        <5>1. /\ cur_seg_ptr \in Ptrs /\ owner[cur_seg_ptr] = q
              /\ Num[cur_seg_ptr] = OpenNum
          BY <1>2, <4>1, <4>2 DEF InputSound, Num, Open
        <5> QED BY <1>1, <1>2, <3>3, <4>1, <5>1 DEF SegmentsSound, RemovalMoves
      <4> QED BY <3>1, <4>1, <4>2, <4>3 DEF Back
    <3> QED BY <3>1, <3>2, <3>3
  <2>4. q \in Inside'
    BY <2>1, <2>2, NoPktAssumption DEF Inside
  <2> QED BY <2>1, <2>2, <2>3, <2>4
<1>5. CASE ~(seg_fl_rd_en /\ s = Head(seg_fl))
  <2>1. /\ owner[s] = q /\ Num'[s] = Num[s] /\ (s \in Open' => s \in Open)
        /\ ~Returned(s) /\ q # NoPkt
    BY <1>5, OwnersMove
  <2>2. /\ q \in Inside /\ Num[s] \in Nat /\ Odd(Num[s]) /\ q \in Pkts
        /\ Low[q] <= Num[s] /\ Num[s] <= High[q] /\ High[q] \in Nat /\ Low[q] \in Nat
        /\ s \notin Open => Written(seg_ram[s], q, Num[s])
    <3>1. /\ q \in Inside /\ Num[s] \in Nat /\ Odd(Num[s])
          /\ Low[q] <= Num[s] /\ Num[s] <= High[q]
          /\ s \notin Open => Written(seg_ram[s], q, Num[s])
      BY <1>2, <2>1 DEF SegmentsSound
    <3>2. q \in Pkts
      BY <3>1, InsideMoves
    <3>3. High[q] \in Nat
      BY <1>2, <1>3, <3>2 DEF SegTypes, OpenNum
    <3>4. Low[q] \in Nat
      BY <1>1, <3>2, NoPktAssumption DEF RemovalMoves, Low
    <3> QED BY <3>1, <3>2, <3>3, <3>4
  <2> HIDE DEF q
(* Its number stays above those given back. *)
  <2>3. q = leaving.pkt => Low[q] + Back <= Num[s]
    <3>1. ASSUME q = leaving.pkt, seg_fl_wr_en
          PROVE  Low[q] + 2 <= Num[s]
      <4>1. /\ rfsm_cur_seg_ptr \in Ptrs /\ owner[rfsm_cur_seg_ptr] = q
            /\ Num[rfsm_cur_seg_ptr] = Low[q]
        BY <1>1, <3>1 DEF RemovalMoves, Holds
      <4>2. s # rfsm_cur_seg_ptr
        BY <2>1, <3>1 DEF Returned
      <4>3. Num[s] # Low[q]
        BY <1>2, <2>1, <4>1, <4>2 DEF NumbersApart
      <4>4. Odd(Low[q])
        BY <1>2, <2>1, <4>1 DEF SegmentsSound
      <4> QED BY <2>2, <4>3, <4>4, OddFacts
    <3> QED BY <2>2, <3>1 DEF Back
  <2>4. Low'[q] <= Num[s]
    <3>1. CASE q = leaving.pkt /\ leaving'.pkt = q
      BY <1>1, <2>1, <2>3, <3>1 DEF RemovalMoves
    <3>2. CASE q # leaving'.pkt
      BY <1>1, <2>2, <3>2, OddFacts DEF RemovalMoves
    <3>3. CASE q # leaving.pkt /\ leaving'.pkt = q
      BY <1>1, <2>1, <2>2, <3>3, OddFacts DEF RemovalMoves
    <3> QED BY <3>1, <3>2, <3>3
  <2>5. Num[s] <= High'[q]
    <3>1. CASE q = arriving'.pkt
      <4>1. q = arriving.pkt /\ ~meta_fl_rd_en
        BY <2>1, <2>2, <3>1, InsideMoves
      <4>2. OpenNum' = OpenNum \/ OpenNum' = OpenNum + 2
        BY <1>1, <2>1, <3>1, <4>1 DEF TakingMoves, InsertionMoves
      <4>3. High[q] = OpenNum /\ High'[q] = OpenNum'
        BY <1>3, <2>2, <3>1, <4>1
      <4> QED BY <2>2, <4>2, <4>3
    <3>2. CASE q # arriving'.pkt /\ q = arriving.pkt
      <4>1. ifsm # "START_WORD" /\ ifsm' = "START_WORD"
        BY <1>1, <1>2, <2>1, <2>2, <3>2, InsideMoves
           DEF InputShape, InsertionMoves, TakingMoves, meta_fl_rd_en
      <4>2. OpenNum <= length'[q] /\ length'[q] \in Nat
        BY <1>1, <2>2, <3>2, <4>1 DEF WritingMoves, InsertionMoves
      <4>3. High[q] = OpenNum /\ High'[q] = length'[q]
        BY <1>3, <2>2, <3>2
      <4> QED BY <2>2, <4>2, <4>3
    <3>3. CASE q # arriving'.pkt /\ q # arriving.pkt
      <4>1. High[q] = length[q] /\ High'[q] = length'[q]
        BY <1>3, <2>2, <3>3
      <4>2. length'[q] = length[q]
        BY <2>2, <3>3, InsideMoves
      <4> QED BY <2>2, <4>1, <4>2
    <3> QED BY <3>1, <3>2, <3>3
(* Its packet is inside as long as the segment is taken. *)
  <2>6. q \in Inside'
    <3>1. CASE \E w \in waiting : w.pkt = q
      BY <2>1, <3>1, InsideMoves DEF Inside
    <3>2. CASE q = arriving.pkt
      <4>1. \/ \E w \in waiting : w.pkt = q
            \/ leaving.pkt = q
        BY <1>2, <2>1, <3>2 DEF InputSound, InputShape
      <4>2. leaving.pkt = q => leaving'.pkt = q
        BY <1>1, <2>1, <3>2 DEF RemovalMoves
      <4> QED BY <2>1, <3>1, <4>1, <4>2 DEF Inside
    <3>3. CASE q = leaving.pkt
      <4>1. CASE leaving'.pkt = q
        BY <2>1, <4>1 DEF Inside
      <4>2. CASE leaving'.pkt # q
        <5>1. Low[q] + Back > length[q] /\ q # arriving.pkt
          BY <1>1, <2>1, <3>3, <4>2 DEF RemovalMoves
        <5>2. High[q] = length[q]
          BY <1>3, <2>2, <5>1
        <5>3. Low[q] + Back \in Nat
          BY <2>2 DEF Back
        <5> QED BY <2>2, <2>3, <3>3, <5>1, <5>2, <5>3
      <4> QED BY <4>1, <4>2
    <3> QED BY <2>2, <3>1, <3>2, <3>3 DEF Inside
  <2>7. ASSUME s \notin Open'
        PROVE  LET g == seg_ram'[s]
                   n == Num[s]
               IN  /\ Cut(g, q, n, IF q = arriving'.pkt THEN n + 2 ELSE length'[q])
                   /\ g.next # null_seg_ptr =>
                        g.next \in Ptrs /\ owner'[g.next] = q /\ Num'[g.next] = n + 2
(* A segment written earlier. *)
    <3>1. CASE s \notin Open
      <4>1. seg_ram'[s] = seg_ram[s]
        BY <1>1, <1>2, <3>1 DEF WritingMoves
      <4>2. q = arriving.pkt => Num[s] + 2 <= OpenNum
        <5> SUFFICES ASSUME q = arriving.pkt PROVE Num[s] + 2 <= OpenNum
          OBVIOUS
        <5>1. /\ ifsm # "START_WORD" /\ Open = {cur_seg_ptr} /\ cur_seg_ptr \in Ptrs
              /\ owner[cur_seg_ptr] = q /\ Num[cur_seg_ptr] = OpenNum
          BY <1>2, <2>1 DEF InputShape, InputSound, Open, Num
        <5>2. OpenNum # Num[s]
          BY <1>2, <2>1, <3>1, <5>1 DEF NumbersApart
        <5>3. Odd(OpenNum) /\ OpenNum \in Nat
          BY <1>2, <2>1, <5>1 DEF SegmentsSound
        <5>4. High[q] = OpenNum
          BY <1>3, <2>2
        <5> QED BY <2>2, <5>2, <5>3, <5>4, OddFacts
      <4>3. q = leaving.pkt => Num[s] + 2 # Low[q] \/ ~seg_fl_wr_en
        BY <2>2
      <4>4. Written(seg_ram[s], q, Num[s])
        BY <2>2, <3>1
      <4> QED BY <2>2, <4>1, <4>2, <4>3, <4>4, KeepWritten
(* The segment written now. *)
    <3>2. CASE s \in Open
      <4>1. /\ s = cur_seg_ptr /\ ifsm # "START_WORD" /\ Num[s] = OpenNum
            /\ q = arriving.pkt
        BY <1>2, <2>1, <3>2 DEF Open, Num, InputSound
      <4>2. seg_fl_rd_en \/ ifsm' = "START_WORD"
        BY <1>1, <2>7, <4>1 DEF TakingMoves, Open
      <4>3. CASE seg_fl_rd_en
        <5>1. /\ ~meta_fl_rd_en /\ arriving'.pkt = q /\ OpenNum' = OpenNum + 2
          BY <1>1, <4>1, <4>3 DEF TakingMoves, meta_fl_rd_en
        <5>2. Cut(seg_ram'[s], q, Num[s], Num[s] + 2) /\ seg_ram'[s].next = Head(seg_fl)
          BY <1>1, <4>1, <4>3 DEF WritingMoves
        <5>3. LET h == Head(seg_fl) IN h \in Ptrs /\ owner'[h] = q /\ Num'[h] = Num[s] + 2
          BY <4>1, <4>3, <5>1, OwnersMove
        <5> QED BY <5>1, <5>2, <5>3
      <4>4. CASE ~seg_fl_rd_en
        <5>1. arriving'.pkt # q /\ ifsm' = "START_WORD"
          BY <1>1, <2>1, <4>2, <4>4 DEF InsertionMoves
        <5>2. Cut(seg_ram'[s], q, Num[s], length'[q]) /\ length'[q] <= Num[s] + 1
          BY <1>1, <4>1, <4>4, <5>1 DEF WritingMoves
        <5>3. length'[q] \in Nat
          BY <1>1, <2>2 DEF InsertionMoves
        <5>4. seg_ram'[s].next = null_seg_ptr
          BY <2>2, <5>2, <5>3 DEF Cut
        <5> QED BY <5>1, <5>2, <5>4
      <4> QED BY <4>3, <4>4
    <3> QED BY <3>1, <3>2
  <2>8. s \notin Open' => Written(seg_ram[s], owner[s], Num[s])'
    <3>1. ASSUME NEW n, n = Num'[s]
          PROVE  Size(owner[s], Num[s])' = IF q = arriving'.pkt THEN n + 2 ELSE length'[q]
      BY <3>1 DEF Size, q
    <3> QED BY <2>1, <2>7, <3>1 DEF Written, Holds, q
  <2> QED BY <2>1, <2>2, <2>4, <2>5, <2>6, <2>8 DEF q
<1> QED BY <1>4, <1>5

-----------------------------------------------------------------------------
(* Behind the open segment nothing of a packet is written any more, and    *)
(* what was read there stays true.                                         *)
LEMMA LeavingKept ==
  ASSUME StorageInv, Next, ~EARLY_TRAFFIC, PausesFit,
         NEW p \in Pkts, p \in Inside
  PROVE  /\ \A a, n : Holds(a, p, n) /\ (p = arriving.pkt => n < OpenNum) =>
              /\ a \in Ptrs /\ a \notin Open /\ a \notin Open' /\ n \in Nat
              /\ seg_ram'[a] = seg_ram[a] /\ seg_ram[a] \in Record
              /\ Written(seg_ram[a], p, n)
         /\ \A g, n : /\ n \in Nat /\ Written(g, p, n)
                      /\ p = arriving.pkt => n + 2 <= OpenNum
                      /\ p = leaving.pkt => n + 2 # Low[p] \/ ~seg_fl_wr_en
              => /\ Cut(g, p, n, IF p = arriving'.pkt THEN n + 2 ELSE length'[p])
                 /\ g.next # null_seg_ptr =>
                      /\ Holds(g.next, p, n + 2)
                      /\ g.next \in Ptrs /\ owner'[g.next] = p /\ Num'[g.next] = n + 2
<1>1. p # NoPkt /\ (p = arriving.pkt => OpenNum \in Nat)
  BY InsideMoves DEF StorageInv, SegTypes, OpenNum
<1>2. ASSUME NEW a, NEW n, Holds(a, p, n), p = arriving.pkt => n < OpenNum
      PROVE  /\ a \in Ptrs /\ a \notin Open /\ a \notin Open' /\ n \in Nat
             /\ seg_ram'[a] = seg_ram[a] /\ seg_ram[a] \in Record
             /\ Written(seg_ram[a], p, n)
  <2>1. a \in Ptrs /\ owner[a] = p /\ Num[a] = n /\ a \in SegPtrs
    BY <1>2, PtrFacts DEF Holds
  <2>2. a \notin Open
    <3> SUFFICES ASSUME a \in Open PROVE FALSE
      OBVIOUS
    <3>1. p = arriving.pkt /\ Num[a] = OpenNum
      BY <2>1 DEF Open, Num, StorageInv, InputSound
    <3> QED BY <1>1, <1>2, <2>1, <3>1
  <2>3. a \notin Open'
    BY <1>1, <2>1, <2>2, OwnersMove
  <2>4. seg_ram'[a] = seg_ram[a]
    BY <2>1, <2>2, InsertionEffect DEF WritingMoves
  <2>5. seg_ram[a] \in Record
    BY <2>1 DEF StorageInv, SegTypes
  <2> QED BY <1>1, <2>1, <2>2, <2>3, <2>4, <2>5 DEF StorageInv, SegmentsSound
<1>3. ASSUME NEW g, NEW n \in Nat, Written(g, p, n),
             p = arriving.pkt => n + 2 <= OpenNum,
             p = leaving.pkt => n + 2 # Low[p] \/ ~seg_fl_wr_en
      PROVE  /\ Cut(g, p, n, IF p = arriving'.pkt THEN n + 2 ELSE length'[p])
             /\ g.next # null_seg_ptr =>
                  /\ Holds(g.next, p, n + 2)
                  /\ g.next \in Ptrs /\ owner'[g.next] = p /\ Num'[g.next] = n + 2
  <2>1. g.next # null_seg_ptr => Holds(g.next, p, n + 2)
    BY <1>3 DEF Written
  <2> QED BY <1>3, <2>1, KeepWritten
<1> QED BY <1>2, <1>3

LEMMA WrittenNext ==
  ASSUME NEW g, NEW p, NEW n, Cut(g, p, n, IF p = arriving'.pkt THEN n + 2 ELSE length'[p]),
         g.next # null_seg_ptr =>
           g.next \in Ptrs /\ owner'[g.next] = p /\ Num'[g.next] = n + 2,
         seg_dout' = g, leaving'.pkt = p, leaving'.words + 1 = n
  PROVE  Written(seg_dout, leaving.pkt, leaving.words + 1)'
<1>1. Size(leaving.pkt, leaving.words + 1)' = IF p = arriving'.pkt THEN n + 2 ELSE length'[p]
  BY DEF Size
<1> QED BY <1>1 DEF Written, Holds

(* What the output knows in the next cycle, by what it does in this one.   *)
LEMMA QuietStep ==
  ASSUME StorageInv, Next, NoRequest
  PROVE  OutputSound'
<1>1. OutputShape
  BY DEF StorageInv, OutputSound
<1>2. rfsm' = "WAIT_REQUEST" /\ leaving' = leaving /\ bram_rd_cycle_cnt' = 0
      /\ rfsm = "WAIT_REQUEST"
  BY DEF NoRequest
<1>3. ~FirstOfSegment'
  BY <1>2 DEF FirstOfSegment
<1> QED BY <1>1, <1>2, <1>3
        DEF OutputSound, OutputShape, ReadingSound, FirstSound, FirstMetaSound, SecondSound

LEMMA RequestStep ==
  ASSUME StorageInv, Next, ~EARLY_TRAFFIC, PausesFit, Request
  PROVE  OutputSound'
<1>1. OutputShape /\ WaitingSound /\ SegTypes /\ MetaInv
  BY DEF StorageInv, OutputSound
<1>2. PICK w \in waiting :
        /\ w.pkt = arriving.pkt => cut_through /\ arriving.words + pauses >= LEAD
        /\ ReadRams(w.seg, w.meta)
        /\ rfsm_cur_seg_ptr' = w.seg /\ rfsm_cur_meta_ptr' = w.meta
        /\ leaving' = [pkt |-> w.pkt, words |-> 0]
  BY DEF Request
<1>3. /\ rfsm' = "WAIT_BOTH_BRAM" /\ bram_rd_cycle_cnt' = 0
      /\ stalled' = 0 /\ ~free_list_written_r' /\ ~tlast_r'
  BY <1>1 DEF Request, OutputShape
<1>4. ~FirstOfSegment'
  BY <1>3 DEF FirstOfSegment
<1>5. /\ w.pkt \in Pkts /\ w.pkt \in Inside /\ w.pkt # NoPkt /\ w.pkt # leaving.pkt
      /\ w.meta \in Ptrs /\ Lacks(meta_fl, w.meta)
      /\ Holds(w.seg, w.pkt, 1) /\ meta_ram[w.meta] = w.pkt
  BY <1>1, InsideMoves DEF MetaInv, WaitingApart, WaitingSound
<1>6. seg_ram'[w.seg] = seg_ram[w.seg]
  <2>1. ASSUME w.pkt = arriving.pkt PROVE 1 < OpenNum
    <3>1. /\ arriving.words \in Nat /\ pauses \in Nat /\ pauses <= MAX_PAUSE
          /\ LEAD \in Nat /\ MAX_PAUSE \in Nat
      BY <1>1, ClientAssumption DEF SegTypes
    <3>2. arriving.words >= 2
      BY <1>2, <2>1, <3>1, ClientFits
    <3> QED BY <3>1, <3>2 DEF OpenNum
  <2> QED BY <1>2, <1>5, <2>1, LeavingKept
<1>7. w.seg \in Ptrs /\ owner'[w.seg] = w.pkt /\ Num'[w.seg] = 1
  BY <1>5, KeepHolds
<1>8. meta_ram'[w.meta] = w.pkt
  <2>1. TakingMoves /\ w.meta \in SegPtrs
    BY <1>5, InsertionEffect, PtrFacts
  <2>2. meta_fl_rd_en => Head(meta_fl) # w.meta
    BY <1>1, <1>5, ListMoves
  <2> QED BY <1>1, <1>5, <2>1, <2>2 DEF TakingMoves, SegTypes
<1>9. /\ seg_rd_addr' = w.seg /\ meta_rd_addr' = w.meta
      /\ seg_data' = seg_ram[w.seg] /\ meta_data' = meta_ram[w.meta]
  BY <1>2 DEF ReadRams
<1>10. ReadingSound'
  BY <1>2, <1>3, <1>5, <1>6, <1>7, <1>8, <1>9 DEF ReadingSound, Holds
<1>11. OutputShape'
  BY <1>2, <1>3, <1>5, <1>9 DEF OutputShape
<1> QED BY <1>3, <1>4, <1>10, <1>11
        DEF OutputSound, FirstSound, FirstMetaSound, SecondSound

LEMMA WaitBramStep ==
  ASSUME StorageInv, Next, ~EARLY_TRAFFIC, PausesFit, WaitBram
  PROVE  OutputSound'
<1> DEFINE p == leaving.pkt
           a == seg_rd_addr
           g == seg_ram[a]
<1>1. /\ OutputShape /\ ReadingSound /\ SegTypes /\ MetaInv /\ InputSound
      /\ rfsm = "WAIT_BOTH_BRAM" /\ bram_rd_cycle_cnt = 0
      /\ rfsm' = "WAIT_BOTH_BRAM" /\ bram_rd_cycle_cnt' = 1
      /\ leaving' = leaving /\ stalled' = 0
      /\ rfsm_cur_seg_ptr' = rfsm_cur_seg_ptr /\ rfsm_cur_meta_ptr' = rfsm_cur_meta_ptr
      /\ free_list_written_r' = free_list_written_r /\ tlast_r' = tlast_r
  BY DEF StorageInv, OutputSound, WaitBram
<1>2. /\ seg_rd_addr' = a /\ meta_rd_addr' = meta_rd_addr
      /\ seg_data' = seg_ram[a] /\ seg_dout' = seg_data
      /\ meta_data' = meta_ram[meta_rd_addr] /\ meta_dout' = meta_data
  BY DEF WaitBram, ReadRams
<1>3. /\ Holds(a, p, 1) /\ rfsm_cur_seg_ptr = a /\ seg_data = g
      /\ meta_data = p /\ meta_ram[meta_rd_addr] = p
      /\ ~free_list_written_r /\ ~tlast_r
      /\ leaving.words = 0 /\ meta_rd_addr = rfsm_cur_meta_ptr /\ p # NoPkt
  BY <1>1 DEF ReadingSound, OutputShape
<1>4. /\ p \in Pkts /\ p \in Inside
      /\ p = arriving.pkt => 3 <= OpenNum /\ OpenNum \in Nat
      /\ length'[p] \in Nat /\ (p # arriving'.pkt => 1 <= length'[p])
  <2>1. p = arriving.pkt => 3 <= OpenNum /\ OpenNum \in Nat
    BY <1>3, Ahead
  <2> QED BY <1>3, <2>1, Ends
<1>5. ~seg_fl_wr_en
  BY <1>1 DEF seg_fl_wr_en, FirstOfSegment
<1>6. FirstOfSegment'
  BY <1>1 DEF FirstOfSegment
<1>7. /\ a \in Ptrs /\ a \notin Open' /\ seg_ram'[a] = g /\ g \in Record
      /\ Written(g, p, 1)
  BY <1>3, <1>4, LeavingKept
<1>8. /\ Cut(g, p, 1, IF p = arriving'.pkt THEN 1 + 2 ELSE length'[p])
      /\ g.next # null_seg_ptr =>
           g.next \in Ptrs /\ owner'[g.next] = p /\ Num'[g.next] = 1 + 2
  <2> HIDE DEF p, g
  <2> QED BY <1>4, <1>5, <1>7, LeavingKept
<1>9. owner'[a] = p /\ Num'[a] = 1
  BY <1>3, <1>4, <1>5, KeepHolds
<1>10. Written(seg_dout, leaving.pkt, leaving.words + 1)'
  <2>1. seg_dout' = g /\ leaving'.pkt = p /\ leaving'.words + 1 = 1
    BY <1>1, <1>2, <1>3
  <2> HIDE DEF p, g
  <2> QED BY <1>7, <1>8, <2>1, WrittenNext
<1>12. FirstSound'
  BY <1>1, <1>2, <1>3, <1>4, <1>6, <1>7, <1>9, <1>10, OddFacts DEF FirstSound, Holds
<1>13. HoldsMeta /\ HoldsMeta'
  BY <1>1, <1>3 DEF HoldsMeta
<1>14. meta_rd_addr \in Ptrs /\ Lacks(meta_fl, meta_rd_addr)
  BY <1>1, <1>3, <1>13 DEF MetaInv, HeldApart
<1>15. meta_ram'[meta_rd_addr] = p
  <2>1. TakingMoves /\ meta_rd_addr \in SegPtrs
    BY <1>14, InsertionEffect, PtrFacts
  <2>2. meta_fl_rd_en => Head(meta_fl) # meta_rd_addr
    BY <1>1, <1>14, ListMoves
  <2> QED BY <1>1, <1>3, <2>1, <2>2 DEF TakingMoves, SegTypes
<1>16. FirstMetaSound'
  BY <1>1, <1>2, <1>3, <1>13, <1>14, <1>15 DEF FirstMetaSound
<1>17. OutputShape' /\ ReadingSound' /\ SecondSound'
  BY <1>1, <1>2, <1>3 DEF OutputShape, ReadingSound, SecondSound
<1> QED BY <1>12, <1>16, <1>17 DEF OutputSound

(* A word of the packet that leaves is on the bus.                         *)
LEMMA FirstWordKnows ==
  ASSUME StorageInv, Next, ~EARLY_TRAFFIC, PausesFit, FirstOfSegment
  PROVE  LET p == leaving.pkt
             n == leaving.words + 1
             next == seg_dout.next
             L == IF p = arriving'.pkt THEN n + 2 ELSE length'[p]
         IN  /\ p \in Pkts /\ p \in Inside /\ p # NoPkt
             /\ n \in Nat /\ length[p] \in Nat /\ length'[p] \in Nat
             /\ p = arriving.pkt => n + 3 <= OpenNum /\ OpenNum \in Nat
             /\ p # arriving'.pkt => n <= length'[p]
             /\ n = length[p] => length[p] >= 2
             /\ n # length[p] => n < L /\ (n + 1 >= L <=> n + 1 = length'[p])
                                 /\ (p # arriving'.pkt => n + 1 <= length'[p])
             /\ Cut(seg_dout, p, n, L)
             /\ next # null_seg_ptr =>
                   /\ Holds(next, p, n + 2)
                   /\ next \in Ptrs /\ owner'[next] = p /\ Num'[next] = n + 2
             /\ seg_fl_wr_en <=> stalled = 0
<1> DEFINE p == leaving.pkt
           n == leaving.words + 1
           L == IF p = arriving'.pkt THEN n + 2 ELSE length'[p]
<1>1. /\ m_axis_pkt_tvalid /\ FirstSound
      /\ p # NoPkt /\ ~Addressing
  BY OnTheBus DEF m_axis_pkt_tvalid, StorageInv, OutputSound, FirstOfSegment, Addressing
<1>2. /\ p \in Pkts /\ p \in Inside /\ leaving.words \in Nat
      /\ length[p] \in Nat /\ length'[p] \in Nat
      /\ p = arriving'.pkt => p = arriving.pkt /\ length'[p] = 0
      /\ p = arriving.pkt => length[p] = 0
      /\ p # arriving.pkt => n <= length[p] /\ length'[p] = length[p] /\ length[p] >= 2
      /\ p = arriving.pkt /\ p # arriving'.pkt => n + 2 <= length'[p]
  BY <1>1, Ends
<1>3. p = arriving.pkt => n + 3 <= OpenNum /\ OpenNum \in Nat
  BY <1>1, <1>2, Ahead
<1>4. /\ p # arriving'.pkt => n <= length'[p]
      /\ n = length[p] => length[p] >= 2
      /\ n # length[p] => n < L /\ (n + 1 >= L <=> n + 1 = length'[p])
                          /\ (p # arriving'.pkt => n + 1 <= length'[p])
  BY <1>2
<1>5. seg_fl_wr_en <=> stalled = 0
  BY <1>1 DEF FirstSound, seg_fl_wr_en
<1>6. stalled = 0 => Low[p] = n
  BY <1>2 DEF Low, FirstOfSegment
<1>7. n + 2 # Low[p] \/ ~seg_fl_wr_en
  BY <1>2, <1>5, <1>6
<1>8. Written(seg_dout, p, n) /\ n \in Nat /\ (p = arriving.pkt => n + 2 <= OpenNum)
  BY <1>1, <1>2, <1>3 DEF FirstSound
<1>9. /\ Cut(seg_dout, p, n, L)
      /\ seg_dout.next # null_seg_ptr =>
           /\ Holds(seg_dout.next, p, n + 2)
           /\ seg_dout.next \in Ptrs /\ owner'[seg_dout.next] = p /\ Num'[seg_dout.next] = n + 2
  <2> HIDE DEF p, n
  <2> QED BY <1>2, <1>7, <1>8, LeavingKept
<1> QED BY <1>1, <1>2, <1>3, <1>4, <1>5, <1>8, <1>9

(* The slot of the packet is taken again at the earliest after a cycle.    *)
LEMMA SlotKept ==
  ASSUME StorageInv, Next, ~EARLY_TRAFFIC, FirstOfSegment, rfsm = "WAIT_BOTH_BRAM", stalled <= 1
  PROVE  /\ meta_ram'[meta_rd_addr] = leaving.pkt
         /\ stalled = 0 /\ ifsm' = "START_WORD" => Head(meta_fl') # meta_rd_addr
<1>1. /\ MetaInv /\ FirstSound /\ FirstMetaSound /\ SegTypes /\ InputShape /\ OutputShape
  BY DEF StorageInv, OutputSound
<1>2. /\ meta_rd_addr \in Ptrs /\ meta_ram[meta_rd_addr] = leaving.pkt
      /\ stalled \in Nat /\ meta_rd_addr = rfsm_cur_meta_ptr
  BY <1>1 DEF FirstMetaSound, SegTypes, OutputShape
<1>3. stalled = 0 => Lacks(meta_fl, meta_rd_addr)
  BY <1>1, <1>2 DEF FirstMetaSound, MetaInv, HeldApart
<1>4. TakingMoves /\ meta_rd_addr \in SegPtrs
  BY <1>2, InsertionEffect, PtrFacts
<1>5. meta_fl_rd_en => Head(meta_fl) # meta_rd_addr
  <2>1. CASE stalled = 0
    BY <1>1, <1>3, <2>1, ListMoves
  <2>2. CASE stalled = 1
    BY <1>1, <2>2 DEF FirstMetaSound, meta_fl_rd_en
  <2> QED BY <1>2, <2>1, <2>2
<1>6. meta_ram'[meta_rd_addr] = leaving.pkt
  BY <1>1, <1>2, <1>4, <1>5 DEF TakingMoves, SegTypes
<1>7. ASSUME stalled = 0, ifsm' = "START_WORD"
      PROVE  Head(meta_fl') # meta_rd_addr
  <2>1. ~Filling
    BY <1>1 DEF MetaInv, FillingIsQuiet, FirstOfSegment
  <2>2. meta_fl # <<>> /\ ~meta_fl_rd_en
    <3>1. CASE ifsm # "WORD_TWO"
      BY <1>1, <1>7, <2>1, <3>1 DEF InputShape, meta_fl_rd_en
    <3>2. CASE ifsm = "WORD_TWO"
      BY <1>7, <3>2 DEF Next, Insertion, NoArrival, insVars, StartWord, WordOne, WordTwo,
                        s_axis_pkt_tready, meta_fl_rd_en
    <3> QED BY <3>1, <3>2
  <2>3. meta_fl' = meta_fl \o (IF meta_fl_wr_en THEN <<rfsm_cur_meta_ptr>> ELSE <<>>)
    BY <2>1, <2>2 DEF Next, FreeLists, Refilled
  <2>4. meta_fl \in Seq(Ptrs) /\ Len(meta_fl) > 0
    BY <1>1, <2>2 DEF MetaInv, ListSound
  <2>5. \A t \in Seq(Ptrs) : Head(meta_fl \o t) = meta_fl[1] /\ 1 \in 1 .. Len(meta_fl)
    BY <2>4
  <2>6. /\ rfsm_cur_meta_ptr \in Ptrs
        /\ (IF meta_fl_wr_en THEN <<rfsm_cur_meta_ptr>> ELSE <<>>) \in Seq(Ptrs)
    BY <1>2
  <2>7. Head(meta_fl') = meta_fl[1] /\ 1 \in 1 .. Len(meta_fl)
    BY <2>3, <2>5, <2>6
  <2> QED BY <1>3, <1>7, <2>7 DEF Lacks
<1> QED BY <1>6, <1>7

(* The word is not taken: the two stages of the RAM hold what was read     *)
(* while the segment may already be written again.                         *)
LEMMA FirstStallStep ==
  ASSUME StorageInv, Next, ~EARLY_TRAFFIC, PausesFit, MAX_STALL <= 4, FirstWord(FALSE)
  PROVE  OutputSound'
<1> DEFINE p == leaving.pkt
           n == leaving.words + 1
           a == seg_rd_addr
           g == seg_dout
<1>1. /\ OutputShape /\ FirstSound /\ FirstMetaSound /\ SegTypes /\ MetaInv
      /\ FirstOfSegment /\ m_axis_pkt_tvalid /\ MAX_STALL \in Nat
  BY ClientAssumption DEF StorageInv, OutputSound, FirstWord, m_axis_pkt_tvalid
<1>2. /\ stalled < MAX_STALL /\ stalled' = stalled + 1 /\ leaving' = leaving
      /\ tlast_r' = m_axis_pkt_tlast
      /\ rfsm' = rfsm /\ free_list_written_r'
      /\ rfsm_cur_seg_ptr' = g.next
      /\ rfsm_cur_meta_ptr' = rfsm_cur_meta_ptr
      /\ bram_rd_cycle_cnt' = IF rfsm = "WAIT_BOTH_BRAM" THEN 1 ELSE 0
  BY DEF FirstWord, Leave
<1>3. /\ seg_rd_addr' = a /\ meta_rd_addr' = meta_rd_addr
      /\ seg_data' = seg_ram[a] /\ seg_dout' = seg_data
      /\ meta_data' = meta_ram[meta_rd_addr] /\ meta_dout' = meta_data
  BY DEF FirstWord, ReadRams, NextAddr
<1>4. stalled \in Nat /\ stalled <= 3 /\ stalled' # 0
  BY <1>1, <1>2 DEF SegTypes
<1>5. /\ FirstOfSegment' /\ OutputShape'
      /\ rfsm \in {"WAIT_BOTH_BRAM", "WAIT_SEG_BRAM"}
  BY <1>1, <1>2, <1>3 DEF FirstOfSegment, OutputShape
<1>6. seg_dout' = g /\ g \in Record /\ a \in Ptrs /\ a \in SegPtrs
  BY <1>1, <1>3, <1>4, PtrFacts DEF FirstSound
<1>7. Written(seg_dout, leaving.pkt, leaving.words + 1)'
  <2>1. leaving'.pkt = p /\ leaving'.words + 1 = n
    BY <1>2
  <2>2. /\ Cut(g, p, n, IF p = arriving'.pkt THEN n + 2 ELSE length'[p])
        /\ g.next # null_seg_ptr =>
             g.next \in Ptrs /\ owner'[g.next] = p /\ Num'[g.next] = n + 2
    BY <1>1, FirstWordKnows
  <2> HIDE DEF p, n, g
  <2> QED BY <1>6, <2>1, <2>2, WrittenNext
<1>8. stalled' <= 1 => a \notin Open'
  <2> SUFFICES ASSUME stalled' <= 1 PROVE a \notin Open'
    OBVIOUS
  <2>1. stalled = 0
    BY <1>2, <1>4
  <2>2. Holds(a, p, n)
    BY <1>1, <2>1 DEF FirstSound
  <2>3. p \in Pkts /\ p \in Inside /\ (p = arriving.pkt => n < OpenNum)
    BY <1>1, FirstWordKnows
  <2> HIDE DEF p, n
  <2> QED BY <2>2, <2>3, LeavingKept
<1>9. stalled' <= 2 => seg_ram'[a] = g
  <2> SUFFICES ASSUME stalled' <= 2 PROVE seg_ram'[a] = g
    OBVIOUS
  <2>1. stalled <= 1
    BY <1>2, <1>4
  <2>2. a \notin Open /\ seg_ram[a] = g
    BY <1>1, <1>4, <2>1 DEF FirstSound
  <2> QED BY <1>6, <2>2, InsertionEffect DEF WritingMoves
<1>10. stalled' <= 3 => seg_data' = g
  BY <1>1, <1>2, <1>3, <1>4 DEF FirstSound
<1>11. tlast_r' => AtEnd'
  <2>1. m_axis_pkt_tlast <=> AtEnd
    BY <1>1, OnTheBus
  <2> QED BY <1>1, <1>2, <1>5, <1>6, <2>1 DEF AtEnd
<1>12. FirstSound'
  <2>1. Odd(n) /\ (p # arriving'.pkt => n <= length'[p])
    BY <1>1, FirstWordKnows DEF FirstSound
  <2> QED BY <1>2, <1>3, <1>4, <1>6, <1>7, <1>8, <1>9, <1>10, <1>11, <2>1 DEF FirstSound
<1>13. FirstMetaSound'
  <2> SUFFICES ASSUME rfsm = "WAIT_BOTH_BRAM"
               PROVE  /\ stalled' = 1 /\ ifsm' = "START_WORD" => Head(meta_fl') # meta_rd_addr
                      /\ stalled' <= 2 => meta_ram'[meta_rd_addr] = p
                      /\ stalled' <= 3 => meta_data' = p
                      /\ meta_rd_addr \in Ptrs
                      /\ meta_dout' = p
    BY <1>2, <1>3, <1>4 DEF FirstMetaSound
  <2>1. /\ meta_rd_addr \in Ptrs
        /\ stalled <= 2 => meta_ram[meta_rd_addr] = p
        /\ stalled <= 3 => meta_data = p
    BY <1>1 DEF FirstMetaSound
  <2>2. /\ stalled' = 1 => stalled = 0
        /\ stalled' <= 2 => stalled <= 1
        /\ stalled' <= 3 => stalled <= 2
        /\ stalled = 0 => stalled <= 1
    BY <1>2, <1>4
  <2>3. /\ stalled <= 1 => meta_ram'[meta_rd_addr] = p
        /\ stalled = 0 /\ ifsm' = "START_WORD" => Head(meta_fl') # meta_rd_addr
    BY <1>1, <2>2, SlotKept
  <2> QED BY <1>3, <1>4, <2>1, <2>2, <2>3
<1>14. ReadingSound' /\ SecondSound'
  BY <1>2, <1>5 DEF ReadingSound, SecondSound
<1> QED BY <1>5, <1>12, <1>13, <1>14 DEF OutputSound

(* The word is taken: the second one follows, or the packet is over.       *)
LEMMA FirstTakenStep ==
  ASSUME StorageInv, Next, ~EARLY_TRAFFIC, PausesFit, FirstWord(TRUE)
  PROVE  OutputSound'
<1> DEFINE p == leaving.pkt
           n == leaving.words + 1
           g == seg_dout
           L == IF p = arriving'.pkt THEN n + 2 ELSE length'[p]
<1>1. /\ OutputShape /\ FirstSound /\ InputSound
      /\ FirstOfSegment /\ m_axis_pkt_tvalid
  BY DEF StorageInv, OutputSound, FirstWord, m_axis_pkt_tvalid
<1>2. /\ p \in Pkts /\ p \in Inside /\ p # NoPkt
      /\ n \in Nat /\ length[p] \in Nat /\ length'[p] \in Nat
      /\ p = arriving.pkt => n + 2 < OpenNum
      /\ n # length[p] => n < L /\ (n + 1 >= L <=> n + 1 = length'[p])
                          /\ (p # arriving'.pkt => n + 1 <= length'[p])
      /\ n = length[p] => length[p] >= 2
      /\ Cut(g, p, n, L)
      /\ g.next # null_seg_ptr =>
            /\ Holds(g.next, p, n + 2)
            /\ g.next \in Ptrs /\ owner'[g.next] = p /\ Num'[g.next] = n + 2
      /\ leaving.words \in Nat
      /\ m_axis_pkt_tlast <=> AtEnd
      /\ AtEnd <=> n = length[p]
  <2>1. leaving.words \in Nat /\ (m_axis_pkt_tlast <=> AtEnd) /\ (AtEnd <=> n = length[p])
    BY <1>1, OnTheBus
  <2>2. p = arriving.pkt => n + 3 <= OpenNum /\ OpenNum \in Nat
    BY <1>1, FirstWordKnows
  <2>3. p = arriving.pkt => n + 2 < OpenNum
    BY <2>1, <2>2
  <2> QED BY <1>1, <2>1, <2>3, FirstWordKnows
<1>3. /\ tlast_r' = m_axis_pkt_tlast
      /\ leaving' = IF m_axis_pkt_tlast THEN Nobody
                    ELSE [leaving EXCEPT !.words = leaving.words + 1]
      /\ rfsm' = IF AtEnd THEN "WAIT_REQUEST" ELSE "WRITE_OUT_WORD_TWO"
      /\ rfsm_cur_seg_ptr' = g.next /\ word_two' = g.two
      /\ rfsm_cur_meta_ptr' = rfsm_cur_meta_ptr
      /\ bram_rd_cycle_cnt' = IF rfsm = "WAIT_BOTH_BRAM" THEN 1 ELSE 0
      /\ seg_rd_addr' = IF g.next # null_seg_ptr THEN g.next ELSE seg_rd_addr
      /\ seg_data' = seg_ram[seg_rd_addr']
  BY DEF FirstWord, Leave, AfterFirstWord, ReadRams, NextAddr
<1>4. ~FirstOfSegment'
  BY <1>3 DEF FirstOfSegment
<1>5. CASE AtEnd
  <2>1. leaving'.pkt = NoPkt /\ rfsm' = "WAIT_REQUEST"
    BY <1>2, <1>3, <1>5 DEF Nobody
  <2>2. rfsm # "WAIT_BOTH_BRAM"
    BY <1>1, <1>2, <1>5 DEF OutputShape
  <2>3. OutputShape'
    BY <1>3, <2>1, <2>2 DEF OutputShape
  <2> QED BY <1>4, <2>1, <2>3 DEF OutputSound, ReadingSound, FirstSound, FirstMetaSound, SecondSound
<1>6. CASE ~AtEnd
  <2>1. /\ leaving'.pkt = p /\ leaving'.words = n /\ rfsm' = "WRITE_OUT_WORD_TWO"
        /\ ~tlast_r'
    <3>1. leaving \in [pkt : Pkts \cup {NoPkt}, words : Nat]
      BY DEF StorageInv, MetaInv
    <3> QED BY <1>2, <1>3, <1>6, <3>1
  <2>2. OutputShape'
    BY <1>2, <1>3, <2>1 DEF OutputShape
  <2>3. /\ n < L /\ (n + 1 >= L <=> n + 1 = length'[p])
        /\ p # arriving'.pkt => n + 1 <= length'[p]
    BY <1>2, <1>6
  <2>4. /\ word_two' = <<p, n + 1>>
        /\ g.next = null_seg_ptr <=> n + 1 = length'[p]
    <3> HIDE DEF L
    <3>1. g.two = <<p, n + 1>> /\ (g.next = null_seg_ptr <=> n + 1 >= L)
      BY <1>2, <2>3 DEF Cut
    <3> QED BY <1>3, <2>3, <3>1
  <2>5. g.next # null_seg_ptr => seg_ram'[g.next] = seg_ram[g.next]
    <3> SUFFICES ASSUME g.next # null_seg_ptr PROVE seg_ram'[g.next] = seg_ram[g.next]
      OBVIOUS
    <3>1. /\ Holds(g.next, p, n + 2) /\ p \in Pkts /\ p \in Inside
          /\ p = arriving.pkt => n + 2 < OpenNum
      BY <1>2
    <3> HIDE DEF p, n, g
    <3> QED BY <3>1, LeavingKept
  <2>6. Odd(n)
    BY <1>1 DEF FirstSound
  <2>7. SecondSound'
    <3>1. /\ Odd(leaving'.words)
          /\ leaving'.pkt # arriving'.pkt => leaving'.words + 1 <= length'[leaving'.pkt]
          /\ word_two' = <<leaving'.pkt, leaving'.words + 1>>
          /\ rfsm_cur_seg_ptr' = null_seg_ptr <=> leaving'.words + 1 = length'[leaving'.pkt]
      BY <1>2, <1>3, <2>1, <2>3, <2>4, <2>6
    <3>2. rfsm_cur_seg_ptr' # null_seg_ptr =>
            /\ Holds(rfsm_cur_seg_ptr, leaving.pkt, leaving.words + 2)'
            /\ seg_rd_addr' = rfsm_cur_seg_ptr'
            /\ seg_data' = seg_ram'[seg_rd_addr']
      BY <1>2, <1>3, <2>1, <2>5 DEF Holds
    <3> QED BY <2>1, <3>1, <3>2 DEF SecondSound
  <2> QED BY <1>4, <2>1, <2>2, <2>7 DEF OutputSound, ReadingSound, FirstSound, FirstMetaSound
<1> QED BY <1>5, <1>6

LEMMA SecondWordStep ==
  ASSUME StorageInv, Next, ~EARLY_TRAFFIC, PausesFit, NEW tready \in BOOLEAN, SecondWord(tready)
  PROVE  OutputSound'
<1> DEFINE p == leaving.pkt
           n == leaving.words + 1
           a == rfsm_cur_seg_ptr
           g == seg_ram[a]
<1>1. /\ OutputShape /\ SecondSound
      /\ rfsm = "WRITE_OUT_WORD_TWO" /\ ~FirstOfSegment /\ m_axis_pkt_tvalid
  BY DEF StorageInv, OutputSound, SecondWord, m_axis_pkt_tvalid, FirstOfSegment
<1>2. /\ p \in Pkts /\ p # NoPkt
      /\ leaving.words \in Nat /\ n \in Nat /\ length[p] \in Nat
      /\ m_axis_pkt_tlast <=> AtEnd
      /\ AtEnd <=> n = length[p]
  BY <1>1, OnTheBus
<1>3. /\ tlast_r' = m_axis_pkt_tlast
      /\ leaving' = IF ~tready THEN leaving
                    ELSE IF m_axis_pkt_tlast THEN Nobody
                    ELSE [leaving EXCEPT !.words = leaving.words + 1]
      /\ tready => stalled' = 0
      /\ rfsm' = IF ~tready THEN rfsm
                 ELSE IF AtEnd THEN "WAIT_REQUEST" ELSE "WAIT_SEG_BRAM"
      /\ ~free_list_written_r' /\ bram_rd_cycle_cnt' = 0
      /\ a' = a /\ word_two' = word_two
      /\ seg_rd_addr' = seg_rd_addr
      /\ seg_data' = seg_ram[seg_rd_addr] /\ seg_dout' = seg_data
  BY DEF SecondWord, Leave, ReadRams
<1>4. /\ p \in Inside
      /\ p = arriving.pkt => n + 3 <= OpenNum /\ OpenNum \in Nat
      /\ p # arriving'.pkt => n <= length'[p]
      /\ length'[p] \in Nat
      /\ n = length[p] <=> n = length'[p]
  <2>1. p = arriving.pkt => n + 3 <= OpenNum /\ OpenNum \in Nat
    BY <1>1, <1>2, Ahead DEF Addressing
  <2>2. /\ p \in Inside /\ length'[p] \in Nat
        /\ p = arriving'.pkt => p = arriving.pkt /\ length'[p] = 0
        /\ p = arriving.pkt => length[p] = 0
        /\ p # arriving.pkt => n <= length[p] /\ length'[p] = length[p]
        /\ p = arriving.pkt /\ p # arriving'.pkt => n + 2 <= length'[p]
    BY <1>2, Ends
  <2> QED BY <1>2, <2>1, <2>2
<1>5. ~seg_fl_wr_en
  BY <1>1 DEF seg_fl_wr_en
(* The next segment, when there is one. *)
<1>6. ASSUME a # null_seg_ptr
      PROVE  /\ seg_rd_addr = a /\ seg_data = g /\ a \in Ptrs
             /\ a \notin Open' /\ seg_ram'[a] = g /\ g \in Record
             /\ owner'[a] = p /\ Num'[a] = n + 1
             /\ Cut(g, p, n + 1, IF p = arriving'.pkt THEN (n + 1) + 2 ELSE length'[p])
             /\ g.next # null_seg_ptr =>
                  g.next \in Ptrs /\ owner'[g.next] = p /\ Num'[g.next] = (n + 1) + 2
  <2>1. /\ Holds(a, p, n + 1) /\ seg_rd_addr = a /\ seg_data = g /\ n + 1 \in Nat
        /\ p = arriving.pkt => n + 1 < OpenNum /\ (n + 1) + 2 <= OpenNum
    BY <1>1, <1>2, <1>4, <1>6 DEF SecondSound
  <2>2. /\ a \in Ptrs /\ a \notin Open' /\ seg_ram'[a] = g /\ g \in Record
        /\ Written(g, p, n + 1)
    <3> HIDE DEF p, n
    <3> QED BY <1>2, <1>4, <2>1, LeavingKept
  <2>3. owner'[a] = p /\ Num'[a] = n + 1
    BY <1>2, <1>5, <2>1, KeepHolds
  <2>4. /\ Cut(g, p, n + 1, IF p = arriving'.pkt THEN (n + 1) + 2 ELSE length'[p])
        /\ g.next # null_seg_ptr =>
             g.next \in Ptrs /\ owner'[g.next] = p /\ Num'[g.next] = (n + 1) + 2
    <3> HIDE DEF p, n, g
    <3> QED BY <1>2, <1>4, <1>5, <2>1, <2>2, LeavingKept
  <2> QED BY <2>1, <2>2, <2>3, <2>4
<1>7. CASE ~tready
  <2>1. leaving' = leaving /\ rfsm' = rfsm /\ ~FirstOfSegment'
    BY <1>1, <1>3, <1>7 DEF FirstOfSegment
  <2>2. OutputShape'
    BY <1>1, <1>3, <2>1 DEF OutputShape
  <2>3. tlast_r' => AtEnd'
    BY <1>1, <1>2, <1>3, <2>1 DEF AtEnd
  <2>4. a' # null_seg_ptr =>
            /\ Holds(rfsm_cur_seg_ptr, leaving.pkt, leaving.words + 2)'
            /\ seg_rd_addr' = a'
            /\ seg_data' = seg_ram'[seg_rd_addr']
    <3>1. leaving'.words + 2 = n + 1 /\ leaving'.pkt = p /\ a' = a
      <4>1. leaving'.words = leaving.words /\ leaving'.pkt = p /\ a' = a
        BY <1>3, <2>1
      <4>2. leaving.words + 2 = n + 1
        BY <1>2
      <4> QED BY <4>1, <4>2
    <3>2. a # null_seg_ptr =>
            Holds(rfsm_cur_seg_ptr, leaving.pkt, leaving.words + 2)'
      BY <1>6, <3>1 DEF Holds
    <3> QED BY <1>3, <1>6, <3>1, <3>2
  <2>5. SecondSound'
    BY <1>1, <1>3, <1>4, <2>1, <2>3, <2>4 DEF SecondSound
  <2> QED BY <1>1, <2>1, <2>2, <2>5 DEF OutputSound, ReadingSound, FirstSound, FirstMetaSound
<1>8. CASE tready /\ AtEnd
  <2>1. leaving'.pkt = NoPkt /\ rfsm' = "WAIT_REQUEST" /\ ~FirstOfSegment'
    BY <1>2, <1>3, <1>8 DEF Nobody, FirstOfSegment
  <2>2. OutputShape'
    BY <1>3, <2>1 DEF OutputShape
  <2> QED BY <2>1, <2>2 DEF OutputSound, ReadingSound, FirstSound, FirstMetaSound, SecondSound
<1>9. CASE tready /\ ~AtEnd
  <2>1. /\ leaving'.pkt = p /\ leaving'.words = n /\ rfsm' = "WAIT_SEG_BRAM"
        /\ ~tlast_r' /\ stalled' = 0
    <3>1. leaving \in [pkt : Pkts \cup {NoPkt}, words : Nat]
      BY DEF StorageInv, MetaInv
    <3> QED BY <1>2, <1>3, <1>9, <3>1
  <2>2. OutputShape'
    BY <1>2, <1>3, <2>1 DEF OutputShape
  <2>3. a # null_seg_ptr /\ (p # arriving'.pkt => n + 1 <= length'[p])
    BY <1>1, <1>2, <1>4, <1>9 DEF AtEnd
  <2>4. Written(seg_dout, leaving.pkt, leaving.words + 1)'
    <3>1. seg_dout' = g /\ leaving'.words + 1 = n + 1
      BY <1>3, <1>6, <2>1, <2>3
    <3> HIDE DEF p, n, g
    <3> QED BY <1>4, <1>6, <2>1, <2>3, <3>1, WrittenNext
  <2>5. Odd(n + 1)
    <3>1. Odd(leaving.words)
      BY <1>1 DEF SecondSound
    <3>2. Odd(leaving.words + 2) /\ n + 1 = leaving.words + 2
      BY <1>2, <3>1, OddFacts
    <3> QED BY <3>2
  <2>6. FirstSound'
    BY <1>3, <1>4, <1>6, <2>1, <2>3, <2>4, <2>5 DEF FirstSound, Holds
  <2> QED BY <2>1, <2>2, <2>6 DEF OutputSound, ReadingSound, FirstMetaSound, SecondSound
<1> QED BY <1>7, <1>8, <1>9

-----------------------------------------------------------------------------
LEMMA StorageStep ==
  ASSUME StorageInv, Next, ~EARLY_TRAFFIC, PausesFit, MAX_STALL <= 4
  PROVE  StorageInv'
<1>1. MetaInv'
  BY MetaStep DEF StorageInv
<1>2. OutputSound'
  BY QuietStep, RequestStep, WaitBramStep, FirstStallStep, FirstTakenStep, SecondWordStep
     DEF Next, Removal
<1> QED BY <1>1, <1>2, InputStep, LeadStep, SegListMoves, SegmentStep, NumbersStep, WaitingStep
        DEF StorageInv

LEMMA StorageInit == Init => StorageInv
<1> SUFFICES ASSUME Init PROVE StorageInv
  OBVIOUS
<1>1. MetaInv
  BY MetaInit
<1>2. SegTypes
  BY PtrFacts, ClientAssumption, MaxPktsAssumption
     DEF Init, SegTypes, Once, Record, Tag, EmptySegment, NoWord, Nobody, SegPtrs, Ptrs
<1>3. InputShape /\ InputSound /\ LeadSound
  BY NoPktAssumption, PtrFacts, MaxPktsAssumption
     DEF Init, InputShape, InputSound, LeadSound, Nobody, Filling
<1>4. FreeSound /\ SegmentsSound /\ NumbersApart /\ WaitingSound
  BY PtrFacts DEF Init, FreeSound, SegmentsSound, NumbersApart, WaitingSound, Lacks
<1>5. OutputSound
  BY DEF Init, OutputSound, OutputShape, ReadingSound, FirstSound, FirstMetaSound,
         SecondSound, FirstOfSegment, Nobody
<1> QED BY <1>1, <1>2, <1>3, <1>4, <1>5 DEF StorageInv

LEMMA StorageStutter ==
  ASSUME StorageInv, UNCHANGED vars
  PROVE  StorageInv'
<1>1. MetaInv'
  BY DEF StorageInv, vars, remVars, insVars, MetaInv, FillingIsQuiet, Filling, ListSound,
         WaitingApart, HeldApart, HoldsMeta, MetaOut
<1>2. /\ Open' = Open /\ OpenNum' = OpenNum /\ Inside' = Inside
      /\ UNCHANGED <<FirstOfSegment, Filling, HoldsMeta>>
  BY DEF vars, remVars, insVars, Open, OpenNum, Inside, FirstOfSegment, Filling, HoldsMeta
<1>3. /\ Num' = Num /\ High' = High /\ Low' = Low /\ AtEnd' = AtEnd
  BY <1>2 DEF vars, remVars, insVars, ramVars, Num, High, Low, AtEnd
<1>4. SegTypes' /\ InputShape' /\ InputSound' /\ LeadSound' /\ FreeSound'
  BY <1>2 DEF StorageInv, vars, insVars, remVars, SegTypes, InputShape, InputSound,
       LeadSound, Addressing, FreeSound
<1>5. SegmentsSound' /\ NumbersApart' /\ WaitingSound'
  BY <1>2, <1>3 DEF StorageInv, vars, insVars, remVars, SegmentsSound, NumbersApart,
       WaitingSound, Written, Size, Holds
<1>6. OutputSound'
  BY <1>2, <1>3 DEF StorageInv, vars, insVars, remVars, ramVars, OutputSound, OutputShape,
       ReadingSound, FirstSound, FirstMetaSound, SecondSound, Written, Size, Holds
<1> QED BY <1>1, <1>4, <1>5, <1>6 DEF StorageInv

LEMMA StorageAlways ==
  ~EARLY_TRAFFIC /\ PausesFit /\ MAX_STALL <= 4 => (Spec => []StorageInv)
<1> SUFFICES ASSUME ~EARLY_TRAFFIC, PausesFit, MAX_STALL <= 4
             PROVE  Spec => []StorageInv
  OBVIOUS
<1>1. StorageInv /\ [Next]_vars => StorageInv'
  BY StorageStep, StorageStutter
<1> QED BY <1>1, StorageInit, PTL DEF Spec

(* Every segment handed to the lists is free, once, or taken, never both:  *)
(* the pointer that the removal machine gives back in the first cycle of a *)
(* segment is not given back twice, and the one the insertion machine pops *)
(* is nobody's.                                                            *)
THEOREM StorageFreeOrTaken ==
  ~EARLY_TRAFFIC /\ PausesFit /\ MAX_STALL <= 4 => (Spec => []FreeOrTaken)
<1> SUFFICES ASSUME ~EARLY_TRAFFIC, PausesFit, MAX_STALL <= 4
             PROVE  Spec => []FreeOrTaken
  OBVIOUS
<1>1. StorageInv => FreeOrTaken
  <2> SUFFICES ASSUME StorageInv PROVE FreeOrTaken
    OBVIOUS
  <2>1. seg_fl \in Seq(Ptrs) /\ Once(seg_fl) /\ FreeSound
        /\ cur_val \in Nat /\ \A s \in Ptrs : s \in Nat
    BY PtrFacts DEF StorageInv, SegTypes, MetaInv, FillingIsQuiet
  <2>2. ToSet(seg_fl) = {seg_fl[i] : i \in 1 .. Len(seg_fl)}
    BY <2>1 DEF ToSet
  <2>3. \A s : s \in ToSet(seg_fl) => s \in Ptrs
    BY <2>1, <2>2
  <2>4. \A s : s \in ToSet(seg_fl) <=> ~Lacks(seg_fl, s)
    BY <2>2 DEF Lacks
  <2>5. \A s \in Ptrs : ~Lacks(seg_fl, s) <=> s < cur_val /\ owner[s] = NoPkt
    BY <2>1 DEF FreeSound
  <2>6. \A s : s \in {t \in Given : owner[t] = NoPkt} <=>
                 s \in Ptrs /\ s < cur_val /\ owner[s] = NoPkt
    BY DEF Given
  <2>7. ToSet(seg_fl) = {s \in Given : owner[s] = NoPkt}
    BY <2>3, <2>4, <2>5, <2>6
  <2> QED BY <2>1, <2>7 DEF FreeOrTaken, Once
<1> QED BY <1>1, StorageAlways, PTL

(* When the last word of a packet has left, all its segments are back.     *)
THEOREM StorageNoSegmentLeaks ==
  ~EARLY_TRAFFIC /\ PausesFit /\ MAX_STALL <= 4 => (Spec => []NoSegmentLeaks)
<1> SUFFICES ASSUME ~EARLY_TRAFFIC, PausesFit, MAX_STALL <= 4
             PROVE  Spec => []NoSegmentLeaks
  OBVIOUS
<1>1. StorageInv => NoSegmentLeaks
  BY DEF StorageInv, SegmentsSound, NoSegmentLeaks
<1> QED BY <1>1, StorageAlways, PTL

(* What is on the output bus is the next word of the packet requested, as  *)
(* it arrived, in every cycle until it is taken.                           *)
THEOREM StorageDeliveredIntact ==
  ~EARLY_TRAFFIC /\ PausesFit /\ MAX_STALL <= 4 => (Spec => []DeliveredIntact)
<1> SUFFICES ASSUME ~EARLY_TRAFFIC, PausesFit, MAX_STALL <= 4
             PROVE  Spec => []DeliveredIntact
  OBVIOUS
<1>1. StorageInv => DeliveredIntact
  <2> SUFFICES ASSUME StorageInv, m_axis_pkt_tvalid
               PROVE  /\ m_axis_pkt_tdata = <<leaving.pkt, leaving.words + 1>>
                      /\ m_axis_pkt_tlast = (leaving.words + 1 = length[leaving.pkt])
                      /\ leaving.words = 0 => meta_dout = leaving.pkt
    BY DEF DeliveredIntact
  <2>1. /\ m_axis_pkt_tdata = <<leaving.pkt, leaving.words + 1>>
        /\ m_axis_pkt_tlast <=> leaving.words + 1 = length[leaving.pkt]
    BY OnTheBus
  <2>2. leaving.words = 0 => meta_dout = leaving.pkt
    <3>1. OutputShape /\ FirstMetaSound /\ SecondSound
      BY DEF StorageInv, OutputSound
    <3>2. rfsm = "WRITE_OUT_WORD_TWO" => leaving.words # 0
      BY <3>1, OddFacts DEF SecondSound
    <3> QED BY <3>1, <3>2 DEF OutputShape, FirstMetaSound, FirstOfSegment, m_axis_pkt_tvalid
  <2> QED BY <2>1, <2>2 DEF m_axis_pkt_tlast, AtEnd
<1> QED BY <1>1, StorageAlways, PTL
=============================================================================

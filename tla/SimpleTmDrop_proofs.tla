------------------------ MODULE SimpleTmDrop_proofs ------------------------
(***************************************************************************)
(* Proofs about the traffic manager, for every number of queues and every  *)
(* size of the storage, of the PIFO and of packets: it is a client as the  *)
(* PIFO expects one, its queue sizes are exact, the storage takes every    *)
(* word of the packets that were accepted, and no packet is forgotten.     *)
(*                                                                         *)
(* The invariant is circular: the queue sizes are exact because no word is *)
(* lost, and no word is lost because the queue sizes are exact and leave   *)
(* room.  So both are carried through a step together.                     *)
(*                                                                         *)
(* Packets leave while they arrive.  All theorems but the one about        *)
(* removals assume that the source of a packet pauses for one cycle at     *)
(* most from its first word to its last: then its words stay ahead of the  *)
(* reader (LeadSound).                                                     *)
(***************************************************************************)
EXTENDS SimpleTmDrop, FiniteSetTheorems, FunctionTheorems, TLAPS

(* PifoReg and PifoTop are not asked to remove in two cycles in a row: the *)
(* cycle after a removal the storage is busy with the packet.              *)
THEOREM TrafficRemovesApart == Spec => RemovesApart
<1>1. Next => (pifo_remove => ~pifo_remove')
  <2> SUFFICES ASSUME NEW w \in InputWords, NEW tready \in BOOLEAN, Cycle(w, tready),
                      pifo_remove
               PROVE  ~pifo_remove'
    BY DEF Next
  <2>1. st_rfsm = "WAIT_REQUEST"
    BY DEF pifo_remove, storage_ptr_in_tready
  <2>2. st_rfsm' = "READ_BOTH_BRAM"
    BY <2>1 DEF Cycle, Storage, m_axis_tvalid
  <2> QED BY <2>2 DEF pifo_remove, storage_ptr_in_tready
<1>2. [Next]_vars => [pifo_remove => ~pifo_remove']_vars
  BY <1>1
<1> QED BY <1>2, PTL DEF Spec, RemovesApart

-----------------------------------------------------------------------------
(* The packets whose pointers wait for the PIFO or are in it.              *)
Waiting == (pifo_held \cup {pifo_in_r}) \ {NoPkt}

(* A packet was requested whose meta data slot is not given back yet.      *)
Requested == /\ leaving.pkt # NoPkt
             /\ \/ st_rfsm = "READ_BOTH_BRAM"
                \/ st_rfsm = "WAIT_BOTH_BRAM" /\ ~free_list_written_r

(* The invariant: the machines of the PIFO and of the storage hold a packet *)
(* when their states say so, and no packet is in two places.                *)
MachinesHold ==
  /\ ifsm_pifo \in {"PIFO_START", "WRITE_PIFO"}
  /\ pifo_in_r = NoPkt <=> ifsm_pifo = "PIFO_START"
  /\ st_rfsm \in {"WAIT_REQUEST", "READ_BOTH_BRAM", "WAIT_BOTH_BRAM",
                  "WAIT_SEG_BRAM", "WRITE_OUT_WORD_TWO"}
  /\ leaving \in [pkt : Pkts \cup {NoPkt}, words : Nat]
  /\ leaving.pkt = NoPkt <=> st_rfsm = "WAIT_REQUEST"

PlacesApart ==
  /\ pifo_held \subseteq Pkts
  /\ IsFiniteSet(pifo_held)
  /\ pifo_in_r \in (Pkts \cup {NoPkt}) \ pifo_held
  /\ pifo_offer \in pifo_held \cup {NoPkt}

FramesInStep ==
  /\ ifsm \in {"WAIT_START", "FINISH_PKT", "DROP_PKT"}
  /\ st_ifsm \in {"START_WORD", "WORD_ONE", "WORD_TWO"}
  /\ PointersWithFirstWord

TmInv ==
  /\ MachinesHold
  /\ PlacesApart
  /\ FramesInStep
  /\ metas_free \in Int
  /\ SEGMENTS - metas_free = Cardinality(Waiting) + Count(Requested)

-----------------------------------------------------------------------------
(* The first word of a packet that is accepted names one that is nowhere.  *)
LEMMA AcceptedIsNew ==
  ASSUME NEW w \in InputWords, Accepts(w), PlacesApart
  PROVE  w.first \in Pkts \ (Waiting \cup pifo_held)
<1>1. w \in FirstWords
  BY DEF Accepts, InputWords, NoWord
<1>2. w.first \in Pkts \ Inside
  BY <1>1 DEF FirstWords
<1> QED BY <1>2, NoPktAssumption DEF Inside, Waiting, PlacesApart

(* The machine of the PIFO and its register in one cycle: the packet that  *)
(* is accepted comes, the one that is removed goes, and an insert moves    *)
(* one from the register into the PIFO.                                    *)
LEMMA WaitingMoves ==
  ASSUME TmInv, NEW w \in InputWords, NEW tready \in BOOLEAN, Cycle(w, tready)
  PROVE  /\ Waiting' = (Waiting \cup (IF Accepts(w) THEN {w.first} ELSE {}))
                          \ (IF pifo_remove THEN {pifo_offer} ELSE {})
         /\ PlacesApart'
         /\ ifsm_pifo' \in {"PIFO_START", "WRITE_PIFO"}
         /\ pifo_in_r' = NoPkt <=> ifsm_pifo' = "PIFO_START"
<1> DEFINE gone == IF pifo_remove THEN {pifo_offer} ELSE {}
<1>1. /\ PlacesApart /\ MachinesHold
      /\ gone \subseteq pifo_held /\ pifo_in_r \notin gone /\ NoPkt \notin gone
  BY NoPktAssumption DEF TmInv, PlacesApart, pifo_remove
<1>2. /\ pifo_held' = (pifo_held \cup (IF pifo_insert THEN {pifo_in_r} ELSE {})) \ gone
      /\ pifo_offer' \in {NoPkt} \cup pifo_held'
  BY DEF Cycle, Pifo
<1> HIDE DEF gone
<1>3. CASE Accepts(w)
  <2>1. pifo_in_r = NoPkt /\ ~pifo_insert
    BY <1>1, <1>3 DEF Accepts, ifsm_pifo_ready, pifo_insert, MachinesHold
  <2>2. pifo_in_r' = w.first /\ ifsm_pifo' = "WRITE_PIFO" /\ pifo_held' = pifo_held \ gone
    BY <1>2, <1>3, <2>1 DEF Cycle, Insertion
  <2>3. w.first \in Pkts \ (Waiting \cup pifo_held)
    BY <1>1, <1>3, AcceptedIsNew
  <2>4. IsFiniteSet(pifo_held \ gone)
    BY <1>1, FS_Subset DEF PlacesApart
  <2> QED BY <1>1, <1>2, <1>3, <2>1, <2>2, <2>3, <2>4, NoPktAssumption
          DEF PlacesApart, Waiting, gone
<1>4. CASE pifo_insert /\ ~Accepts(w)
  <2>1. pifo_in_r \in Pkts
    BY <1>1, <1>4 DEF pifo_insert, MachinesHold, PlacesApart
  <2>2. pifo_in_r' = NoPkt /\ ifsm_pifo' = "PIFO_START"
        /\ pifo_held' = (pifo_held \cup {pifo_in_r}) \ gone
    BY <1>2, <1>4 DEF Cycle, Insertion
  <2>3. IsFiniteSet((pifo_held \cup {pifo_in_r}) \ gone)
    BY <1>1, FS_AddElement, FS_Subset DEF PlacesApart
  <2> QED BY <1>1, <1>2, <1>4, <2>1, <2>2, <2>3, NoPktAssumption
          DEF PlacesApart, Waiting, gone
<1>5. CASE ~pifo_insert /\ ~Accepts(w)
  <2>1. pifo_in_r' = pifo_in_r /\ ifsm_pifo' = ifsm_pifo /\ pifo_held' = pifo_held \ gone
    BY <1>2, <1>5 DEF Cycle, Insertion
  <2>2. IsFiniteSet(pifo_held \ gone)
    BY <1>1, FS_Subset DEF PlacesApart
  <2> QED BY <1>1, <1>2, <1>5, <2>1, <2>2, NoPktAssumption
          DEF PlacesApart, Waiting, gone, MachinesHold
<1> QED BY <1>3, <1>4, <1>5

(* The removal machine of the storage: a removal makes a packet requested, *)
(* and it is so until its meta data slot is given back.                    *)
LEMMA RequestMoves ==
  ASSUME TmInv, NEW w \in InputWords, NEW tready \in BOOLEAN, Cycle(w, tready)
  PROVE  /\ pifo_remove => ~Requested /\ Requested' /\ ~MetaBack
         /\ ~pifo_remove => (Requested' <=> Requested /\ ~MetaBack)
         /\ MetaBack => Requested
         /\ st_rfsm' \in {"WAIT_REQUEST", "READ_BOTH_BRAM", "WAIT_BOTH_BRAM",
                          "WAIT_SEG_BRAM", "WRITE_OUT_WORD_TWO"}
         /\ leaving' \in [pkt : Pkts \cup {NoPkt}, words : Nat]
         /\ leaving'.pkt = NoPkt <=> st_rfsm' = "WAIT_REQUEST"
<1>1. MachinesHold /\ pifo_offer \in Pkts \cup {NoPkt} /\ Storage(w, tready)
  BY DEF TmInv, PlacesApart, Cycle
<1>2. CASE pifo_remove
  <2>1. /\ st_rfsm = "WAIT_REQUEST" /\ st_rfsm' = "READ_BOTH_BRAM"
        /\ leaving' = [pkt |-> pifo_offer, words |-> 0] /\ pifo_offer # NoPkt
    BY <1>1, <1>2 DEF Storage, m_axis_tvalid, pifo_remove, storage_ptr_in_tready
  <2> QED BY <1>1, <1>2, <2>1 DEF Requested, MetaBack, SegBack, MachinesHold
<1>3. CASE st_rfsm = "WAIT_REQUEST" /\ ~pifo_remove
  BY <1>1, <1>3 DEF Storage, m_taken, m_axis_tvalid, Requested, MetaBack, SegBack,
                    MachinesHold
<1>4. CASE st_rfsm = "READ_BOTH_BRAM"
  <2>1. /\ ~pifo_remove /\ st_rfsm' = "WAIT_BOTH_BRAM" /\ ~free_list_written_r'
        /\ leaving' = leaving
    BY <1>1, <1>4 DEF Storage, m_taken, m_axis_tvalid, pifo_remove, storage_ptr_in_tready
  <2> QED BY <1>1, <1>4, <2>1 DEF Requested, MetaBack, SegBack, MachinesHold
<1>5. CASE m_axis_tvalid
  <2>1. ~pifo_remove /\ st_rfsm # "WAIT_REQUEST" /\ st_rfsm # "READ_BOTH_BRAM"
    BY <1>5 DEF m_axis_tvalid, pifo_remove, storage_ptr_in_tready
  <2>2. st_rfsm' = IF ~tready THEN st_rfsm
                   ELSE IF m_axis_tlast THEN "WAIT_REQUEST"
                   ELSE IF st_rfsm = "WRITE_OUT_WORD_TWO" THEN "WAIT_SEG_BRAM"
                   ELSE "WRITE_OUT_WORD_TWO"
    BY <1>1, <1>5, <2>1 DEF Storage
  <2>3. /\ free_list_written_r' = (st_rfsm \in {"WAIT_BOTH_BRAM", "WAIT_SEG_BRAM"} /\ ~tready)
        /\ leaving' = IF ~tready THEN leaving ELSE IF m_axis_tlast THEN Nobody
                      ELSE [leaving EXCEPT !.words = @ + 1]
    BY <1>1, <1>5, <2>1 DEF Storage, m_taken
  <2>4. /\ st_rfsm' \in {"WAIT_REQUEST", "WAIT_BOTH_BRAM", "WAIT_SEG_BRAM",
                         "WRITE_OUT_WORD_TWO"}
        /\ leaving' \in [pkt : Pkts \cup {NoPkt}, words : Nat]
        /\ leaving'.pkt = NoPkt <=> st_rfsm' = "WAIT_REQUEST"
    BY <1>1, <2>1, <2>2, <2>3, <1>5 DEF MachinesHold, Nobody, m_axis_tvalid
  <2>5. ~Requested'
    BY <2>1, <2>2, <2>3 DEF Requested
  <2>6. MetaBack <=> Requested
    BY <1>1, <2>1 DEF MetaBack, SegBack, Requested, MachinesHold
  <2> QED BY <2>1, <2>4, <2>5, <2>6
<1> QED BY <1>1, <1>2, <1>3, <1>4, <1>5 DEF MachinesHold, m_axis_tvalid

(* Both sides are in the same place of the packet, for every word that the *)
(* traffic manager passes on is taken; so a meta data slot is handed out   *)
(* when a packet is accepted, and at no other time.                        *)
LEMMA FramesMove ==
  ASSUME TmInv, NoWordLost, NEW w \in InputWords, NEW tready \in BOOLEAN,
         Cycle(w, tready)
  PROVE  FramesInStep' /\ (MetaTaken(w) <=> Accepts(w))
<1>1. FramesInStep /\ Insertion(w) /\ Storage(w, tready)
  BY DEF TmInv, Cycle
<1>2. Accepts(w) => s_axis_tready_storage /\ ifsm = "WAIT_START" /\ w.valid
  BY DEF Accepts
<1>3. StorageTakes(w) <=> Accepts(w) \/ (ifsm = "FINISH_PKT" /\ w.valid)
  BY <1>2 DEF StorageTakes, s_axis_tvalid_storage, NoWordLost
<1>4. ifsm' = IF ifsm = "WAIT_START"
              THEN IF ~w.valid THEN ifsm
                   ELSE IF Accepts(w) THEN "FINISH_PKT" ELSE "DROP_PKT"
              ELSE IF w.valid /\ w.last THEN "WAIT_START" ELSE ifsm
  BY <1>1 DEF Insertion
<1>5. st_ifsm' = IF ~StorageTakes(w) THEN st_ifsm
                 ELSE IF st_ifsm = "START_WORD" THEN "WORD_TWO"
                 ELSE IF w.last THEN "START_WORD"
                 ELSE IF st_ifsm = "WORD_ONE" THEN "WORD_TWO" ELSE "WORD_ONE"
  BY <1>1 DEF Storage
<1>6. FramesInStep'
  BY <1>1, <1>2, <1>3, <1>4, <1>5 DEF FramesInStep, PointersWithFirstWord
<1> QED BY <1>1, <1>2, <1>3, <1>6 DEF MetaTaken, FramesInStep, PointersWithFirstWord

-----------------------------------------------------------------------------
(* One cycle keeps the invariant: a slot is taken for every packet that    *)
(* comes, and given back for every one that was requested.                 *)
LEMMA TmStep ==
  ASSUME TmInv, NoWordLost, Next
  PROVE  TmInv'
<1>1. PICK w \in InputWords, tready \in BOOLEAN : Cycle(w, tready)
  BY DEF Next
<1>2. MachinesHold' /\ PlacesApart'
  BY <1>1, WaitingMoves, RequestMoves DEF MachinesHold
<1>3. FramesInStep'
  BY <1>1, FramesMove
<1>4. /\ metas_free \in Int
      /\ metas_free' = metas_free - Count(MetaTaken(w)) + Count(MetaBack)
      /\ MetaTaken(w) <=> Accepts(w)
  BY <1>1, FramesMove DEF TmInv, Cycle, Storage
<1>5. metas_free' \in Int
  BY <1>4 DEF Count
<1>6. IsFiniteSet(Waiting) /\ Cardinality(Waiting) \in Nat
  BY FS_AddElement, FS_Subset, FS_CardinalityType DEF TmInv, PlacesApart, Waiting
<1>7. Accepts(w) => w.first \in Pkts \ (Waiting \cup pifo_held)
  BY <1>1, AcceptedIsNew DEF TmInv
<1>8. pifo_remove => pifo_offer \in Waiting
  BY NoPktAssumption DEF TmInv, PlacesApart, Waiting, pifo_remove
<1>9. Cardinality(Waiting')
        = Cardinality(Waiting) + Count(Accepts(w)) - Count(pifo_remove)
  <2> DEFINE more == Waiting \cup (IF Accepts(w) THEN {w.first} ELSE {})
  <2>1. /\ IsFiniteSet(more) /\ Cardinality(more) \in Nat
        /\ Cardinality(more) = Cardinality(Waiting) + Count(Accepts(w))
    <3>1. CASE Accepts(w)
      <4>1. /\ IsFiniteSet(Waiting \cup {w.first})
            /\ Cardinality(Waiting \cup {w.first}) = Cardinality(Waiting) + 1
        BY <1>6, <1>7, <3>1, FS_AddElement
      <4>2. more = Waiting \cup {w.first} /\ Count(Accepts(w)) = 1
        BY <3>1 DEF Count
      <4>3. Cardinality(Waiting) + 1 \in Nat
        BY <1>6
      <4> QED BY <4>1, <4>2, <4>3
    <3>2. CASE ~Accepts(w)
      BY <1>6, <3>2 DEF Count
    <3> QED BY <3>1, <3>2
  <2>2. Waiting' = more \ (IF pifo_remove THEN {pifo_offer} ELSE {})
    BY <1>1, WaitingMoves
  <2>3. pifo_remove => pifo_offer \in more
    BY <1>8
  <2> HIDE DEF more
  <2>4. Cardinality(Waiting') = Cardinality(more) - Count(pifo_remove)
    <3>1. CASE pifo_remove
      <4>1. Cardinality(more \ {pifo_offer}) = Cardinality(more) - 1
        BY <2>1, <2>3, <3>1, FS_RemoveElement
      <4> QED BY <2>2, <3>1, <4>1 DEF Count
    <3>2. CASE ~pifo_remove
      BY <2>1, <2>2, <3>2 DEF Count
    <3> QED BY <3>1, <3>2
  <2>5. Count(Accepts(w)) \in Nat /\ Count(pifo_remove) \in Nat
    BY DEF Count
  <2> QED BY <1>6, <2>1, <2>4, <2>5
<1>10. Count(Requested') = Count(Requested) + Count(pifo_remove) - Count(MetaBack)
  BY <1>1, RequestMoves DEF Count
<1>11. (SEGMENTS - metas_free = Cardinality(Waiting) + Count(Requested))'
  <2>1. PICK a \in Nat, r \in Nat, b \in Nat, q \in Nat, n \in Nat :
          /\ a = Count(Accepts(w)) /\ r = Count(pifo_remove) /\ b = Count(MetaBack)
          /\ q = Count(Requested) /\ n = Cardinality(Waiting)
    BY <1>6 DEF Count
  <2>2. SEGMENTS \in Int /\ SEGMENTS - metas_free = n + q
    BY <2>1, SizesAssumption DEF TmInv, SEGMENTS
  <2>3. metas_free' = metas_free - a + b
    BY <1>4, <2>1 DEF Count
  <2>4. Cardinality(Waiting') = n + a - r /\ Count(Requested') = q + r - b
    BY <1>9, <1>10, <2>1
  <2>5. SEGMENTS - metas_free' = Cardinality(Waiting') + Count(Requested')
    BY <1>4, <2>2, <2>3, <2>4
  <2> QED BY <2>5 DEF SEGMENTS, Count
<1> QED BY <1>2, <1>3, <1>5, <1>11 DEF TmInv

(* Reset leaves both sides at the start of a packet and all slots free.    *)
LEMMA TmInit == Init => TmInv
<1> SUFFICES ASSUME Init PROVE TmInv
  OBVIOUS
<1>1. IsFiniteSet({}) /\ Cardinality({}) = 0
  BY FS_EmptySet
<1>2. MachinesHold /\ PlacesApart /\ FramesInStep
  BY <1>1 DEF Init, MachinesHold, PlacesApart, FramesInStep, PointersWithFirstWord, Nobody
<1>3. Waiting = {} /\ Count(Requested) = 0
  BY DEF Init, Waiting, Requested, Count, Nobody
<1>4. SEGMENTS \in Int /\ metas_free = SEGMENTS
  BY SizesAssumption DEF Init, SEGMENTS
<1> QED BY <1>1, <1>2, <1>3, <1>4 DEF TmInv

-----------------------------------------------------------------------------
(* The rest of the invariant: how far each packet has come in and out, and *)
(* that both counters and both sides of the storage know it.               *)
Even(n) == n % 2 = 0

PacketsWhole ==
  /\ arriving \in Waiting \cup {leaving.pkt, NoPkt}
  /\ arriving = NoPkt <=> ifsm # "FINISH_PKT"
  /\ leaving.pkt \notin Waiting
  /\ queue \in [Pkts -> Queues] /\ length \in [Pkts -> 0 .. MAX_WORDS]
  /\ \A p \in Inside : length[p] # 0 /\ (p # arriving => length[p] # 1)
  /\ \A p \in Pkts \ Inside : length[p] = 0
  /\ arriving # NoPkt => length[arriving] < MAX_WORDS
  /\ leaving.pkt # NoPkt => leaving.words < length[leaving.pkt]
  /\ leaving.pkt = NoPkt => leaving.words = 0

InputInStep ==
  /\ <<ifsm, s_q_state>> \in {<<"WAIT_START", "WAIT_START">>,
                              <<"FINISH_PKT", "WAIT_END_ENQ">>,
                              <<"DROP_PKT", "WAIT_END_DROP">>}
  /\ s_q_update_size_r \in BOOLEAN
  /\ arriving # NoPkt =>
       /\ s_q_id_r = queue[arriving]
       /\ s_q_update_size_r <=> Even(length[arriving])
       /\ st_ifsm = "WORD_ONE" <=> Even(length[arriving])

OutputInStep ==
  /\ m_q_state = IF leaving.words = 0 THEN "WAIT_START" ELSE "WAIT_END"
  /\ m_q_update_size_r \in BOOLEAN /\ free_list_written_r \in BOOLEAN
  /\ leaving.words # 0 =>
       /\ m_q_id_r = queue[leaving.pkt]
       /\ m_q_update_size_r <=> Even(leaving.words)
  /\ st_rfsm = "WRITE_OUT_WORD_TWO" <=> ~Even(leaving.words)
  /\ st_rfsm = "WAIT_SEG_BRAM" => leaving.words # 0
  /\ st_rfsm \in {"WAIT_BOTH_BRAM", "READ_BOTH_BRAM"} => leaving.words = 0
  /\ free_list_written_r => st_rfsm \in {"WAIT_BOTH_BRAM", "WAIT_SEG_BRAM"}

(* How far ahead of its departure a packet that still arrives is.  Every   *)
(* cycle since its first word brought a word or was a pause, of which      *)
(* there are few; it takes a cycle to the PIFO, one through it, and one to *)
(* the storage, which sends a word a cycle at most.                        *)
LeadSound ==
  /\ pauses \in 0 .. MAX_PAUSE
  /\ arriving # NoPkt =>
       LET cycles == length[arriving] + pauses
       IN  /\ arriving \in pifo_held => cycles >= 2
           /\ pifo_offer = arriving => cycles >= 3
           /\ leaving.pkt = arriving =>
                cycles >= leaving.words + (IF st_rfsm = "READ_BOTH_BRAM" THEN 4 ELSE 5)

(* All segments that have arrived and have not begun to leave.  The free   *)
(* list lacks them, but for one given back while its first word waits on   *)
(* the output, and one taken ahead for a word to come.                     *)
AllSegments ==
  {s \in Inside \X (1 .. MAX_PKT_SIZE) :
     Gone(s[1]) < s[2] /\ s[2] <= Chunks(length[s[1]])}

SegmentsCounted ==
  /\ q_size \in [Queues -> Nat] /\ QueueSizeExact
  /\ segs_free \in Int
  /\ SEGMENTS - segs_free + Count(free_list_written_r)
       = Cardinality(AllSegments) + Count(st_ifsm = "WORD_ONE")

(* A queue that is not empty is below its limit, and has room for the rest *)
(* of the longest packet.                                                  *)
Limited ==
  /\ \A q \in Queues : q_size[q] = 0 \/ q_size[q] < QUEUE_LIMIT
  /\ arriving # NoPkt => q_size[queue[arriving]] + MAX_PKT_SIZE
                           < QUEUE_LIMIT + Chunks(length[arriving])

TrafficInv ==
  /\ TmInv
  /\ PacketsWhole
  /\ InputInStep
  /\ OutputInStep
  /\ LeadSound
  /\ SegmentsCounted
  /\ Limited

-----------------------------------------------------------------------------
(* One more word: a segment begins with every other one.                   *)
LEMMA OneMoreWord ==
  ASSUME NEW n \in Nat
  PROVE  /\ Chunks(n) \in Nat
         /\ Even(n) => Chunks(n + 1) = Chunks(n) + 1 /\ ~Even(n + 1)
         /\ ~Even(n) => Chunks(n + 1) = Chunks(n) /\ Even(n + 1)
         /\ n # 0 => Chunks(n) >= 1
         /\ \A m \in Nat : n <= 2 * m => Chunks(n) <= m
         /\ \A m \in Nat : m <= n => Chunks(m) <= Chunks(n)
BY DEF Chunks, Even

LEMMA NoWords == Chunks(0) = 0 /\ Even(0)
BY DEF Chunks, Even

(* A counter that does not leave its range does not wrap.                  *)
LEMMA NoWrap ==
  ASSUME NEW m \in Nat, NEW x \in Nat, x < m
  PROVE  (x + m) % m = x
OBVIOUS

(* What can be on the input.                                               *)
LEMMA WordOnInput ==
  ASSUME NEW w \in InputWords
  PROVE  /\ w.valid \in BOOLEAN /\ w.last \in BOOLEAN
         /\ w.last => w.valid /\ ifsm # "WAIT_START"
         /\ w.valid /\ ifsm = "WAIT_START" => w.first \in Pkts \ Inside /\ w.q \in Queues
         /\ ifsm # "WAIT_START" => ~TooLong(w)
<1>1. CASE w = NoWord
  BY <1>1 DEF NoWord, TooLong
<1>2. CASE ifsm = "WAIT_START" /\ w \in FirstWords
  <2>1. PICK p \in Pkts \ Inside, q \in Queues :
          w = [first |-> p, q |-> q, valid |-> TRUE, last |-> FALSE]
    BY <1>2 DEF FirstWords
  <2> QED BY <1>2, <2>1
<1>3. CASE ifsm # "WAIT_START" /\ w \in LaterWords /\ ~TooLong(w)
  <2>1. PICK l \in BOOLEAN : w = [first |-> NoPkt, q |-> 0, valid |-> TRUE, last |-> l]
    BY <1>3 DEF LaterWords
  <2> QED BY <1>3, <2>1
<1> QED BY <1>1, <1>2, <1>3 DEF InputWords

(* The packets inside in one cycle.                                        *)
Finishes(tready) == m_taken(tready) /\ m_axis_tlast

LEMMA InsideMoves ==
  ASSUME TmInv, PacketsWhole, NEW w \in InputWords, NEW tready \in BOOLEAN,
         Cycle(w, tready)
  PROVE  /\ Inside = Waiting \cup ({leaving.pkt} \ {NoPkt})
         /\ Inside' = Waiting' \cup ({leaving'.pkt} \ {NoPkt})
         /\ Inside' = (Inside \cup (IF Accepts(w) THEN {w.first} ELSE {}))
                        \ (IF Finishes(tready) THEN {leaving.pkt} ELSE {})
         /\ arriving' \in Waiting' \cup {leaving'.pkt, NoPkt}
         /\ leaving'.pkt \notin Waiting'
         /\ Accepts(w) => w.first \notin Inside /\ arriving = NoPkt
         /\ Finishes(tready) => leaving.pkt \in Pkts /\ leaving.pkt # arriving
         /\ arriving \in (Pkts \cap Inside) \cup {NoPkt} /\ Inside \subseteq Pkts
<1>1. /\ Waiting' = (Waiting \cup (IF Accepts(w) THEN {w.first} ELSE {}))
                          \ (IF pifo_remove THEN {pifo_offer} ELSE {})
      /\ PlacesApart /\ PlacesApart'
  BY WaitingMoves DEF TmInv
<1>2. Waiting \subseteq Pkts /\ Waiting' \subseteq Pkts /\ NoPkt \notin Waiting \cup Waiting'
  BY <1>1, NoPktAssumption DEF PlacesApart, Waiting
<1>3. leaving' = IF pifo_remove THEN [pkt |-> pifo_offer, words |-> 0]
                 ELSE IF ~m_taken(tready) THEN leaving
                 ELSE IF m_axis_tlast THEN Nobody
                 ELSE [leaving EXCEPT !.words = @ + 1]
  BY DEF Cycle, Storage
<1>4. leaving \in [pkt : Pkts \cup {NoPkt}, words : Nat]
      /\ (leaving.pkt = NoPkt <=> st_rfsm = "WAIT_REQUEST")
  BY DEF TmInv, MachinesHold
<1>5. pifo_remove => leaving.pkt = NoPkt /\ ~m_taken(tready)
                     /\ pifo_offer \in Waiting /\ pifo_offer # NoPkt
  BY <1>1, <1>4 DEF pifo_remove, storage_ptr_in_tready, m_taken, m_axis_tvalid,
                    PlacesApart, Waiting, PacketsWhole
<1>6. m_taken(tready) => leaving.pkt # NoPkt
  BY <1>4 DEF m_taken, m_axis_tvalid
<1>7. Accepts(w) => w.first \in Pkts \ Inside /\ arriving = NoPkt
  BY WordOnInput DEF Accepts, PacketsWhole
<1>8. arriving' = IF Accepts(w) THEN w.first
                  ELSE IF w.valid /\ w.last THEN NoPkt ELSE arriving
  BY DEF Cycle, Insertion
<1>9. /\ arriving' \in Waiting' \cup {leaving'.pkt, NoPkt}
      /\ leaving'.pkt = IF pifo_remove THEN pifo_offer
                        ELSE IF Finishes(tready) THEN NoPkt ELSE leaving.pkt
  <2>1. leaving'.pkt = IF pifo_remove THEN pifo_offer
                        ELSE IF Finishes(tready) THEN NoPkt ELSE leaving.pkt
    BY <1>3, <1>4, <1>5 DEF Finishes, Nobody
  <2>2. CASE Accepts(w)
    <3>1. w.first \notin Waiting
      BY <1>2, <1>7, <2>2 DEF Inside, Waiting
    <3> QED BY <1>1, <1>5, <1>8, <2>1, <2>2, <3>1
  <2>3. CASE ~Accepts(w)
    BY <1>1, <1>5, <1>8, <2>1, <2>3 DEF PacketsWhole, Finishes, m_axis_tlast
  <2> QED BY <2>1, <2>2, <2>3
<1>10. Inside = Waiting \cup ({leaving.pkt} \ {NoPkt})
  BY <1>2 DEF PacketsWhole, Inside, Waiting
<1>11. Inside' = Waiting' \cup ({leaving'.pkt} \ {NoPkt})
  BY <1>2, <1>9 DEF Inside, Waiting
<1>12. leaving'.pkt \notin Waiting'
  <2>1. CASE pifo_remove
    BY <1>1, <1>5, <1>9, <2>1
  <2>2. CASE ~pifo_remove
    BY <1>1, <1>2, <1>7, <1>9, <1>10, <2>2 DEF PacketsWhole
  <2> QED BY <2>1, <2>2
<1>13. Inside' = (Inside \cup (IF Accepts(w) THEN {w.first} ELSE {}))
                        \ (IF Finishes(tready) THEN {leaving.pkt} ELSE {})
  <2>1. CASE pifo_remove
    BY <1>1, <1>5, <1>9, <1>10, <1>11, <2>1 DEF Finishes
  <2>2. CASE ~pifo_remove /\ Finishes(tready)
    BY <1>1, <1>6, <1>7, <1>9, <1>10, <1>11, <2>2 DEF Finishes, PacketsWhole
  <2>3. CASE ~pifo_remove /\ ~Finishes(tready)
    BY <1>1, <1>9, <1>10, <1>11, <2>3
  <2> QED BY <2>1, <2>2, <2>3
<1>14. Finishes(tready) => leaving.pkt \in Pkts /\ leaving.pkt # arriving
  BY <1>4, <1>6 DEF Finishes, m_axis_tlast
<1>15. arriving \in (Pkts \cap Inside) \cup {NoPkt} /\ Inside \subseteq Pkts
  BY <1>2, <1>4, <1>10 DEF PacketsWhole
<1> QED BY <1>7, <1>9, <1>10, <1>11, <1>12, <1>13, <1>14, <1>15

(* The packet whose word is on the input, and whether the word is taken.   *)
Comes(w) == IF Accepts(w) THEN w.first ELSE arriving
Takes(w) == Accepts(w) \/ (arriving # NoPkt /\ w.valid)

LEMMA WordCounted ==
  ASSUME TmInv, PacketsWhole, NEW w \in InputWords, NEW tready \in BOOLEAN,
         Cycle(w, tready)
  PROVE  /\ s_axis_tvalid_storage(w) <=> Takes(w)
         /\ Takes(w) => Comes(w) \in Inside'
         /\ Accepts(w) => w.first # leaving.pkt
         /\ length' = [p \in Pkts |-> IF p \notin Inside' THEN 0
                                      ELSE IF p = Comes(w) /\ Takes(w) THEN length[p] + 1
                                      ELSE length[p]]
         /\ queue' = [p \in Pkts |-> IF p \notin Inside' THEN 0
                                     ELSE IF Accepts(w) /\ p = w.first THEN w.q
                                     ELSE queue[p]]
<1>1. /\ Inside = Waiting \cup ({leaving.pkt} \ {NoPkt})
      /\ Inside' = (Inside \cup (IF Accepts(w) THEN {w.first} ELSE {}))
                     \ (IF Finishes(tready) THEN {leaving.pkt} ELSE {})
      /\ Accepts(w) => w.first \notin Inside /\ arriving = NoPkt
      /\ Finishes(tready) => leaving.pkt \in Pkts /\ leaving.pkt # arriving
      /\ arriving \in (Pkts \cap Inside) \cup {NoPkt}
  BY InsideMoves
<1>2. /\ arriving = NoPkt <=> ifsm # "FINISH_PKT"
  BY DEF PacketsWhole
<1>3. s_axis_tvalid_storage(w) <=> Takes(w)
  BY <1>2 DEF s_axis_tvalid_storage, Takes
<1>4. leaving.pkt = NoPkt \/ leaving.pkt \in Inside
  BY <1>1
<1>5. Accepts(w) => w.first \in Pkts
  BY AcceptedIsNew DEF TmInv
<1>6. /\ Takes(w) => Comes(w) \in Inside' /\ Comes(w) # NoPkt
      /\ Accepts(w) => w.first # leaving.pkt
  BY <1>1, <1>2, <1>4, <1>5, NoPktAssumption DEF Takes, Comes
<1>7. arriving' = IF Accepts(w) THEN w.first
                  ELSE IF w.valid /\ w.last THEN NoPkt ELSE arriving
  BY DEF Cycle, Insertion
<1>8. ASSUME NEW p \in Pkts, Takes(w)
      PROVE  p = arriving' \/ p = arriving <=> p = Comes(w)
  BY <1>1, <1>7, <1>8, NoPktAssumption DEF Comes, Takes
<1>9. ASSUME NEW p \in Pkts
      PROVE  p \in Pkts \ (pifo_held' \cup {pifo_in_r', arriving', leaving'.pkt})
               <=> p \notin Inside'
  BY NoPktAssumption DEF Inside
<1> HIDE DEF Comes, Takes, Inside
<1>10. length' = [p \in Pkts |-> IF p \notin Inside' THEN 0
                                 ELSE IF p = Comes(w) /\ Takes(w) THEN length[p] + 1
                                 ELSE length[p]]
  BY <1>3, <1>8, <1>9 DEF Cycle, Packets
<1>11. queue' = [p \in Pkts |-> IF p \notin Inside' THEN 0
                                ELSE IF Accepts(w) /\ p = w.first THEN w.q ELSE queue[p]]
  BY <1>9 DEF Cycle, Packets
<1> QED BY <1>3, <1>6, <1>10, <1>11

(* Packets are counted from their first word to their last, on both sides. *)
LEMMA PacketsStep ==
  ASSUME TmInv, PacketsWhole, LeadSound, MAX_PAUSE <= 1, NEW w \in InputWords, NEW tready \in BOOLEAN,
         Cycle(w, tready)
  PROVE  PacketsWhole'
<1>1. /\ Inside' = (Inside \cup (IF Accepts(w) THEN {w.first} ELSE {}))
                     \ (IF Finishes(tready) THEN {leaving.pkt} ELSE {})
      /\ Inside = Waiting \cup ({leaving.pkt} \ {NoPkt})
      /\ arriving' \in Waiting' \cup {leaving'.pkt, NoPkt} /\ leaving'.pkt \notin Waiting'
      /\ Accepts(w) => w.first \notin Inside /\ arriving = NoPkt
      /\ arriving \in (Pkts \cap Inside) \cup {NoPkt} /\ Inside \subseteq Pkts
      /\ Inside' = Waiting' \cup ({leaving'.pkt} \ {NoPkt})
  BY InsideMoves
<1>2. /\ Takes(w) => Comes(w) \in Inside'
      /\ length' = [p \in Pkts |-> IF p \notin Inside' THEN 0
                                   ELSE IF p = Comes(w) /\ Takes(w) THEN length[p] + 1
                                   ELSE length[p]]
      /\ queue' = [p \in Pkts |-> IF p \notin Inside' THEN 0
                                  ELSE IF Accepts(w) /\ p = w.first THEN w.q
                                  ELSE queue[p]]
  BY WordCounted
<1>3. /\ ifsm' = IF ifsm = "WAIT_START"
                 THEN IF ~w.valid THEN ifsm
                      ELSE IF Accepts(w) THEN "FINISH_PKT" ELSE "DROP_PKT"
                 ELSE IF w.valid /\ w.last THEN "WAIT_START" ELSE ifsm
      /\ arriving' = IF Accepts(w) THEN w.first
                     ELSE IF w.valid /\ w.last THEN NoPkt ELSE arriving
      /\ Accepts(w) => ifsm = "WAIT_START" /\ w.valid /\ w.first \in Pkts
  BY AcceptedIsNew DEF Cycle, Insertion, Accepts, TmInv
<1>4. /\ w.valid \in BOOLEAN /\ w.last \in BOOLEAN
      /\ w.last => w.valid /\ ifsm # "WAIT_START"
      /\ w.valid /\ ifsm = "WAIT_START" => w.q \in Queues
      /\ ifsm # "WAIT_START" => ~TooLong(w)
  BY WordOnInput
<1>5. /\ leaving.pkt \notin Waiting
      /\ arriving = NoPkt <=> ifsm # "FINISH_PKT"
      /\ queue \in [Pkts -> Queues] /\ length \in [Pkts -> 0 .. MAX_WORDS]
      /\ \A p \in Inside : length[p] # 0 /\ (p # arriving => length[p] # 1)
      /\ \A p \in Pkts \ Inside : length[p] = 0
      /\ arriving # NoPkt => length[arriving] < MAX_WORDS
      /\ ifsm \in {"WAIT_START", "FINISH_PKT", "DROP_PKT"}
  BY DEF PacketsWhole, TmInv, FramesInStep
<1>6. /\ MAX_WORDS \in Nat /\ MAX_WORDS >= 2 /\ 0 \in Queues
  BY SizesAssumption, NumQueuesAssumption DEF MAX_WORDS, Queues
<1>7. arriving' = NoPkt <=> ifsm' # "FINISH_PKT"
  BY <1>1, <1>3, <1>4, <1>5, NoPktAssumption
<1>8. queue' \in [Pkts -> Queues]
  BY <1>2, <1>3, <1>4, <1>5, <1>6
<1>9. Takes(w) => /\ Comes(w) \in Pkts /\ length'[Comes(w)] = length[Comes(w)] + 1
                  /\ length'[Comes(w)] <= MAX_WORDS
                  /\ ~w.last => length'[Comes(w)] < MAX_WORDS
  <2> SUFFICES ASSUME Takes(w)
               PROVE  /\ Comes(w) \in Pkts /\ length'[Comes(w)] = length[Comes(w)] + 1
                      /\ length'[Comes(w)] <= MAX_WORDS
                      /\ ~w.last => length'[Comes(w)] < MAX_WORDS
    OBVIOUS
  <2>1. Comes(w) \in Pkts /\ length'[Comes(w)] = length[Comes(w)] + 1
    BY <1>1, <1>2, <1>3
  <2>2. CASE Accepts(w)
    BY <1>1, <1>5, <1>6, <2>1, <2>2, <1>3 DEF Comes
  <2>3. CASE ~Accepts(w)
    BY <1>4, <1>5, <1>6, <2>1, <2>3 DEF Comes, Takes, TooLong
  <2> QED BY <2>1, <2>2, <2>3
<1>10. length' \in [Pkts -> 0 .. MAX_WORDS]
  BY <1>2, <1>5, <1>6, <1>9
<1>11. \A p \in Inside' : length'[p] # 0 /\ (p # arriving' => length'[p] # 1)
  <2> SUFFICES ASSUME NEW p \in Inside'
               PROVE  length'[p] # 0 /\ (p # arriving' => length'[p] # 1)
    OBVIOUS
  <2>1. p \in Pkts /\ length[p] \in Nat
    BY <1>1, <1>3, <1>5
  <2>2. CASE p = Comes(w) /\ Takes(w)
    BY <1>1, <1>2, <1>3, <1>5, <2>1, <2>2 DEF Comes, Takes
  <2>3. CASE ~(p = Comes(w) /\ Takes(w))
    <3>1. p \in Inside /\ length'[p] = length[p]
      BY <1>1, <1>2, <2>1, <2>3 DEF Comes, Takes
    <3>2. p = arriving => p = arriving'
      BY <1>1, <1>3, <1>4, <1>5, <2>1, <2>3, <3>1, NoPktAssumption DEF Comes, Takes
    <3> QED BY <1>5, <3>1, <3>2
  <2> QED BY <2>2, <2>3
<1>12. \A p \in Pkts \ Inside' : length'[p] = 0
  BY <1>2
<1>13. arriving' # NoPkt => length'[arriving'] < MAX_WORDS
  <2>1. CASE Takes(w)
    BY <1>1, <1>3, <1>4, <1>9, <2>1 DEF Comes, Takes
  <2>2. CASE ~Takes(w) /\ arriving # NoPkt
    BY <1>1, <1>2, <1>3, <1>5, <2>2, NoPktAssumption DEF Takes, Waiting
  <2>3. CASE ~Takes(w) /\ arriving = NoPkt
    BY <1>3, <2>3 DEF Takes
  <2> QED BY <2>1, <2>2, <2>3
<1>14. /\ leaving'.pkt # NoPkt => leaving'.words < length'[leaving'.pkt]
       /\ leaving'.pkt = NoPkt => leaving'.words = 0
  <2>1. leaving' = IF pifo_remove THEN [pkt |-> pifo_offer, words |-> 0]
                   ELSE IF ~m_taken(tready) THEN leaving
                   ELSE IF m_axis_tlast THEN Nobody
                   ELSE [leaving EXCEPT !.words = @ + 1]
    BY DEF Cycle, Storage
  <2>2. /\ leaving \in [pkt : Pkts \cup {NoPkt}, words : Nat]
        /\ leaving'  \in [pkt : Pkts \cup {NoPkt}, words : Nat]
        /\ leaving.pkt = NoPkt <=> st_rfsm = "WAIT_REQUEST"
        /\ leaving.pkt # NoPkt => leaving.words < length[leaving.pkt]
        /\ leaving.pkt = NoPkt => leaving.words = 0
    BY RequestMoves DEF PacketsWhole, TmInv, MachinesHold
  <2>3. CASE pifo_remove
    <3>1. leaving' = [pkt |-> pifo_offer, words |-> 0] /\ pifo_offer # NoPkt
      BY <2>1, <2>3 DEF pifo_remove
    <3>2. leaving'.pkt \in Inside' /\ leaving'.pkt \in Pkts
      BY <1>1, <2>2, <3>1
    <3>3. length'[leaving'.pkt] # 0 /\ length'[leaving'.pkt] \in Nat
      BY <1>6, <1>10, <1>11, <3>2
    <3> QED BY <3>1, <3>3
  <2>4. CASE ~pifo_remove /\ (m_taken(tready) /\ m_axis_tlast)
    BY <2>1, <2>4 DEF Nobody
  <2>5. CASE ~pifo_remove /\ ~(m_taken(tready) /\ m_axis_tlast)
    <3>1. leaving'.pkt = leaving.pkt
          /\ leaving'.words = IF m_taken(tready) THEN leaving.words + 1 ELSE leaving.words
      BY <2>1, <2>2, <2>5
    <3>2. m_taken(tready) => leaving.pkt # NoPkt
      BY <2>2 DEF m_taken, m_axis_tvalid
    <3>3. leaving.pkt # NoPkt => /\ length[leaving.pkt] \in Nat
                                 /\ length'[leaving.pkt] \in Nat
                                 /\ length'[leaving.pkt] >= length[leaving.pkt]
      <4>1. leaving.pkt # NoPkt => leaving.pkt \in Inside' /\ leaving.pkt \in Pkts
        BY <1>1, <2>2, <2>5 DEF Finishes
      <4>2. \A p \in Pkts : length[p] \in Nat
        BY <1>5, <1>6
      <4> QED BY <1>2, <4>1, <4>2
    <3>4. m_taken(tready) => leaving.words + 1 < length[leaving.pkt]
      <4> SUFFICES ASSUME m_taken(tready)
                   PROVE  leaving.words + 1 < length[leaving.pkt]
        OBVIOUS
      <4>1. CASE leaving.pkt = arriving
        <5>1. /\ length[arriving] + pauses >= leaving.words + 5
              /\ pauses \in Nat /\ pauses <= 1
          BY <3>2, <4>1, SizesAssumption DEF LeadSound, m_taken, m_axis_tvalid
        <5> QED BY <2>2, <3>2, <3>3, <4>1, <5>1
      <4>2. CASE leaving.pkt # arriving
        BY <2>2, <2>5, <3>2, <3>3, <4>2 DEF m_axis_tlast
      <4> QED BY <4>1, <4>2
    <3>5. CASE m_taken(tready)
      <4>1. leaving.words + 1 < length[leaving.pkt] /\ leaving.pkt # NoPkt
        BY <3>2, <3>4, <3>5
      <4> QED BY <2>2, <3>1, <3>3, <3>5, <4>1
    <3>6. CASE ~m_taken(tready)
      BY <2>2, <3>1, <3>3, <3>6
    <3> QED BY <3>5, <3>6
  <2> QED BY <2>3, <2>4, <2>5
<1> QED BY <1>1, <1>7, <1>8, <1>10, <1>11, <1>12, <1>13, <1>14 DEF PacketsWhole, MAX_WORDS

(* A packet that still arrives gets a cycle older in every cycle.          *)
LEMMA LeadStep ==
  ASSUME TmInv, PacketsWhole, LeadSound,
         NEW w \in InputWords, NEW tready \in BOOLEAN, Cycle(w, tready)
  PROVE  LeadSound'
<1>1. /\ Accepts(w) => w.first \notin Inside /\ arriving = NoPkt
      /\ arriving \in (Pkts \cap Inside) \cup {NoPkt}
      /\ arriving' \in Waiting' \cup {leaving'.pkt, NoPkt}
      /\ Inside' = Waiting' \cup ({leaving'.pkt} \ {NoPkt})
  BY InsideMoves
<1>2. length' = [p \in Pkts |-> IF p \notin Inside' THEN 0
                                 ELSE IF p = Comes(w) /\ Takes(w) THEN length[p] + 1
                                 ELSE length[p]]
  BY WordCounted
<1>3. /\ arriving' = IF Accepts(w) THEN w.first
                     ELSE IF w.valid /\ w.last THEN NoPkt ELSE arriving
      /\ pauses' = IF arriving' = NoPkt THEN 0
                   ELSE IF arriving # NoPkt /\ ~w.valid THEN pauses + 1 ELSE pauses
      /\ Accepts(w) => w.first \in Pkts
  BY AcceptedIsNew DEF Cycle, Insertion, TmInv
<1>4. w.valid \/ arriving = NoPkt \/ pauses < MAX_PAUSE
  BY DEF InputWords, FirstWords, LaterWords
<1>5. pauses \in Nat /\ MAX_PAUSE \in Nat /\ pauses <= MAX_PAUSE
  BY SizesAssumption DEF LeadSound
<1>6. pauses' \in 0 .. MAX_PAUSE
  BY <1>3, <1>4, <1>5
<1>7. /\ pifo_held' = (pifo_held \cup (IF pifo_insert THEN {pifo_in_r} ELSE {}))
                        \ (IF pifo_remove THEN {pifo_offer} ELSE {})
      /\ pifo_offer' \in {NoPkt} \cup pifo_held
  BY DEF Cycle, Pifo
<1>8. leaving' = IF pifo_remove THEN [pkt |-> pifo_offer, words |-> 0]
                 ELSE IF ~m_taken(tready) THEN leaving
                 ELSE IF m_axis_tlast THEN Nobody
                 ELSE [leaving EXCEPT !.words = @ + 1]
  BY DEF Cycle, Storage
<1>9. CASE Accepts(w)
  <2>1. /\ arriving' = w.first /\ w.first \in Pkts \ Inside
    BY <1>1, <1>3, <1>9
  <2>2. ~pifo_insert
    BY <1>9 DEF Accepts, ifsm_pifo_ready, pifo_insert
  <2>3. w.first \notin pifo_held /\ w.first # leaving.pkt /\ w.first # pifo_offer
    BY <2>1, NoPktAssumption DEF Inside, TmInv, PlacesApart
  <2>4. w.first \notin pifo_held' /\ w.first # pifo_offer'
    BY <1>7, <2>1, <2>2, <2>3, NoPktAssumption
  <2>5. leaving'.pkt # w.first
    BY <1>8, <2>1, <2>3, NoPktAssumption DEF Nobody, TmInv, MachinesHold
  <2> QED BY <1>6, <2>1, <2>4, <2>5 DEF LeadSound
<1>10. CASE ~Accepts(w) /\ arriving' # NoPkt
  <2>1. arriving' = arriving /\ arriving # NoPkt /\ arriving \in Pkts /\ arriving \in Inside'
    BY <1>1, <1>3, <1>10
  <2>2. length[arriving] \in Nat /\ length[arriving] >= 1
    BY <1>1, <2>1, SizesAssumption DEF PacketsWhole, MAX_WORDS
  <2>3. length'[arriving] + pauses' = length[arriving] + pauses + 1
    <3>1. length'[arriving] = IF w.valid THEN length[arriving] + 1 ELSE length[arriving]
      BY <1>2, <1>10, <2>1 DEF Takes, Comes
    <3>2. pauses' = IF w.valid THEN pauses ELSE pauses + 1
      BY <1>3, <2>1
    <3> QED BY <1>5, <2>2, <3>1, <3>2
  <2>4. /\ arriving \in pifo_held => length[arriving] + pauses >= 2
        /\ pifo_offer = arriving => length[arriving] + pauses >= 3
        /\ leaving.pkt = arriving => length[arriving] + pauses
              >= leaving.words + (IF st_rfsm = "READ_BOTH_BRAM" THEN 4 ELSE 5)
    BY <2>1 DEF LeadSound
  <2>5. length'[arriving] + pauses' >= 2
    BY <1>5, <2>2, <2>3
  <2>6. pifo_offer' = arriving => length'[arriving] + pauses' >= 3
    BY <1>5, <1>7, <2>1, <2>2, <2>3, <2>4
  <2>7. leaving'.pkt = arriving => length'[arriving] + pauses'
              >= leaving'.words + (IF st_rfsm' = "READ_BOTH_BRAM" THEN 4 ELSE 5)
    <3>1. leaving \in [pkt : Pkts \cup {NoPkt}, words : Nat]
          /\ (leaving.pkt = NoPkt <=> st_rfsm = "WAIT_REQUEST")
      BY DEF TmInv, MachinesHold
    <3>2. CASE pifo_remove
      <4>1. st_rfsm' = "READ_BOTH_BRAM"
        BY <3>2 DEF Cycle, Storage, pifo_remove, storage_ptr_in_tready, m_axis_tvalid
      <4>2. leaving' = [pkt |-> pifo_offer, words |-> 0]
        BY <1>8, <3>2
      <4> QED BY <1>5, <2>2, <2>3, <2>4, <4>1, <4>2
    <3>3. CASE ~pifo_remove /\ st_rfsm = "READ_BOTH_BRAM"
      <4>1. leaving' = leaving
        BY <1>8, <3>3 DEF m_taken, m_axis_tvalid
      <4>2. st_rfsm' = "WAIT_BOTH_BRAM"
        BY <3>3 DEF Cycle, Storage, m_axis_tvalid
      <4> QED BY <1>5, <2>2, <2>3, <2>4, <3>1, <3>3, <4>1, <4>2
    <3>4. CASE ~pifo_remove /\ st_rfsm # "READ_BOTH_BRAM"
      <4>1. leaving'.pkt = arriving => leaving.pkt = arriving /\ leaving'.words <= leaving.words + 1
                                       /\ leaving'.words \in Nat
        BY <1>8, <2>1, <3>1, <3>4 DEF Nobody
      <4> QED BY <1>5, <2>2, <2>3, <2>4, <3>1, <3>4, <4>1
    <3> QED BY <3>2, <3>3, <3>4
  <2> QED BY <1>6, <2>1, <2>5, <2>6, <2>7 DEF LeadSound
<1>11. CASE ~Accepts(w) /\ arriving' = NoPkt
  BY <1>6, <1>11 DEF LeadSound
<1> QED BY <1>9, <1>10, <1>11

(* The counter of the input and the storage see the words of a packet as   *)
(* the insertion machine does.                                             *)
LEMMA InputStep ==
  ASSUME TmInv, PacketsWhole, InputInStep, NoWordLost,
         NEW w \in InputWords, NEW tready \in BOOLEAN, Cycle(w, tready)
  PROVE  /\ InputInStep'
         /\ s_q_inc_val(w) = Count(Takes(w) /\ Even(length[Comes(w)]))
         /\ Takes(w) /\ Even(length[Comes(w)]) => s_q_id(w) = queue'[Comes(w)]
         /\ Count(SegTaken(w)) + Count(st_ifsm = "WORD_ONE")
              = Count(Takes(w) /\ Even(length[Comes(w)])) + Count(st_ifsm' = "WORD_ONE")
<1>1. /\ ifsm' = IF ifsm = "WAIT_START"
                 THEN IF ~w.valid THEN ifsm
                      ELSE IF Accepts(w) THEN "FINISH_PKT" ELSE "DROP_PKT"
                 ELSE IF w.valid /\ w.last THEN "WAIT_START" ELSE ifsm
      /\ arriving' = IF Accepts(w) THEN w.first
                     ELSE IF w.valid /\ w.last THEN NoPkt ELSE arriving
      /\ Accepts(w) => /\ ifsm = "WAIT_START" /\ w.valid /\ w.first \in Pkts
                       /\ s_axis_tready_storage
  BY AcceptedIsNew DEF Cycle, Insertion, Accepts, TmInv
<1>2. /\ w.valid \in BOOLEAN /\ w.last \in BOOLEAN
      /\ w.last => w.valid /\ ifsm # "WAIT_START"
  BY WordOnInput
<1>3. /\ s_axis_tvalid_storage(w) <=> Takes(w)
      /\ Takes(w) => Comes(w) \in Inside'
      /\ length' = [p \in Pkts |-> IF p \notin Inside' THEN 0
                                   ELSE IF p = Comes(w) /\ Takes(w) THEN length[p] + 1
                                   ELSE length[p]]
      /\ queue' = [p \in Pkts |-> IF p \notin Inside' THEN 0
                                  ELSE IF Accepts(w) /\ p = w.first THEN w.q
                                  ELSE queue[p]]
  BY WordCounted
<1>4. /\ Inside' = (Inside \cup (IF Accepts(w) THEN {w.first} ELSE {}))
                     \ (IF Finishes(tready) THEN {leaving.pkt} ELSE {})
      /\ Accepts(w) => w.first \notin Inside /\ arriving = NoPkt
      /\ arriving \in Pkts \cup {NoPkt} /\ Inside \subseteq Pkts
      /\ arriving' \in Waiting' \cup {leaving'.pkt, NoPkt}
      /\ Inside' = Waiting' \cup ({leaving'.pkt} \ {NoPkt})
  BY InsideMoves
<1>5. /\ arriving = NoPkt <=> ifsm # "FINISH_PKT"
      /\ length \in [Pkts -> 0 .. MAX_WORDS]
      /\ \A p \in Pkts \ Inside : length[p] = 0
      /\ ifsm \in {"WAIT_START", "FINISH_PKT", "DROP_PKT"}
      /\ st_ifsm \in {"START_WORD", "WORD_ONE", "WORD_TWO"}
      /\ ifsm # "FINISH_PKT" <=> st_ifsm = "START_WORD"
  BY DEF PacketsWhole, TmInv, FramesInStep, PointersWithFirstWord
<1>6. /\ st_ifsm' = IF ~StorageTakes(w) THEN st_ifsm
                    ELSE IF st_ifsm = "START_WORD" THEN "WORD_TWO"
                    ELSE IF w.last THEN "START_WORD"
                    ELSE IF st_ifsm = "WORD_ONE" THEN "WORD_TWO" ELSE "WORD_ONE"
      /\ StorageTakes(w) <=> Takes(w)
  BY <1>1, <1>3, <1>5 DEF Cycle, Storage, StorageTakes, NoWordLost, Takes
<1>7. /\ s_q_state' = IF ~w.valid THEN s_q_state
                      ELSE IF s_q_state = "WAIT_START"
                      THEN IF pkt_in_accepted(w) THEN "WAIT_END_ENQ" ELSE "WAIT_END_DROP"
                      ELSE IF w.last THEN "WAIT_START" ELSE s_q_state
      /\ s_q_id_r' = IF s_q_inc_val(w) = 1 THEN s_q_id(w) ELSE s_q_id_r
      /\ s_q_update_size_r' =
           IF w.valid /\ s_q_state = "WAIT_END_ENQ" THEN ~s_q_update_size_r
           ELSE IF s_q_inc_val(w) = 1 THEN FALSE
           ELSE s_q_update_size_r
  BY DEF Cycle, InputCounter
<1>8. pkt_in_accepted(w) <=> Accepts(w) \/ ifsm = "FINISH_PKT"
  BY DEF pkt_in_accepted
<1>9. NoPkt \notin Pkts
  BY NoPktAssumption
<1>10. CASE Accepts(w)
  <2>1. /\ Takes(w) /\ Comes(w) = w.first /\ length[w.first] = 0
        /\ length'[w.first] = 1 /\ queue'[w.first] = w.q
    BY <1>1, <1>3, <1>4, <1>5, <1>10 DEF Takes, Comes
  <2>2. Even(0) /\ ~Even(1)
    BY DEF Even
  <2>3. s_q_state = "WAIT_START" /\ s_q_inc_val(w) = 1 /\ s_q_id(w) = w.q
    BY <1>1, <1>8, <1>10 DEF InputInStep, s_q_inc_val, s_q_id
  <2>4. /\ ifsm' = "FINISH_PKT" /\ arriving' = w.first /\ s_q_state' = "WAIT_END_ENQ"
        /\ s_q_id_r' = w.q /\ s_q_update_size_r' = FALSE
        /\ st_ifsm = "START_WORD" /\ st_ifsm' = "WORD_TWO"
    BY <1>1, <1>5, <1>6, <1>7, <1>8, <1>10, <2>1, <2>3
  <2>5. InputInStep'
    BY <2>1, <2>2, <2>4 DEF InputInStep
  <2> QED BY <1>6, <2>1, <2>2, <2>3, <2>4, <2>5 DEF SegTaken, Count
<1>11. CASE ~Accepts(w) /\ arriving # NoPkt /\ w.valid
  <2>1. /\ Takes(w) /\ Comes(w) = arriving /\ arriving \in Inside' /\ arriving \in Pkts
        /\ length'[arriving] = length[arriving] + 1 /\ length[arriving] \in Nat
    BY <1>3, <1>4, <1>5, <1>11 DEF Takes, Comes
  <2>2. queue'[arriving] = queue[arriving]
    BY <1>3, <1>11, <2>1
  <2>3. /\ ifsm = "FINISH_PKT" /\ s_q_state = "WAIT_END_ENQ"
        /\ s_q_id_r = queue[arriving] /\ s_q_update_size_r \in BOOLEAN
        /\ s_q_update_size_r <=> Even(length[arriving])
        /\ st_ifsm = "WORD_ONE" <=> Even(length[arriving])
        /\ st_ifsm # "START_WORD"
    BY <1>5, <1>11 DEF InputInStep
  <2>4. s_q_inc_val(w) = Count(Even(length[arriving])) /\ s_q_id(w) = queue[arriving]
    BY <1>11, <2>3 DEF s_q_inc_val, s_q_id, Count
  <2>5. Even(length[arriving] + 1) <=> ~Even(length[arriving])
    BY <2>1, OneMoreWord
  <2>6. /\ s_q_id_r' = queue[arriving]
        /\ s_q_update_size_r' <=> ~Even(length[arriving])
        /\ s_q_update_size_r' \in BOOLEAN
    BY <1>7, <1>11, <2>3, <2>4
  <2>7. /\ s_q_state' = IF w.last THEN "WAIT_START" ELSE "WAIT_END_ENQ"
        /\ ifsm' = IF w.last THEN "WAIT_START" ELSE "FINISH_PKT"
        /\ arriving' = IF w.last THEN NoPkt ELSE arriving
        /\ st_ifsm' = IF w.last THEN "START_WORD"
                      ELSE IF st_ifsm = "WORD_ONE" THEN "WORD_TWO" ELSE "WORD_ONE"
    BY <1>1, <1>6, <1>7, <1>11, <2>1, <2>3
  <2>8. InputInStep'
    BY <1>2, <1>5, <2>1, <2>2, <2>3, <2>5, <2>6, <2>7 DEF InputInStep
  <2>9. SegTaken(w) <=> st_ifsm = "WORD_TWO" /\ ~w.last
    BY <1>6, <2>1, <2>3 DEF SegTaken
  <2>10. Count(SegTaken(w)) + Count(st_ifsm = "WORD_ONE")
              = Count(Even(length[arriving])) + Count(st_ifsm' = "WORD_ONE")
    BY <1>2, <1>5, <2>3, <2>7, <2>9 DEF Count
  <2> QED BY <2>1, <2>2, <2>4, <2>8, <2>10 DEF Count
<1>12. CASE ~Accepts(w) /\ ~(arriving # NoPkt /\ w.valid)
  <2>1. ~Takes(w) /\ st_ifsm' = st_ifsm /\ ~SegTaken(w)
    BY <1>6, <1>12 DEF Takes, SegTaken
  <2>2. s_q_inc_val(w) = 0
    BY <1>5, <1>8, <1>12 DEF s_q_inc_val, InputInStep
  <2>3. InputInStep'
    <3>1. CASE arriving # NoPkt
      <4>1. ~w.valid /\ arriving' = arriving /\ ifsm' = ifsm
        BY <1>1, <1>2, <1>5, <1>12, <3>1
      <4>2. s_q_state' = s_q_state /\ s_q_id_r' = s_q_id_r /\ s_q_update_size_r' = s_q_update_size_r
        BY <1>7, <2>2, <4>1
      <4>3. arriving \in Inside' /\ arriving \in Pkts
        BY <1>4, <3>1, <4>1
      <4>4. length'[arriving] = length[arriving] /\ queue'[arriving] = queue[arriving]
        BY <1>3, <1>12, <2>1, <4>3
      <4> QED BY <2>1, <4>1, <4>2, <4>4 DEF InputInStep
    <3>2. CASE arriving = NoPkt
      <4>1. arriving' = NoPkt
        BY <1>1, <1>12, <3>2
      <4>2. s_q_update_size_r' \in BOOLEAN
        BY <1>7, <2>2 DEF InputInStep
      <4>3. <<ifsm', s_q_state'>> \in {<<"WAIT_START", "WAIT_START">>,
                              <<"FINISH_PKT", "WAIT_END_ENQ">>,
                              <<"DROP_PKT", "WAIT_END_DROP">>}
        BY <1>1, <1>2, <1>5, <1>7, <1>8, <1>12, <3>2 DEF InputInStep
      <4> QED BY <4>1, <4>2, <4>3 DEF InputInStep
    <3> QED BY <3>1, <3>2
  <2> QED BY <2>1, <2>2, <2>3 DEF Count
<1> QED BY <1>10, <1>11, <1>12

(* The counter of the output sees the words of a packet as the storage     *)
(* does, which gives a segment back no later than its first word leaves.   *)
LEMMA OutputStep ==
  ASSUME TmInv, PacketsWhole, OutputInStep,
         NEW w \in InputWords, NEW tready \in BOOLEAN, Cycle(w, tready)
  PROVE  /\ OutputInStep'
         /\ m_q_dec_val(tready) = Count(m_taken(tready) /\ Even(leaving.words))
         /\ m_taken(tready) => m_q_id(tready) = queue[leaving.pkt] /\ leaving.pkt # NoPkt
         /\ Count(free_list_written_r') + Count(m_taken(tready) /\ Even(leaving.words))
              = Count(free_list_written_r) + Count(SegBack)
         /\ leaving'.pkt = leaving.pkt /\ leaving.pkt # NoPkt
              => leaving'.words = IF m_taken(tready) THEN leaving.words + 1 ELSE leaving.words
         /\ leaving'.pkt # leaving.pkt => leaving'.words = 0
<1>1. leaving' = IF pifo_remove THEN [pkt |-> pifo_offer, words |-> 0]
                 ELSE IF ~m_taken(tready) THEN leaving
                 ELSE IF m_axis_tlast THEN Nobody
                 ELSE [leaving EXCEPT !.words = @ + 1]
  BY DEF Cycle, Storage
<1>2. /\ leaving \in [pkt : Pkts \cup {NoPkt}, words : Nat]
      /\ leaving.pkt = NoPkt <=> st_rfsm = "WAIT_REQUEST"
      /\ leaving.pkt = NoPkt => leaving.words = 0
      /\ st_rfsm \in {"WAIT_REQUEST", "READ_BOTH_BRAM", "WAIT_BOTH_BRAM",
                      "WAIT_SEG_BRAM", "WRITE_OUT_WORD_TWO"}
  BY DEF PacketsWhole, TmInv, MachinesHold
<1>3. leaving.pkt # NoPkt => leaving.pkt \in Inside
  BY InsideMoves
<1>4. /\ st_rfsm' =
           CASE st_rfsm = "WAIT_REQUEST" -> IF pifo_remove THEN "READ_BOTH_BRAM" ELSE st_rfsm
             [] st_rfsm = "READ_BOTH_BRAM" -> "WAIT_BOTH_BRAM"
             [] m_axis_tvalid ->
                  IF ~tready THEN st_rfsm
                  ELSE IF m_axis_tlast THEN "WAIT_REQUEST"
                  ELSE IF st_rfsm = "WRITE_OUT_WORD_TWO" THEN "WAIT_SEG_BRAM"
                  ELSE "WRITE_OUT_WORD_TWO"
      /\ free_list_written_r' <=>
           (st_rfsm \in {"WAIT_BOTH_BRAM", "WAIT_SEG_BRAM"} /\ ~tready)
      /\ free_list_written_r' \in BOOLEAN
  BY DEF Cycle, Storage
<1>5. /\ m_q_state' = IF ~m_taken(tready) THEN m_q_state
                      ELSE IF m_q_state = "WAIT_END" /\ m_axis_tlast
                      THEN "WAIT_START" ELSE "WAIT_END"
      /\ m_q_id_r' = m_q_id(tready)
      /\ m_q_update_size_r' = IF ~m_taken(tready) THEN m_q_update_size_r
                              ELSE m_q_state = "WAIT_END" /\ ~m_q_update_size_r
  BY DEF Cycle, OutputCounter
<1>6. /\ m_q_state = IF leaving.words = 0 THEN "WAIT_START" ELSE "WAIT_END"
      /\ m_q_update_size_r \in BOOLEAN /\ free_list_written_r \in BOOLEAN
      /\ leaving.words # 0 =>
           /\ m_q_id_r = queue[leaving.pkt]
           /\ m_q_update_size_r <=> Even(leaving.words)
      /\ st_rfsm = "WRITE_OUT_WORD_TWO" <=> ~Even(leaving.words)
      /\ st_rfsm = "WAIT_SEG_BRAM" => leaving.words # 0
      /\ st_rfsm \in {"WAIT_BOTH_BRAM", "READ_BOTH_BRAM"} => leaving.words = 0
      /\ free_list_written_r => st_rfsm \in {"WAIT_BOTH_BRAM", "WAIT_SEG_BRAM"}
  BY DEF OutputInStep
<1>7. /\ leaving.words \in Nat /\ Even(0)
      /\ Even(leaving.words + 1) <=> ~Even(leaving.words)
  BY <1>2, OneMoreWord, NoWords
<1>8. CASE pifo_remove
  <2>1. /\ st_rfsm = "WAIT_REQUEST" /\ ~m_taken(tready) /\ leaving.words = 0
        /\ pifo_offer # NoPkt /\ leaving.pkt = NoPkt
    BY <1>2, <1>8 DEF pifo_remove, storage_ptr_in_tready, m_taken, m_axis_tvalid
  <2>2. /\ st_rfsm' = "READ_BOTH_BRAM" /\ ~free_list_written_r'
        /\ leaving'.words = 0 /\ leaving'.pkt = pifo_offer
        /\ m_q_state' = "WAIT_START" /\ m_q_update_size_r' = m_q_update_size_r
    <3>1. st_rfsm' = "READ_BOTH_BRAM" /\ ~free_list_written_r'
      BY <1>4, <1>8, <2>1 DEF m_axis_tvalid
    <3>2. leaving'.words = 0 /\ leaving'.pkt = pifo_offer
      BY <1>1, <1>8
    <3>3. m_q_state' = "WAIT_START" /\ m_q_update_size_r' = m_q_update_size_r
      BY <1>5, <1>6, <2>1
    <3> QED BY <3>1, <3>2, <3>3
  <2>3. OutputInStep'
    BY <1>4, <1>6, <1>7, <2>2 DEF OutputInStep
  <2> QED BY <1>6, <2>1, <2>2, <2>3 DEF m_q_dec_val, Count, SegBack
<1>9. CASE ~pifo_remove /\ ~m_taken(tready)
  <2>1. leaving' = leaving /\ m_q_state' = m_q_state /\ m_q_id_r' = m_q_id_r
        /\ m_q_update_size_r' = m_q_update_size_r
    BY <1>1, <1>5, <1>9 DEF m_q_id
  <2>2. leaving.pkt # NoPkt => queue'[leaving.pkt] = queue[leaving.pkt]
    <3>1. leaving.pkt # NoPkt => leaving.pkt \in Inside' /\ leaving.pkt \in Pkts
                                 /\ (Accepts(w) => w.first # leaving.pkt)
      BY <1>2, <1>3, <1>9, InsideMoves DEF Finishes
    <3> QED BY <3>1, WordCounted
  <2>3. leaving.words # 0 => leaving.pkt # NoPkt
    BY <1>2
  <2>4. /\ st_rfsm' = IF st_rfsm = "READ_BOTH_BRAM" THEN "WAIT_BOTH_BRAM" ELSE st_rfsm
        /\ st_rfsm \in {"WAIT_BOTH_BRAM", "WAIT_SEG_BRAM"} => ~tready
        /\ free_list_written_r' <=> st_rfsm \in {"WAIT_BOTH_BRAM", "WAIT_SEG_BRAM"}
        /\ free_list_written_r' \in BOOLEAN
    BY <1>2, <1>4, <1>9 DEF m_taken, m_axis_tvalid
  <2>5. OutputInStep'
    BY <1>2, <1>6, <1>7, <2>1, <2>2, <2>3, <2>4 DEF OutputInStep
  <2>6. Count(free_list_written_r') = Count(free_list_written_r) + Count(SegBack)
    <3>1. SegBack <=> st_rfsm \in {"WAIT_BOTH_BRAM", "WAIT_SEG_BRAM"} /\ ~free_list_written_r
      BY DEF SegBack
    <3>2. CASE st_rfsm \in {"WAIT_BOTH_BRAM", "WAIT_SEG_BRAM"}
      BY <1>6, <2>4, <3>1, <3>2 DEF Count
    <3>3. CASE st_rfsm \notin {"WAIT_BOTH_BRAM", "WAIT_SEG_BRAM"}
      BY <1>6, <2>4, <3>1, <3>3 DEF Count
    <3> QED BY <3>2, <3>3
  <2>7. /\ Count(m_taken(tready) /\ Even(leaving.words)) = 0
        /\ m_q_dec_val(tready) = 0 /\ Count(free_list_written_r') \in Nat
    BY <1>9 DEF m_q_dec_val, Count
  <2> QED BY <1>9, <2>1, <2>5, <2>6, <2>7
<1>10. CASE ~pifo_remove /\ m_taken(tready)
  <2>1. /\ st_rfsm \in {"WAIT_BOTH_BRAM", "WAIT_SEG_BRAM", "WRITE_OUT_WORD_TWO"}
        /\ tready /\ leaving.pkt # NoPkt
    BY <1>2, <1>10 DEF m_taken, m_axis_tvalid
  <2>2. m_q_id(tready) = queue[leaving.pkt]
    BY <1>6, <1>10 DEF m_q_id
  <2>3. m_q_dec_val(tready) = Count(Even(leaving.words))
    BY <1>6, <1>7, <1>10 DEF m_q_dec_val, Count
  <2>4. /\ ~free_list_written_r' /\ free_list_written_r' \in BOOLEAN
        /\ Count(free_list_written_r') = 0
        /\ Count(Even(leaving.words)) = Count(free_list_written_r) + Count(SegBack)
        /\ Count(Even(leaving.words)) \in Nat
    <3>1. SegBack <=> st_rfsm \in {"WAIT_BOTH_BRAM", "WAIT_SEG_BRAM"} /\ ~free_list_written_r
      BY DEF SegBack
    <3>2. ~free_list_written_r' /\ free_list_written_r' \in BOOLEAN
      BY <1>4, <2>1
    <3>3. CASE st_rfsm \in {"WAIT_BOTH_BRAM", "WAIT_SEG_BRAM"}
      BY <1>6, <3>1, <3>2, <3>3 DEF Count
    <3>4. CASE st_rfsm \notin {"WAIT_BOTH_BRAM", "WAIT_SEG_BRAM"}
      BY <1>6, <2>1, <3>1, <3>2, <3>4 DEF Count
    <3> QED BY <3>2, <3>3, <3>4
  <2>5. st_rfsm' = IF m_axis_tlast THEN "WAIT_REQUEST"
                   ELSE IF st_rfsm = "WRITE_OUT_WORD_TWO" THEN "WAIT_SEG_BRAM"
                   ELSE "WRITE_OUT_WORD_TWO"
    BY <1>4, <2>1 DEF m_axis_tvalid
  <2>6. CASE m_axis_tlast
    <3>1. leaving.words # 0
      BY <1>3, <1>7, <2>1, <2>6 DEF m_axis_tlast, PacketsWhole
    <3>2. leaving'.pkt = NoPkt /\ leaving'.words = 0 /\ m_q_state' = "WAIT_START"
          /\ m_q_update_size_r' \in BOOLEAN
      BY <1>1, <1>5, <1>6, <1>10, <2>6, <3>1 DEF Nobody
    <3>3. OutputInStep'
      BY <1>7, <2>4, <2>5, <2>6, <3>2 DEF OutputInStep
    <3>4. m_q_dec_val(tready) = Count(m_taken(tready) /\ Even(leaving.words))
      BY <1>10, <2>3 DEF Count
    <3>5. Count(free_list_written_r') + Count(m_taken(tready) /\ Even(leaving.words))
           = Count(free_list_written_r) + Count(SegBack)
      <4>1. Count(m_taken(tready) /\ Even(leaving.words)) = Count(Even(leaving.words))
        BY <1>10 DEF Count
      <4>2. 0 + Count(Even(leaving.words)) = Count(Even(leaving.words))
        BY <2>4
      <4> HIDE DEF Count
      <4> QED BY <2>4, <4>1, <4>2
    <3> QED BY <1>10, <2>1, <2>2, <3>2, <3>3, <3>4, <3>5
  <2>7. CASE ~m_axis_tlast
    <3>1. /\ leaving'.pkt = leaving.pkt /\ leaving'.words = leaving.words + 1
          /\ m_q_state' = "WAIT_END" /\ m_q_id_r' = queue[leaving.pkt]
          /\ m_q_update_size_r' = (leaving.words # 0 /\ ~m_q_update_size_r)
      BY <1>1, <1>2, <1>5, <1>6, <1>10, <2>2, <2>7
    <3>2. queue'[leaving.pkt] = queue[leaving.pkt]
      <4>1. leaving.pkt \in Inside' /\ leaving.pkt \in Pkts
                                 /\ (Accepts(w) => w.first # leaving.pkt)
        BY <1>2, <1>3, <2>1, <2>7, InsideMoves DEF Finishes
      <4> QED BY <4>1, WordCounted
    <3>3. leaving.words + 1 # 0
      BY <1>7
    <3>4. m_q_update_size_r' <=> Even(leaving.words + 1)
      BY <1>6, <1>7, <3>1
    <3>5. m_q_update_size_r' \in BOOLEAN
      BY <3>1
    <3>6. /\ st_rfsm' = "WRITE_OUT_WORD_TWO" <=> ~Even(leaving.words + 1)
          /\ st_rfsm' \in {"WAIT_SEG_BRAM", "WRITE_OUT_WORD_TWO"}
      BY <1>6, <1>7, <2>1, <2>5, <2>7
    <3>7. OutputInStep'
      BY <2>4, <3>1, <3>2, <3>3, <3>4, <3>5, <3>6 DEF OutputInStep
    <3>8. m_q_dec_val(tready) = Count(m_taken(tready) /\ Even(leaving.words))
      BY <1>10, <2>3 DEF Count
    <3>9. Count(free_list_written_r') + Count(m_taken(tready) /\ Even(leaving.words))
           = Count(free_list_written_r) + Count(SegBack)
      <4>1. Count(m_taken(tready) /\ Even(leaving.words)) = Count(Even(leaving.words))
        BY <1>10 DEF Count
      <4>2. 0 + Count(Even(leaving.words)) = Count(Even(leaving.words))
        BY <2>4
      <4> HIDE DEF Count
      <4> QED BY <2>4, <4>1, <4>2
    <3> QED BY <1>10, <2>1, <2>2, <3>1, <3>7, <3>8, <3>9
  <2> QED BY <2>6, <2>7
<1> QED BY <1>8, <1>9, <1>10

-----------------------------------------------------------------------------
(* The segment that comes with the word on the input, if it begins one, and *)
(* the one that goes with the word on the output.                          *)
Begins(w) == Takes(w) /\ Even(length[Comes(w)])
New(w) == <<Comes(w), Chunks(length[Comes(w)]) + 1>>
Departs(tready) == m_taken(tready) /\ Even(leaving.words)
Old == <<leaving.pkt, Chunks(leaving.words) + 1>>

LEMMA SegmentsByLength ==
  ASSUME PacketsWhole, Inside \subseteq Pkts, leaving.words \in Nat
  PROVE  /\ AllSegments = {s \in Pkts \X (1 .. MAX_PKT_SIZE) :
                             Gone(s[1]) < s[2] /\ s[2] <= Chunks(length[s[1]])}
         /\ \A p \in Pkts : /\ length[p] \in Nat /\ length[p] <= 2 * MAX_PKT_SIZE
                            /\ Gone(p) \in Nat /\ Chunks(length[p]) \in Nat
                            /\ Chunks(length[p]) <= MAX_PKT_SIZE
<1>1. \A p \in Pkts : /\ length[p] \in Nat /\ length[p] <= 2 * MAX_PKT_SIZE
                      /\ p \notin Inside => length[p] = 0
  BY SizesAssumption DEF PacketsWhole, MAX_WORDS
<1>2. \A p \in Pkts : /\ Chunks(length[p]) \in Nat /\ Chunks(length[p]) <= MAX_PKT_SIZE
                      /\ Gone(p) \in Nat
  BY <1>1, OneMoreWord, NoWords, SizesAssumption DEF Gone
<1>3. \A p \in Pkts : p \notin Inside => Chunks(length[p]) = 0
  BY <1>1, NoWords
<1>4. \A p \in Pkts, k \in 1 .. MAX_PKT_SIZE :
        Gone(p) < k /\ k <= Chunks(length[p]) => p \in Inside
  BY <1>2, <1>3, SizesAssumption
<1>5. AllSegments = {s \in Pkts \X (1 .. MAX_PKT_SIZE) :
                       Gone(s[1]) < s[2] /\ s[2] <= Chunks(length[s[1]])}
  BY <1>4 DEF AllSegments
<1> QED BY <1>1, <1>2, <1>5

(* One cycle adds the segment that begins and takes the one that leaves.   *)
LEMMA SegmentsMove ==
  ASSUME TmInv, PacketsWhole, NEW w \in InputWords, NEW tready \in BOOLEAN,
         Cycle(w, tready), PacketsWhole', OutputInStep
  PROVE  /\ AllSegments' = (AllSegments \cup (IF Begins(w) THEN {New(w)} ELSE {}))
                             \ (IF Departs(tready) THEN {Old} ELSE {})
         /\ Begins(w) => New(w) \notin AllSegments
         /\ Departs(tready) => Old \in AllSegments
<1>1. /\ Inside' = (Inside \cup (IF Accepts(w) THEN {w.first} ELSE {}))
                     \ (IF Finishes(tready) THEN {leaving.pkt} ELSE {})
      /\ Inside = Waiting \cup ({leaving.pkt} \ {NoPkt})
      /\ Accepts(w) => w.first \notin Inside /\ arriving = NoPkt
      /\ Inside \subseteq Pkts
  BY InsideMoves
<1>2. /\ Takes(w) => Comes(w) \in Inside'
      /\ length' = [p \in Pkts |-> IF p \notin Inside' THEN 0
                                   ELSE IF p = Comes(w) /\ Takes(w) THEN length[p] + 1
                                   ELSE length[p]]
  BY WordCounted
<1>3. Inside' \subseteq Pkts
  BY <1>1, AcceptedIsNew DEF TmInv
<1>4. /\ leaving \in [pkt : Pkts \cup {NoPkt}, words : Nat]
      /\ leaving' \in [pkt : Pkts \cup {NoPkt}, words : Nat]
      /\ leaving.pkt # NoPkt => leaving.words < length[leaving.pkt]
  BY RequestMoves DEF TmInv, MachinesHold, PacketsWhole
<1>5. /\ m_taken(tready) => leaving.pkt # NoPkt
      /\ leaving'.pkt = leaving.pkt /\ leaving.pkt # NoPkt
              => leaving'.words = IF m_taken(tready) THEN leaving.words + 1 ELSE leaving.words
      /\ leaving'.pkt # leaving.pkt => leaving'.words = 0
  BY OutputStep
<1>6. /\ AllSegments = {s \in Pkts \X (1 .. MAX_PKT_SIZE) :
                          Gone(s[1]) < s[2] /\ s[2] <= Chunks(length[s[1]])}
      /\ \A p \in Pkts : /\ length[p] \in Nat /\ length[p] <= 2 * MAX_PKT_SIZE
                         /\ Gone(p) \in Nat /\ Chunks(length[p]) \in Nat
                         /\ Chunks(length[p]) <= MAX_PKT_SIZE
  BY <1>1, <1>4, SegmentsByLength
<1>7. /\ AllSegments' = {s \in Pkts \X (1 .. MAX_PKT_SIZE) :
                           Gone(s[1])' < s[2] /\ s[2] <= Chunks(length'[s[1]])}
      /\ \A p \in Pkts : /\ length'[p] \in Nat /\ length'[p] <= 2 * MAX_PKT_SIZE
                         /\ Gone(p)' \in Nat /\ Chunks(length'[p]) \in Nat
                         /\ Chunks(length'[p]) <= MAX_PKT_SIZE
  <2>1. (Inside \subseteq Pkts)' /\ (leaving.words \in Nat)'
    BY <1>3, <1>4
  <2>2. (/\ AllSegments = {s \in Pkts \X (1 .. MAX_PKT_SIZE) :
                             Gone(s[1]) < s[2] /\ s[2] <= Chunks(length[s[1]])}
         /\ \A p \in Pkts : /\ length[p] \in Nat /\ length[p] <= 2 * MAX_PKT_SIZE
                            /\ Gone(p) \in Nat /\ Chunks(length[p]) \in Nat
                            /\ Chunks(length[p]) <= MAX_PKT_SIZE)'
    BY <2>1, SegmentsByLength, PTL
  <2> QED BY <2>2 DEF Chunks
<1>8. ASSUME NEW p \in Pkts, ~(Finishes(tready) /\ p = leaving.pkt)
      PROVE  Chunks(length'[p]) = IF Begins(w) /\ p = Comes(w) THEN Chunks(length[p]) + 1
                                  ELSE Chunks(length[p])
  <2>1. CASE p = Comes(w) /\ Takes(w)
    <3>1. length'[p] = length[p] + 1 /\ (Begins(w) <=> Even(length[p]))
      BY <1>2, <2>1 DEF Begins
    <3> QED BY <1>6, <2>1, <3>1, OneMoreWord
  <2>2. CASE ~(p = Comes(w) /\ Takes(w))
    <3>1. p \in Inside' <=> p \in Inside
      BY <1>1, <1>8, <2>2 DEF Comes, Takes
    <3>2. p \notin Inside => length[p] = 0
      BY <1>8 DEF PacketsWhole
    <3> QED BY <1>2, <2>2, <3>1, <3>2 DEF Begins
  <2> QED BY <2>1, <2>2
<1>9. ASSUME NEW p \in Pkts, p = leaving.pkt
      PROVE  /\ Gone(p) = Chunks(leaving.words) /\ Chunks(leaving.words) \in Nat
             /\ Departs(tready) => Gone(p) + 1 <= Chunks(length[p])
             /\ Gone(p) <= Chunks(length[p])
             /\ Chunks(leaving.words + 1) = IF Even(leaving.words) THEN Gone(p) + 1 ELSE Gone(p)
  <2>1. leaving.words \in Nat /\ leaving.words < length[p] /\ length[p] \in Nat
    BY <1>4, <1>6, <1>9, NoPktAssumption
  <2>2. /\ Gone(p) = Chunks(leaving.words) /\ Chunks(leaving.words) \in Nat
        /\ Chunks(leaving.words + 1) = IF Even(leaving.words) THEN Chunks(leaving.words) + 1
                                       ELSE Chunks(leaving.words)
        /\ Chunks(leaving.words + 1) <= Chunks(length[p])
        /\ Chunks(leaving.words) <= Chunks(length[p])
    BY <1>9, <2>1, OneMoreWord DEF Gone
  <2> QED BY <2>2 DEF Departs
<1>10. ASSUME NEW p \in Pkts
       PROVE  /\ Gone(p) <= Chunks(length[p])
              /\ ~(Finishes(tready) /\ p = leaving.pkt) =>
                   Gone(p)' = IF Departs(tready) /\ p = leaving.pkt THEN Gone(p) + 1 ELSE Gone(p)
              /\ Finishes(tready) /\ p = leaving.pkt =>
                   /\ Chunks(length'[p]) = 0 /\ ~(Begins(w) /\ p = Comes(w))
                   /\ Chunks(length[p]) = IF Departs(tready) THEN Gone(p) + 1 ELSE Gone(p)
  <2>1. CASE p # leaving.pkt
    <3>1. leaving'.pkt = p => Chunks(leaving'.words) = 0
      BY <1>5, <2>1, NoWords
    <3> QED BY <1>6, <2>1, <3>1 DEF Gone, Chunks
  <2>2. CASE p = leaving.pkt /\ Finishes(tready)
    <3>1. p \notin Inside' /\ length'[p] = 0 /\ m_taken(tready)
          /\ length[p] = leaving.words + 1
      BY <1>1, <1>2, <2>2 DEF Finishes, m_axis_tlast
    <3>2. Chunks(length'[p]) = 0
      BY <3>1, NoWords
    <3>3. ~(Begins(w) /\ p = Comes(w))
      BY <1>2, <3>1 DEF Begins
    <3> QED BY <1>9, <2>2, <3>1, <3>2, <3>3 DEF Departs
  <2>3. CASE p = leaving.pkt /\ ~Finishes(tready)
    <3>1. p # NoPkt
      BY NoPktAssumption
    <3>2. leaving'.pkt = p
      <4>1. leaving' = IF pifo_remove THEN [pkt |-> pifo_offer, words |-> 0]
                       ELSE IF ~m_taken(tready) THEN leaving
                       ELSE IF m_axis_tlast THEN Nobody
                       ELSE [leaving EXCEPT !.words = @ + 1]
        BY DEF Cycle, Storage
      <4>2. ~pifo_remove
        BY <2>3, <3>1 DEF pifo_remove, storage_ptr_in_tready, TmInv, MachinesHold
      <4> QED BY <1>4, <2>3, <4>1, <4>2 DEF Finishes
    <3>3. leaving'.words = IF m_taken(tready) THEN leaving.words + 1 ELSE leaving.words
      BY <1>5, <2>3, <3>1, <3>2
    <3>4. Gone(p)' = Chunks(leaving'.words)
      BY <3>2 DEF Gone, Chunks
    <3>5. Gone(p)' = IF Departs(tready) THEN Gone(p) + 1 ELSE Gone(p)
      BY <1>9, <2>3, <3>3, <3>4 DEF Departs
    <3> QED BY <1>9, <2>3, <3>5
  <2> QED BY <2>1, <2>2, <2>3
<1>11. Begins(w) => Comes(w) \in Pkts /\ Takes(w)
  BY <1>2, <1>3 DEF Begins
<1>12. Departs(tready) => leaving.pkt \in Pkts
  BY <1>4, <1>5 DEF Departs
<1> HIDE DEF AllSegments
<1>13. Begins(w) => New(w) \notin AllSegments
  BY <1>6, <1>11 DEF New
<1>14. Departs(tready) => Old \in AllSegments
  <2> SUFFICES ASSUME Departs(tready) PROVE Old \in AllSegments
    OBVIOUS
  <2>1. /\ Gone(leaving.pkt) = Chunks(leaving.words) /\ Chunks(leaving.words) \in Nat
        /\ Gone(leaving.pkt) + 1 <= Chunks(length[leaving.pkt])
        /\ leaving.pkt \in Pkts
    BY <1>9, <1>12
  <2>2. Chunks(leaving.words) + 1 \in 1 .. MAX_PKT_SIZE
    BY <1>6, <2>1, SizesAssumption
  <2> QED BY <1>6, <2>1, <2>2 DEF Old
<1>15. ASSUME NEW p \in Pkts, NEW k \in 1 .. MAX_PKT_SIZE
       PROVE  <<p, k>> \in AllSegments' <=>
                /\ <<p, k>> \in AllSegments \/ (Begins(w) /\ <<p, k>> = New(w))
                /\ ~(Departs(tready) /\ <<p, k>> = Old)
  <2>1. <<p, k>> \in AllSegments <=> Gone(p) < k /\ k <= Chunks(length[p])
    BY <1>6
  <2>2. <<p, k>> \in AllSegments' <=> Gone(p)' < k /\ k <= Chunks(length'[p])
    BY <1>7
  <2>3. /\ Gone(p) \in Nat /\ Chunks(length[p]) \in Nat /\ k \in Nat
        /\ Gone(p)' \in Nat /\ Chunks(length'[p]) \in Nat
    BY <1>6, <1>7, SizesAssumption
  <2>4. /\ <<p, k>> = New(w) <=> p = Comes(w) /\ k = Chunks(length[p]) + 1
        /\ Departs(tready) /\ <<p, k>> = Old
             <=> Departs(tready) /\ p = leaving.pkt /\ k = Gone(p) + 1
    BY <1>9 DEF New, Old
  <2>5. CASE Finishes(tready) /\ p = leaving.pkt
    BY <1>10, <2>1, <2>2, <2>3, <2>4, <2>5
  <2>6. CASE ~(Finishes(tready) /\ p = leaving.pkt)
    <3>1. Chunks(length'[p]) = IF Begins(w) /\ p = Comes(w) THEN Chunks(length[p]) + 1
                               ELSE Chunks(length[p])
      BY <1>8, <2>6
    <3>2. Gone(p)' = IF Departs(tready) /\ p = leaving.pkt THEN Gone(p) + 1 ELSE Gone(p)
      BY <1>10, <2>6
    <3>3. /\ Gone(p) <= Chunks(length[p])
          /\ Departs(tready) /\ p = leaving.pkt => Gone(p) + 1 <= Chunks(length[p])
      BY <1>9, <1>10
    <3> QED BY <2>1, <2>2, <2>3, <2>4, <3>1, <3>2, <3>3
  <2> QED BY <2>5, <2>6
<1>16. Begins(w) => New(w) \in Pkts \X (1 .. MAX_PKT_SIZE)
  <2> SUFFICES ASSUME Begins(w) PROVE New(w) \in Pkts \X (1 .. MAX_PKT_SIZE)
    OBVIOUS
  <2>1. ~(Finishes(tready) /\ Comes(w) = leaving.pkt)
    BY <1>1, <1>2 DEF Begins
  <2>2. Comes(w) \in Pkts /\ Chunks(length'[Comes(w)]) = Chunks(length[Comes(w)]) + 1
    BY <1>8, <1>11, <2>1
  <2> QED BY <1>6, <1>7, <2>2, SizesAssumption DEF New
<1>17. AllSegments \subseteq Pkts \X (1 .. MAX_PKT_SIZE)
       /\ AllSegments' \subseteq Pkts \X (1 .. MAX_PKT_SIZE)
  BY <1>6, <1>7
<1>18. AllSegments' = (AllSegments \cup (IF Begins(w) THEN {New(w)} ELSE {}))
                        \ (IF Departs(tready) THEN {Old} ELSE {})
  <2>1. ASSUME NEW s \in Pkts \X (1 .. MAX_PKT_SIZE)
        PROVE  s \in AllSegments' <=>
                 /\ s \in AllSegments \/ (Begins(w) /\ s = New(w))
                 /\ ~(Departs(tready) /\ s = Old)
    <3>1. PICK p \in Pkts, k \in 1 .. MAX_PKT_SIZE : s = <<p, k>>
      BY <2>1
    <3> QED BY <1>15, <3>1
  <2> QED BY <1>16, <1>17, <2>1
<1> QED BY <1>13, <1>14, <1>18

(* Elements more and elements less.                                        *)
LEMMA CountMoves ==
  ASSUME NEW S, IsFiniteSet(S), NEW X, IsFiniteSet(X), X \cap S = {},
         NEW Y, Y \subseteq S, NEW T, T = (S \cup X) \ Y
  PROVE  /\ Cardinality(T) = Cardinality(S) + Cardinality(X) - Cardinality(Y)
         /\ Cardinality(S) \in Nat /\ Cardinality(T) \in Nat
<1>1. /\ IsFiniteSet(S \cup X)
      /\ Cardinality(S \cup X) = Cardinality(S) + Cardinality(X) - Cardinality(S \cap X)
  BY FS_Union
<1>2. S \cap X = {} /\ (S \cup X) \cap Y = Y
  OBVIOUS
<1>3. IsFiniteSet(T) /\ Cardinality(T) = Cardinality(S \cup X) - Cardinality((S \cup X) \cap Y)
  BY <1>1, FS_Difference
<1>4. Cardinality({}) = 0 /\ IsFiniteSet(Y)
  BY FS_EmptySet, FS_Subset
<1>5. /\ Cardinality(S) \in Nat /\ Cardinality(X) \in Nat /\ Cardinality(Y) \in Nat
      /\ Cardinality(T) \in Nat
  BY <1>3, <1>4, FS_CardinalityType
<1>6. Cardinality(T) = Cardinality(S \cup X) - Cardinality(Y)
  BY <1>2, <1>3
<1>7. Cardinality(S \cup X) = Cardinality(S) + Cardinality(X)
  <2>1. Cardinality(S \cap X) = 0
    BY <1>2, <1>4
  <2>2. Cardinality(S) + Cardinality(X) - 0 = Cardinality(S) + Cardinality(X)
    BY <1>5
  <2> QED BY <1>1, <2>1, <2>2
<1> QED BY <1>5, <1>6, <1>7

LEMMA CountOne ==
  ASSUME NEW b \in BOOLEAN, NEW x
  PROVE  /\ IsFiniteSet(IF b THEN {x} ELSE {})
         /\ Cardinality(IF b THEN {x} ELSE {}) = Count(b)
BY FS_EmptySet, FS_Singleton DEF Count

(* The packets inside and their segments are finitely many.                *)
LEMMA FinitelyMany ==
  ASSUME TmInv, PacketsWhole
  PROVE  IsFiniteSet(AllSegments) /\ \A q \in Queues : IsFiniteSet(Segments(q))
<1>1. IsFiniteSet(Inside)
  <2>1. IsFiniteSet(pifo_held \cup {pifo_in_r})
    BY FS_AddElement DEF TmInv, PlacesApart
  <2>2. IsFiniteSet((pifo_held \cup {pifo_in_r}) \cup {arriving})
    BY <2>1, FS_AddElement
  <2>3. IsFiniteSet(((pifo_held \cup {pifo_in_r}) \cup {arriving}) \cup {leaving.pkt})
    BY <2>2, FS_AddElement
  <2> QED BY <2>3, FS_Subset DEF Inside
<1>2. IsFiniteSet(Inside \X (1 .. MAX_PKT_SIZE))
  <2>1. IsFiniteSet(1 .. MAX_PKT_SIZE)
    BY FS_Interval, SizesAssumption
  <2> QED BY <1>1, <2>1, FS_Product
<1> QED BY <1>2, FS_Subset DEF AllSegments, Segments

(* The same for the segments of one queue.                                 *)
LEMMA QueueMoves ==
  ASSUME TmInv, PacketsWhole, NEW w \in InputWords, NEW tready \in BOOLEAN,
         Cycle(w, tready), PacketsWhole', OutputInStep, NEW q \in Queues
  PROVE  /\ Segments(q)' = (Segments(q) \cup (IF Begins(w) /\ queue'[Comes(w)] = q
                                              THEN {New(w)} ELSE {}))
                             \ (IF Departs(tready) /\ queue[leaving.pkt] = q
                                THEN {Old} ELSE {})
         /\ Begins(w) => New(w) \notin Segments(q)
         /\ Departs(tready) /\ queue[leaving.pkt] = q => Old \in Segments(q)
<1>1. /\ AllSegments' = (AllSegments \cup (IF Begins(w) THEN {New(w)} ELSE {}))
                          \ (IF Departs(tready) THEN {Old} ELSE {})
      /\ Begins(w) => New(w) \notin AllSegments
      /\ Departs(tready) => Old \in AllSegments
  BY SegmentsMove
<1>2. /\ Segments(q) = {s \in AllSegments : queue[s[1]] = q}
      /\ Segments(q)' = {s \in AllSegments' : queue'[s[1]] = q}
  BY DEF Segments, AllSegments
<1>3. ASSUME NEW s \in AllSegments, s \in AllSegments'
      PROVE  queue'[s[1]] = queue[s[1]]
  <2>1. s[1] \in Inside /\ s[1] \in Inside'
    BY <1>3 DEF AllSegments
  <2>2. s[1] \in Pkts /\ (Accepts(w) => w.first # s[1])
    BY <2>1, InsideMoves
  <2> QED BY <2>1, <2>2, WordCounted
<1>4. New(w)[1] = Comes(w) /\ Old[1] = leaving.pkt
  BY DEF New, Old
<1>5. Begins(w) /\ Departs(tready) => New(w) # Old
  BY <1>1
<1> HIDE DEF AllSegments, Segments, New, Old
<1> QED BY <1>1, <1>2, <1>3, <1>4, <1>5

(* The counters count the segments, and do not wrap: an accepted packet    *)
(* keeps its queue below the limit to its last word.                       *)
LEMMA CountsStep ==
  ASSUME TrafficInv, NoWordLost, NEW w \in InputWords, NEW tready \in BOOLEAN,
         Cycle(w, tready), PacketsWhole'
  PROVE  SegmentsCounted' /\ Limited'
<1>1. /\ TmInv /\ PacketsWhole /\ InputInStep /\ OutputInStep
      /\ SegmentsCounted /\ Limited
  BY DEF TrafficInv
<1>2. /\ s_q_inc_val(w) = Count(Begins(w))
      /\ Begins(w) => s_q_id(w) = queue'[Comes(w)]
      /\ Count(SegTaken(w)) + Count(st_ifsm = "WORD_ONE")
           = Count(Begins(w)) + Count(st_ifsm' = "WORD_ONE")
  BY <1>1, InputStep DEF Begins
<1>3. /\ m_q_dec_val(tready) = Count(Departs(tready))
      /\ Departs(tready) => m_q_id(tready) = queue[leaving.pkt]
      /\ Count(free_list_written_r') + Count(Departs(tready))
           = Count(free_list_written_r) + Count(SegBack)
  BY <1>1, OutputStep DEF Departs
<1>4. /\ Begins(w) \in BOOLEAN /\ Departs(tready) \in BOOLEAN
      /\ Count(Begins(w)) \in Nat /\ Count(Departs(tready)) \in Nat
  BY DEF Begins, Departs, Takes, Even, Count
<1>5. /\ QUEUE_LIMIT \in Int /\ Q_SIZES \in Nat \ {0} /\ QUEUE_LIMIT <= Q_SIZES
      /\ MAX_PKT_SIZE \in Nat \ {0} /\ SEGMENTS \in Int
  BY WidthAssumption, SizesAssumption, NumQueuesAssumption DEF QUEUE_LIMIT, SEGMENTS
<1> DEFINE in(q) == Count(Begins(w) /\ queue'[Comes(w)] = q)
           out(q) == Count(Departs(tready) /\ queue[leaving.pkt] = q)
<1>6. ASSUME NEW q \in Queues
      PROVE  /\ Cardinality(Segments(q)') = q_size[q] + in(q) - out(q)
             /\ Cardinality(Segments(q)') \in Nat /\ q_size[q] \in Nat
             /\ in(q) \in Nat /\ out(q) \in Nat
             /\ q_size'[q] = (q_size[q] + Q_SIZES + in(q) - out(q)) % Q_SIZES
  <2>1. q_size[q] = Cardinality(Segments(q)) /\ q_size[q] \in Nat /\ q_size' = [p \in Queues |->
          (q_size[p] + Q_SIZES
            + (IF s_q_id(w) = p THEN s_q_inc_val(w) ELSE 0)
            - (IF m_q_id(tready) = p THEN m_q_dec_val(tready) ELSE 0)) % Q_SIZES]
    BY <1>1 DEF SegmentsCounted, QueueSizeExact, Cycle, QueueSizes
  <2>2. /\ (IF s_q_id(w) = q THEN s_q_inc_val(w) ELSE 0) = in(q)
        /\ (IF m_q_id(tready) = q THEN m_q_dec_val(tready) ELSE 0) = out(q)
        /\ in(q) \in Nat /\ out(q) \in Nat
    BY <1>2, <1>3, <1>4 DEF Count
  <2>3. /\ Cardinality(Segments(q)') = Cardinality(Segments(q)) + in(q) - out(q)
        /\ Cardinality(Segments(q)') \in Nat
    <3> DEFINE b == Begins(w) /\ queue'[Comes(w)] = q
               d == Departs(tready) /\ queue[leaving.pkt] = q
               S == Segments(q)
               T == Segments(q)'
    <3>1. /\ T = (S \cup (IF b THEN {New(w)} ELSE {})) \ (IF d THEN {Old} ELSE {})
          /\ b => New(w) \notin S
          /\ d => Old \in S
      BY <1>1, QueueMoves
    <3>2. b \in BOOLEAN /\ d \in BOOLEAN /\ IsFiniteSet(S)
      BY <1>1, FinitelyMany
    <3>3. in(q) = Count(b) /\ out(q) = Count(d)
      OBVIOUS
    <3> HIDE DEF b, d, S, T, in, out
    <3> DEFINE X == IF b THEN {New(w)} ELSE {}
               Y == IF d THEN {Old} ELSE {}
    <3>4. T = (S \cup X) \ Y /\ X \cap S = {} /\ Y \subseteq S
      BY <3>1
    <3>5. IsFiniteSet(X) /\ Cardinality(X) = Count(b) /\ Cardinality(Y) = Count(d)
      BY <3>2, CountOne
    <3> HIDE DEF X, Y
    <3>6. /\ Cardinality(T) = Cardinality(S) + Cardinality(X) - Cardinality(Y)
          /\ Cardinality(T) \in Nat
      BY <3>2, <3>4, <3>5, CountMoves
    <3> QED BY <3>3, <3>5, <3>6 DEF S, T
  <2> HIDE DEF in, out
  <2>4. q_size'[q] = (q_size[q] + Q_SIZES + in(q) - out(q)) % Q_SIZES
    BY <2>1, <2>2
  <2> QED BY <2>1, <2>2, <2>3, <2>4
<1>7. Begins(w) => Takes(w) /\ Comes(w) \in Inside' /\ Comes(w) \in Pkts
  <2>1. Accepts(w) => w.first \in Pkts
    BY <1>1, AcceptedIsNew DEF TmInv
  <2>2. arriving \in Pkts \cup {NoPkt}
    BY <1>1, InsideMoves
  <2> QED BY <1>1, <2>1, <2>2, WordCounted DEF Begins, Takes, Comes
<1> HIDE DEF in, out
<1> DEFINE c(q) == q_size[q] + in(q) - out(q)
<1>8. /\ \A q \in Queues : c(q) = 0 \/ c(q) < QUEUE_LIMIT
      /\ arriving' # NoPkt =>
           c(queue'[arriving']) + MAX_PKT_SIZE < QUEUE_LIMIT + Chunks(length'[arriving'])
  <2>1. /\ \A q \in Queues : /\ q_size[q] \in Nat
                             /\ q_size[q] = 0 \/ q_size[q] < QUEUE_LIMIT
        /\ arriving # NoPkt => q_size[queue[arriving]] + MAX_PKT_SIZE
                                 < QUEUE_LIMIT + Chunks(length[arriving])
    BY <1>1 DEF Limited, SegmentsCounted
  <2>2. /\ arriving' = IF Accepts(w) THEN w.first
                       ELSE IF w.valid /\ w.last THEN NoPkt ELSE arriving
        /\ Accepts(w) => /\ w.first \in Pkts /\ w.q \in Queues /\ w.first \notin Inside
                         /\ q_size[w.q] < QUEUE_LIMIT - MAX_PKT_SIZE
    BY <1>1, AcceptedIsNew, WordOnInput, InsideMoves DEF Cycle, Insertion, Accepts, Room, TmInv
  <2>3. /\ length' = [p \in Pkts |-> IF p \notin Inside' THEN 0
                                     ELSE IF p = Comes(w) /\ Takes(w) THEN length[p] + 1
                                     ELSE length[p]]
        /\ queue' = [p \in Pkts |-> IF p \notin Inside' THEN 0
                                    ELSE IF Accepts(w) /\ p = w.first THEN w.q
                                    ELSE queue[p]]
        /\ Takes(w) => Comes(w) \in Inside'
    BY <1>1, WordCounted
  <2>4. /\ queue \in [Pkts -> Queues] /\ \A p \in Pkts : length[p] \in Nat
        /\ \A p \in Pkts \ Inside : length[p] = 0
        /\ \A p \in Pkts : length'[p] \in Nat /\ length'[p] <= 2 * MAX_PKT_SIZE
        /\ arriving' = NoPkt \/ (arriving' \in Inside' /\ arriving' \in Pkts)
    <3>1. /\ arriving' \in Waiting' \cup {leaving'.pkt, NoPkt}
          /\ Inside' = Waiting' \cup ({leaving'.pkt} \ {NoPkt})
      BY <1>1, InsideMoves
    <3>2. Waiting' \subseteq Pkts /\ leaving'.pkt \in Pkts \cup {NoPkt}
      BY <1>1, WaitingMoves, RequestMoves, NoPktAssumption DEF PlacesApart, Waiting
    <3> QED BY <1>1, <3>1, <3>2, <1>5 DEF PacketsWhole, MAX_WORDS
  <2>5. \A q \in Queues : /\ c(q) \in Nat
                          /\ Begins(w) /\ queue'[Comes(w)] = q => c(q) <= q_size[q] + 1
                          /\ ~(Begins(w) /\ queue'[Comes(w)] = q) => c(q) <= q_size[q]
    <3> SUFFICES ASSUME NEW q \in Queues
                 PROVE  /\ c(q) \in Nat
                        /\ Begins(w) /\ queue'[Comes(w)] = q => c(q) <= q_size[q] + 1
                        /\ ~(Begins(w) /\ queue'[Comes(w)] = q) => c(q) <= q_size[q]
      OBVIOUS
    <3>1. /\ Begins(w) /\ queue'[Comes(w)] = q => in(q) = 1
          /\ ~(Begins(w) /\ queue'[Comes(w)] = q) => in(q) = 0
      BY DEF in, Count
    <3> QED BY <1>6, <3>1
  <2> HIDE DEF c
  <2>6. CASE Accepts(w)
    <3>1. /\ Comes(w) = w.first /\ Takes(w) /\ arriving' = w.first
          /\ length'[w.first] = 1 /\ queue'[w.first] = w.q
      BY <2>2, <2>3, <2>4, <2>6 DEF Comes, Takes
    <3>2. Chunks(1) = 1
      BY DEF Chunks
    <3>3. c(w.q) + MAX_PKT_SIZE < QUEUE_LIMIT + 1
      BY <1>5, <2>1, <2>2, <2>5, <2>6
    <3>4. \A q \in Queues : c(q) = 0 \/ c(q) < QUEUE_LIMIT
      BY <1>5, <2>1, <2>2, <2>5, <2>6, <3>1, <3>3
    <3> QED BY <3>1, <3>2, <3>3, <3>4
  <2>7. CASE ~Accepts(w) /\ Takes(w)
    <3>1. /\ Comes(w) = arriving /\ arriving # NoPkt /\ arriving \in Inside' /\ arriving \in Pkts
          /\ length'[arriving] = length[arriving] + 1
          /\ queue'[arriving] = queue[arriving] /\ queue[arriving] \in Queues
      <4>1. Comes(w) = arriving /\ arriving # NoPkt
        BY <2>7 DEF Comes, Takes
      <4>2. arriving \in Inside' /\ arriving \in Pkts
        BY <1>1, <2>3, <2>7, <4>1, InsideMoves
      <4> QED BY <2>3, <2>4, <2>7, <4>1, <4>2
    <3>2. /\ Chunks(length'[arriving]) = IF Even(length[arriving]) THEN Chunks(length[arriving]) + 1
                                         ELSE Chunks(length[arriving])
          /\ Chunks(length[arriving]) \in Nat /\ Chunks(length'[arriving]) \in Nat
          /\ Chunks(length'[arriving]) <= MAX_PKT_SIZE
      BY <1>5, <2>4, <3>1, OneMoreWord
    <3>3. Begins(w) <=> Even(length[arriving])
      BY <2>7, <3>1 DEF Begins
    <3>4. c(queue[arriving]) + MAX_PKT_SIZE < QUEUE_LIMIT + Chunks(length'[arriving])
      BY <1>5, <2>1, <2>5, <3>1, <3>2, <3>3
    <3>5. \A q \in Queues : c(q) = 0 \/ c(q) < QUEUE_LIMIT
      BY <1>5, <2>1, <2>5, <3>1, <3>2, <3>4
    <3>6. arriving' # NoPkt => arriving' = arriving
      BY <2>2, <2>7
    <3> QED BY <3>1, <3>4, <3>5, <3>6
  <2>8. CASE ~Takes(w)
    <3>1. \A q \in Queues : c(q) \in Nat /\ c(q) <= q_size[q]
      BY <2>5, <2>8 DEF Begins
    <3>2. \A q \in Queues : c(q) = 0 \/ c(q) < QUEUE_LIMIT
      BY <1>5, <2>1, <3>1
    <3>3. arriving' # NoPkt => /\ arriving' = arriving /\ arriving \in Pkts
                              /\ length'[arriving] = length[arriving]
                              /\ queue'[arriving] = queue[arriving]
                              /\ queue[arriving] \in Queues /\ arriving # NoPkt
      BY <2>2, <2>3, <2>4, <2>8 DEF Takes
    <3>4. arriving' # NoPkt => Chunks(length[arriving]) \in Nat
      BY <2>4, <3>3, OneMoreWord
    <3> QED BY <1>5, <2>1, <3>1, <3>2, <3>3, <3>4
  <2> QED BY <2>6, <2>7, <2>8
<1>9. \A q \in Queues : q_size'[q] = c(q) /\ q_size'[q] = Cardinality(Segments(q)')
                        /\ q_size'[q] \in Nat
  <2> SUFFICES ASSUME NEW q \in Queues
               PROVE  q_size'[q] = c(q) /\ q_size'[q] = Cardinality(Segments(q)')
                        /\ q_size'[q] \in Nat
    OBVIOUS
  <2>1. c(q) \in Nat /\ c(q) < Q_SIZES /\ Cardinality(Segments(q)') = c(q)
    BY <1>5, <1>6, <1>8
  <2>2. q_size'[q] = (c(q) + Q_SIZES) % Q_SIZES
    <3>1. q_size[q] + Q_SIZES + in(q) - out(q) = c(q) + Q_SIZES
      BY <1>5, <1>6
    <3> QED BY <1>6, <3>1
  <2> HIDE DEF c
  <2>3. (c(q) + Q_SIZES) % Q_SIZES = c(q)
    BY <1>5, <2>1, NoWrap
  <2> QED BY <2>1, <2>2, <2>3
<1>10. q_size' \in [Queues -> Nat] /\ QueueSizeExact'
  <2>1. q_size' = [q \in Queues |-> q_size'[q]]
    BY DEF Cycle, QueueSizes
  <2>2. QueueSizeExact'
    BY <1>9 DEF QueueSizeExact
  <2> QED BY <1>9, <2>1, <2>2
<1>11. Limited'
  <2>1. \A q \in Queues : q_size'[q] = 0 \/ q_size'[q] < QUEUE_LIMIT
    BY <1>8, <1>9
  <2>2. arriving' # NoPkt => queue'[arriving'] \in Queues
    <3>1. queue' \in [Pkts -> Queues] /\ arriving' \in Waiting' \cup {leaving'.pkt, NoPkt}
      BY DEF PacketsWhole
    <3>2. Waiting' \subseteq Pkts /\ leaving'.pkt \in Pkts \cup {NoPkt}
      BY <1>1, WaitingMoves, RequestMoves, NoPktAssumption DEF PlacesApart, Waiting
    <3> QED BY <3>1, <3>2
  <2> QED BY <1>8, <1>9, <2>1, <2>2 DEF Limited, QUEUE_LIMIT, Chunks
<1>12. /\ segs_free' \in Int
       /\ (SEGMENTS - segs_free + Count(free_list_written_r)
             = Cardinality(AllSegments) + Count(st_ifsm = "WORD_ONE"))'
  <2> DEFINE b == Begins(w)
             d == Departs(tready)
             S == AllSegments
             T == AllSegments'
  <2>1. /\ T = (S \cup (IF b THEN {New(w)} ELSE {})) \ (IF d THEN {Old} ELSE {})
        /\ b => New(w) \notin S
        /\ d => Old \in S
    BY <1>1, SegmentsMove
  <2>2. b \in BOOLEAN /\ d \in BOOLEAN /\ IsFiniteSet(S)
    BY <1>1, <1>4, FinitelyMany
  <2> HIDE DEF b, d, S, T
  <2>3. /\ Cardinality(T) = Cardinality(S) + Count(b) - Count(d)
        /\ Cardinality(T) \in Nat /\ Cardinality(S) \in Nat
    <3> DEFINE X == IF b THEN {New(w)} ELSE {}
               Y == IF d THEN {Old} ELSE {}
    <3>1. T = (S \cup X) \ Y /\ X \cap S = {} /\ Y \subseteq S
      BY <2>1
    <3>2. IsFiniteSet(X) /\ Cardinality(X) = Count(b) /\ Cardinality(Y) = Count(d)
      BY <2>2, CountOne
    <3> HIDE DEF X, Y
    <3>3. /\ Cardinality(T) = Cardinality(S) + Cardinality(X) - Cardinality(Y)
          /\ Cardinality(T) \in Nat /\ Cardinality(S) \in Nat
      BY <2>2, <3>1, <3>2, CountMoves
    <3> QED BY <3>2, <3>3
  <2>4. PICK i \in Nat, o \in Nat, tk \in Nat, bk \in Nat, f \in Nat, g \in Nat, a \in Nat, e \in Nat :
          /\ i = Count(b) /\ o = Count(d) /\ tk = Count(SegTaken(w)) /\ bk = Count(SegBack)
          /\ f = Count(free_list_written_r) /\ g = Count(free_list_written_r')
          /\ a = Count(st_ifsm = "WORD_ONE") /\ e = Count(st_ifsm' = "WORD_ONE")
    BY DEF Count
  <2>5. /\ segs_free \in Int /\ segs_free' = segs_free - tk + bk
        /\ SEGMENTS - segs_free + f = Cardinality(S) + a
    BY <1>1, <2>4 DEF Cycle, Storage, SegmentsCounted, S
  <2>6. tk + a = i + e /\ g + o = f + bk
    BY <1>2, <1>3, <2>4 DEF b, d
  <2>7. SEGMENTS - segs_free' + g = Cardinality(T) + e /\ segs_free' \in Int
    BY <1>5, <2>3, <2>4, <2>5, <2>6
  <2> QED BY <2>4, <2>7 DEF T, SEGMENTS, Count
<1> QED BY <1>10, <1>11, <1>12 DEF SegmentsCounted

-----------------------------------------------------------------------------
(* There is room for every word: with two queues or more, the limits leave *)
(* a segment and a slot for meta data over when all queues are full.       *)
LEMMA Seats ==
  ASSUME NEW S, IsFiniteSet(S), NEW m \in Nat, Cardinality(S) <= m
  PROVE  \E f : f \in [S -> 1 .. m] /\ \A a, b \in S : f[a] = f[b] => a = b
<1>1. PICK n \in Nat : ExistsBijection(1 .. n, S)
  BY FS_NatBijection
<1>2. n <= m
  BY <1>1, FS_CountingElements
<1>3. ExistsBijection(S, 1 .. n)
  BY <1>1, Fun_ExistsBijSymmetric
<1>4. PICK f : f \in Bijection(S, 1 .. n)
  BY <1>3, Fun_ExistsBij
<1>5. f \in [S -> 1 .. n] /\ \A a, b \in S : f[a] = f[b] => a = b
  BY <1>4, Fun_BijectionProperties
<1>6. f \in [S -> 1 .. m]
  BY <1>2, <1>5
<1> QED BY <1>5, <1>6

LEMMA FewInEachQueue ==
  ASSUME NEW m \in Nat, NEW S, IsFiniteSet(S), NEW of \in [S -> Queues],
         \A q \in Queues : Cardinality({s \in S : of[s] = q}) <= m
  PROVE  Cardinality(S) <= NUM_QUEUES * m
<1> DEFINE In(q) == {s \in S : of[s] = q}
           Seat(q, f) == /\ f \in [In(q) -> 1 .. m]
                         /\ \A a, b \in In(q) : f[a] = f[b] => a = b
<1>1. \A q \in Queues : \E f : Seat(q, f)
  <2> SUFFICES ASSUME NEW q \in Queues PROVE \E f : Seat(q, f)
    OBVIOUS
  <2>1. IsFiniteSet(In(q)) /\ Cardinality(In(q)) <= m
    BY FS_Subset
  <2> QED BY <2>1, Seats
<1> DEFINE place == [q \in Queues |-> CHOOSE f : Seat(q, f)]
<1>2. \A q \in Queues : Seat(q, place[q])
  BY <1>1
<1> HIDE DEF place
<1> DEFINE seat == [s \in S |-> <<of[s], place[of[s]][s]>>]
<1>3. \A s \in S : of[s] \in Queues /\ s \in In(of[s])
  OBVIOUS
<1>4. seat \in Injection(S, Queues \X (1 .. m))
  <2>1. \A s \in S : seat[s] = <<of[s], place[of[s]][s]>>
    OBVIOUS
  <2>2. seat \in [S -> Queues \X (1 .. m)]
    <3>1. \A s \in S : place[of[s]][s] \in 1 .. m
      BY <1>2, <1>3
    <3> QED BY <1>3, <3>1
  <2> HIDE DEF seat
  <2>3. ASSUME NEW s \in S, NEW t \in S, seat[s] = seat[t]
        PROVE  s = t
    <3>1. of[s] = of[t] /\ place[of[s]][s] = place[of[s]][t]
      BY <2>1, <2>3
    <3> QED BY <1>2, <1>3, <3>1
  <2> QED BY <2>2, <2>3, Fun_IsInj
<1>5. IsFiniteSet(Queues) /\ Cardinality(Queues) = NUM_QUEUES
  BY FS_Interval, NumQueuesAssumption DEF Queues
<1>6. IsFiniteSet(1 .. m) /\ Cardinality(1 .. m) = m
  BY FS_Interval
<1>7. /\ IsFiniteSet(Queues \X (1 .. m))
      /\ Cardinality(Queues \X (1 .. m)) = NUM_QUEUES * m
  BY <1>5, <1>6, FS_Product
<1> HIDE DEF seat
<1> QED BY <1>4, <1>7, FS_Injection

LEMMA SegmentsInQueues ==
  ASSUME TrafficInv
  PROVE  /\ IsFiniteSet(AllSegments)
         /\ \A s \in AllSegments : s[1] \in Pkts /\ s[1] \in Inside /\ queue[s[1]] \in Queues
         /\ \A q \in Queues : /\ {s \in AllSegments : queue[s[1]] = q} = Segments(q)
                              /\ Cardinality(Segments(q)) = q_size[q]
                              /\ q_size[q] \in Nat
<1>1. TmInv /\ PacketsWhole /\ SegmentsCounted
  BY DEF TrafficInv
<1>2. IsFiniteSet(AllSegments)
  BY <1>1, FinitelyMany
<1>3. ASSUME NEW s \in AllSegments
      PROVE  s[1] \in Pkts /\ s[1] \in Inside /\ queue[s[1]] \in Queues
  <2>1. s[1] \in Inside
    BY DEF AllSegments
  <2>2. s[1] \in Pkts
    BY <1>1, <2>1, NoPktAssumption DEF Inside, TmInv, MachinesHold, PlacesApart, PacketsWhole, Waiting
  <2> QED BY <1>1, <2>1, <2>2 DEF PacketsWhole
<1>4. \A q \in Queues : {s \in AllSegments : queue[s[1]] = q} = Segments(q)
  BY DEF AllSegments, Segments
<1> QED BY <1>1, <1>2, <1>3, <1>4 DEF SegmentsCounted, QueueSizeExact

LEMMA AllSegmentsBounded ==
  ASSUME TrafficInv, QUEUE_LIMIT \in Nat \ {0}
  PROVE  /\ IsFiniteSet(AllSegments)
         /\ Cardinality(AllSegments) <= NUM_QUEUES * (QUEUE_LIMIT - 1)
<1> DEFINE of == [s \in AllSegments |-> queue[s[1]]]
<1>1. IsFiniteSet(AllSegments) /\ of \in [AllSegments -> Queues]
  BY SegmentsInQueues
<1>2. ASSUME NEW q \in Queues
      PROVE  Cardinality({s \in AllSegments : of[s] = q}) <= QUEUE_LIMIT - 1
  <2>1. {s \in AllSegments : of[s] = q} = Segments(q)
    BY SegmentsInQueues
  <2>2. q_size[q] = 0 \/ q_size[q] < QUEUE_LIMIT
    BY DEF TrafficInv, Limited
  <2>3. Cardinality(Segments(q)) = q_size[q] /\ q_size[q] \in Nat
    BY SegmentsInQueues
  <2>4. q_size[q] <= QUEUE_LIMIT - 1
    <3> HIDE DEF QUEUE_LIMIT
    <3> QED BY <2>2, <2>3
  <2> QED BY <2>1, <2>3, <2>4
<1> HIDE DEF of, QUEUE_LIMIT
<1> QED BY <1>1, <1>2, FewInEachQueue

(* A packet that holds a meta data slot still holds its first segment.     *)
LEMMA SlotsWithSegments ==
  ASSUME TrafficInv
  PROVE  Cardinality(Waiting) + Count(Requested) <= Cardinality(AllSegments)
<1>1. TmInv /\ PacketsWhole /\ OutputInStep
  BY DEF TrafficInv
<1> DEFINE X == IF Requested THEN {leaving.pkt} ELSE {}
           holders == (Waiting \cup X) \ {}
<1>2. IsFiniteSet(Waiting) /\ IsFiniteSet(AllSegments)
  BY <1>1, FinitelyMany, FS_AddElement, FS_Subset DEF TmInv, PlacesApart, Waiting
<1>3. Requested \in BOOLEAN
  BY DEF Requested
<1>4. IsFiniteSet(X) /\ Cardinality(X) = Count(Requested) /\ X \cap Waiting = {}
  BY <1>1, <1>3, CountOne DEF PacketsWhole
<1>5. Cardinality(holders) = Cardinality(Waiting) + Count(Requested)
  <2> HIDE DEF X
  <2>1. Cardinality(holders) = Cardinality(Waiting) + Cardinality(X) - Cardinality({})
    BY <1>2, <1>4, CountMoves
  <2>2. Cardinality({}) = 0 /\ Cardinality(Waiting) \in Nat /\ Cardinality(X) \in Nat
    BY <1>2, <1>4, FS_EmptySet, FS_CardinalityType
  <2>3. Cardinality(Waiting) + Cardinality(X) - 0 = Cardinality(Waiting) + Cardinality(X)
    BY <2>2
  <2> QED BY <1>4, <2>1, <2>2, <2>3
<1>6. ASSUME NEW p \in holders
      PROVE  <<p, 1>> \in AllSegments
  <2>1. p \in Waiting \/ (Requested /\ p = leaving.pkt)
    BY <1>6
  <2>2. p \in Inside /\ p # NoPkt
    BY <2>1 DEF Waiting, Requested, Inside
  <2>3. p \in Pkts
    BY <1>1, <2>2 DEF Inside, TmInv, MachinesHold, PlacesApart, PacketsWhole, Waiting
  <2>4. Gone(p) = 0
    <3>1. Requested => leaving.words = 0
      BY <1>1 DEF OutputInStep, Requested
    <3> QED BY <1>1, <2>1, <3>1, NoWords DEF Gone, PacketsWhole
  <2>5. length[p] \in Nat /\ length[p] # 0
    BY <1>1, <2>2, <2>3, SizesAssumption DEF PacketsWhole, MAX_WORDS
  <2>6. Chunks(length[p]) \in Nat /\ Chunks(length[p]) >= 1
    BY <2>5, OneMoreWord
  <2>7. 1 \in 1 .. MAX_PKT_SIZE
    BY SizesAssumption
  <2> QED BY <2>2, <2>4, <2>6, <2>7 DEF AllSegments
<1> HIDE DEF holders
<1> DEFINE first == [p \in holders |-> <<p, 1>>]
<1>7. first \in Injection(holders, AllSegments)
  <2>1. first \in [holders -> AllSegments] /\ \A p \in holders : first[p] = <<p, 1>>
    BY <1>6
  <2> HIDE DEF first
  <2>2. \A p, r \in holders : first[p] = first[r] => p = r
    BY <2>1
  <2> QED BY <2>1, <2>2, Fun_IsInj
<1> HIDE DEF first
<1> QED BY <1>2, <1>5, <1>7, FS_Injection

LEMMA LimitsFit == NUM_QUEUES * QUEUE_LIMIT <= STORAGE_MAX_PKTS /\ QUEUE_LIMIT \in Nat
BY SizesAssumption, NumQueuesAssumption DEF QUEUE_LIMIT

LEMMA RoomForAll ==
  ASSUME TrafficInv, NUM_QUEUES >= 2
  PROVE  NoWordLost
<1> SUFFICES ASSUME ifsm = "FINISH_PKT", st_ifsm # "WORD_ONE"
             PROVE  segs_free > 0 /\ metas_free > 0
  BY DEF NoWordLost, s_axis_tready_storage
<1>1. /\ TmInv /\ PacketsWhole /\ SegmentsCounted /\ Limited
      /\ NUM_QUEUES \in Nat /\ SEGMENTS = STORAGE_MAX_PKTS - 1 /\ STORAGE_MAX_PKTS \in Nat
  BY NumQueuesAssumption, SizesAssumption DEF TrafficInv, SEGMENTS
<1>2. NUM_QUEUES * QUEUE_LIMIT <= STORAGE_MAX_PKTS /\ QUEUE_LIMIT \in Nat
  BY LimitsFit
<1>3. QUEUE_LIMIT # 0
  <2>1. arriving # NoPkt /\ arriving \in Pkts
    BY <1>1 DEF PacketsWhole, Waiting, TmInv, PlacesApart, MachinesHold
  <2>2. /\ length[arriving] \in Nat /\ length[arriving] <= 2 * MAX_PKT_SIZE
        /\ queue[arriving] \in Queues /\ MAX_PKT_SIZE \in Nat
    BY <1>1, <2>1, SizesAssumption DEF PacketsWhole, MAX_WORDS
  <2>3. Chunks(length[arriving]) <= MAX_PKT_SIZE /\ Chunks(length[arriving]) \in Nat
    BY <2>2, OneMoreWord
  <2>4. q_size[queue[arriving]] + MAX_PKT_SIZE < QUEUE_LIMIT + Chunks(length[arriving])
        /\ q_size[queue[arriving]] \in Nat
    BY <1>1, <2>1, <2>2 DEF Limited, SegmentsCounted
  <2> QED BY <1>2, <2>2, <2>3, <2>4
<1>4. /\ Cardinality(AllSegments) <= NUM_QUEUES * (QUEUE_LIMIT - 1)
      /\ Cardinality(AllSegments) \in Nat
  BY <1>2, <1>3, AllSegmentsBounded, FS_CardinalityType
<1> HIDE DEF QUEUE_LIMIT, SEGMENTS, AllSegments
<1>5. NUM_QUEUES * (QUEUE_LIMIT - 1) = NUM_QUEUES * QUEUE_LIMIT - NUM_QUEUES
  BY <1>1, <1>2
<1>6. Cardinality(AllSegments) < SEGMENTS /\ SEGMENTS \in Int
  <2>1. NUM_QUEUES * QUEUE_LIMIT \in Nat
    BY <1>1, <1>2
  <2> QED BY <1>1, <1>2, <1>4, <1>5, <2>1
<1>7. segs_free > 0
  <2>1. /\ segs_free \in Int
        /\ SEGMENTS - segs_free + Count(free_list_written_r) = Cardinality(AllSegments) + 0
    BY <1>1 DEF SegmentsCounted, Count
  <2>2. Count(free_list_written_r) \in Nat
    BY DEF Count
  <2> QED BY <1>4, <1>6, <2>1, <2>2
<1>8. metas_free > 0
  <2>1. Cardinality(Waiting) + Count(Requested) <= Cardinality(AllSegments)
    BY SlotsWithSegments
  <2>2. metas_free \in Int /\ SEGMENTS - metas_free = Cardinality(Waiting) + Count(Requested)
    BY <1>1 DEF TmInv
  <2> QED BY <1>4, <1>6, <2>1, <2>2
<1> QED BY <1>7, <1>8

(* A queue that admits a packet can be filled up with the longest one.     *)
LEMMA RoomForOneMore ==
  ASSUME TrafficInv, NEW p \in Pkts \ Inside, NEW q \in Queues,
         q_size[q] < QUEUE_LIMIT - MAX_PKT_SIZE
  PROVE  /\ Cardinality(AllSegments) + MAX_PKT_SIZE <= NUM_QUEUES * (QUEUE_LIMIT - 1)
         /\ Cardinality(AllSegments) \in Nat
<1> DEFINE more == {p} \X (1 .. MAX_PKT_SIZE)
           S == AllSegments \cup more
           of == [s \in S |-> IF s[1] = p THEN q ELSE queue[s[1]]]
<1>1. /\ IsFiniteSet(AllSegments)
      /\ \A s \in AllSegments : s[1] # p /\ queue[s[1]] \in Queues
      /\ \A r \in Queues : /\ {s \in AllSegments : queue[s[1]] = r} = Segments(r)
                           /\ Cardinality(Segments(r)) = q_size[r]
                           /\ q_size[r] \in Nat
                           /\ q_size[r] = 0 \/ q_size[r] < QUEUE_LIMIT
  BY SegmentsInQueues DEF TrafficInv, Limited
<1>2. \A s \in more : s[1] = p
  OBVIOUS
<1>3. IsFiniteSet(more) /\ Cardinality(more) = MAX_PKT_SIZE /\ MAX_PKT_SIZE \in Nat \ {0}
  <2>1. IsFiniteSet({p}) /\ Cardinality({p}) = 1
    BY FS_Singleton
  <2>2. IsFiniteSet(1 .. MAX_PKT_SIZE) /\ Cardinality(1 .. MAX_PKT_SIZE) = MAX_PKT_SIZE
    BY FS_Interval, SizesAssumption
  <2>3. /\ IsFiniteSet({p} \X (1 .. MAX_PKT_SIZE))
        /\ Cardinality({p} \X (1 .. MAX_PKT_SIZE))
             = Cardinality({p}) * Cardinality(1 .. MAX_PKT_SIZE)
    BY <2>1, <2>2, FS_Product
  <2>4. Cardinality({p} \X (1 .. MAX_PKT_SIZE)) = MAX_PKT_SIZE
    BY <2>1, <2>2, <2>3, SizesAssumption
  <2> QED BY <2>3, <2>4, SizesAssumption
<1> HIDE DEF AllSegments, more
<1>4. /\ IsFiniteSet(S) /\ Cardinality(S) = Cardinality(AllSegments) + MAX_PKT_SIZE
      /\ Cardinality(AllSegments) \in Nat
  <2>1. more \cap AllSegments = {}
    BY <1>1, <1>2
  <2>2. /\ IsFiniteSet(S) /\ Cardinality(AllSegments \cap more) = 0
        /\ Cardinality(S) = Cardinality(AllSegments) + Cardinality(more)
                              - Cardinality(AllSegments \cap more)
    BY <1>1, <1>3, <2>1, FS_Union, FS_EmptySet
  <2>3. Cardinality(AllSegments) \in Nat
    BY <1>1, FS_CardinalityType
  <2> HIDE DEF S
  <2> QED BY <1>3, <2>2, <2>3
<1>5. of \in [S -> Queues]
  BY <1>1, <1>2
<1>6. QUEUE_LIMIT \in Nat /\ QUEUE_LIMIT - 1 \in Nat
  <2>1. QUEUE_LIMIT \in Nat
    BY LimitsFit
  <2> HIDE DEF QUEUE_LIMIT
  <2> QED BY <1>1, <1>3, <2>1
<1>7. ASSUME NEW r \in Queues
      PROVE  Cardinality({s \in S : of[s] = r}) <= QUEUE_LIMIT - 1
  <2>1. CASE r = q
    <3>1. {s \in S : of[s] = r} = Segments(q) \cup more /\ Segments(q) \cap more = {}
      BY <1>1, <1>2, <2>1
    <3>2. IsFiniteSet(Segments(q))
      BY <1>1, FS_Subset
    <3>3. /\ Cardinality(Segments(q) \cup more) = Cardinality(Segments(q)) + Cardinality(more)
                                                     - Cardinality(Segments(q) \cap more)
          /\ Cardinality(Segments(q) \cap more) = 0
      BY <1>3, <3>1, <3>2, FS_Union, FS_EmptySet
    <3>4. q_size[q] + MAX_PKT_SIZE <= QUEUE_LIMIT - 1
      <4> HIDE DEF QUEUE_LIMIT
      <4> QED BY <1>1, <1>3, <1>6
    <3>5. Cardinality(Segments(q) \cup more) = q_size[q] + MAX_PKT_SIZE
      BY <1>1, <1>3, <3>3
    <3> QED BY <3>1, <3>4, <3>5
  <2>2. CASE r # q
    <3>1. {s \in S : of[s] = r} = Segments(r)
      BY <1>1, <1>2, <2>2
    <3>2. q_size[r] <= QUEUE_LIMIT - 1
      <4> HIDE DEF QUEUE_LIMIT
      <4> QED BY <1>1, <1>6
    <3> QED BY <1>1, <3>1, <3>2
  <2> QED BY <2>1, <2>2
<1> HIDE DEF QUEUE_LIMIT, S, of
<1> QED BY <1>4, <1>5, <1>6, <1>7, FewInEachQueue

-----------------------------------------------------------------------------
LEMMA TrafficInit == Init => TrafficInv
<1> SUFFICES ASSUME Init PROVE TrafficInv
  OBVIOUS
<1>1. TmInv
  BY TmInit
<1>2. Waiting = {} /\ Inside = {}
  BY DEF Init, Waiting, Inside, Nobody
<1>3. 0 \in Queues /\ 0 \in 0 .. MAX_WORDS
  BY SizesAssumption, NumQueuesAssumption DEF Queues, MAX_WORDS
<1>4. PacketsWhole
  BY <1>2, <1>3 DEF Init, PacketsWhole, Nobody
<1>5. InputInStep /\ OutputInStep
  BY NoWords DEF Init, InputInStep, OutputInStep, Nobody
<1>6. AllSegments = {} /\ \A q \in Queues : Segments(q) = {}
  BY <1>2 DEF AllSegments, Segments
<1>7. Cardinality({}) = 0
  BY FS_EmptySet
<1>8. SegmentsCounted
  <2>1. q_size \in [Queues -> Nat] /\ QueueSizeExact
    BY <1>6, <1>7 DEF Init, QueueSizeExact
  <2>2. SEGMENTS \in Int /\ segs_free = SEGMENTS
    BY SizesAssumption DEF Init, SEGMENTS
  <2>3. Count(free_list_written_r) = 0 /\ Count(st_ifsm = "WORD_ONE") = 0
    BY DEF Init, Count
  <2> HIDE DEF SEGMENTS
  <2> QED BY <1>6, <1>7, <2>1, <2>2, <2>3 DEF SegmentsCounted
<1>9. Limited /\ LeadSound
  BY SizesAssumption DEF Init, Limited, LeadSound
<1> QED BY <1>1, <1>4, <1>5, <1>8, <1>9 DEF TrafficInv

LEMMA TrafficStep ==
  TrafficInv /\ NUM_QUEUES >= 2 /\ MAX_PAUSE <= 1 /\ [Next]_vars => TrafficInv'
<1> SUFFICES ASSUME TrafficInv, NUM_QUEUES >= 2, MAX_PAUSE <= 1, [Next]_vars
             PROVE  TrafficInv'
  OBVIOUS
<1>1. TmInv /\ PacketsWhole /\ InputInStep /\ OutputInStep /\ LeadSound /\ NoWordLost
  BY RoomForAll DEF TrafficInv
<1>2. CASE Next
  <2>1. PICK w \in InputWords, tready \in BOOLEAN : Cycle(w, tready)
    BY <1>2 DEF Next
  <2>2. TmInv'
    BY <1>1, <1>2, TmStep
  <2>3. PacketsWhole'
    BY <1>1, <2>1, PacketsStep
  <2>4. InputInStep' /\ OutputInStep'
    BY <1>1, <2>1, InputStep, OutputStep
  <2>5. SegmentsCounted' /\ Limited'
    BY <1>1, <2>1, <2>3, CountsStep
  <2>6. LeadSound'
    BY <1>1, <2>1, LeadStep
  <2> QED BY <2>2, <2>3, <2>4, <2>5, <2>6 DEF TrafficInv
<1>3. CASE UNCHANGED vars
  <2>1. TmInv'
    BY <1>1, <1>3 DEF vars, ifsmVars, storageVars, pifoVars, TmInv, MachinesHold,
                PlacesApart, FramesInStep, PointersWithFirstWord, Waiting, Requested,
                SEGMENTS, Count
  <2>2. PacketsWhole'
    BY <1>1, <1>3 DEF vars, ifsmVars, pifoVars, PacketsWhole, Waiting, Inside
  <2>3. InputInStep' /\ OutputInStep'
    BY <1>1, <1>3 DEF vars, ifsmVars, sqVars, mqVars, storageVars, InputInStep, OutputInStep, Even
  <2>4. AllSegments' = AllSegments /\ \A q : Segments(q)' = Segments(q)
    BY <1>3 DEF vars, ifsmVars, pifoVars, AllSegments, Segments, Inside, Gone, Chunks
  <2>5. SegmentsCounted'
    BY <1>3, <2>4 DEF vars, storageVars, SegmentsCounted, QueueSizeExact, TrafficInv, SEGMENTS, Count
  <2>6. Limited'
    BY <1>3 DEF vars, Limited, TrafficInv, QUEUE_LIMIT, Chunks
  <2>7. LeadSound'
    BY <1>1, <1>3 DEF vars, storageVars, pifoVars, LeadSound
  <2> QED BY <2>1, <2>2, <2>3, <2>5, <2>6, <2>7 DEF TrafficInv
<1> QED BY <1>2, <1>3

LEMMA TrafficInvariant == NUM_QUEUES >= 2 /\ MAX_PAUSE <= 1 => (Spec => []TrafficInv)
<1> SUFFICES ASSUME NUM_QUEUES >= 2, MAX_PAUSE <= 1 PROVE Spec => []TrafficInv
  OBVIOUS
<1>1. TrafficInv /\ [Next]_vars => TrafficInv'
  BY TrafficStep
<1> QED BY <1>1, TrafficInit, PTL DEF Spec

-----------------------------------------------------------------------------
(* With the two queues or more that the traffic manager has outputs for,   *)
(* the storage takes every word of a packet that was accepted: tready is   *)
(* rightly left high towards the input.                                    *)
THEOREM TrafficLosesNoWord ==
  ASSUME NUM_QUEUES >= 2, MAX_PAUSE <= 1
  PROVE  Spec => []NoWordLost
<1>1. TrafficInv => NoWordLost
  BY RoomForAll
<1> QED BY <1>1, TrafficInvariant, PTL

(* A queue size is the number of segments of the queue's packets that have *)
(* arrived and have not begun to leave, whatever arrives and leaves in the *)
(* same cycle: the counters neither drift nor wrap.                        *)
THEOREM TrafficCountsExactly ==
  ASSUME NUM_QUEUES >= 2, MAX_PAUSE <= 1
  PROVE  Spec => []QueueSizeExact
<1>1. TrafficInv => QueueSizeExact
  BY DEF TrafficInv, SegmentsCounted
<1> QED BY <1>1, TrafficInvariant, PTL

(* The storage hands out the pointers in the cycle of the first word of a  *)
(* packet: both sides agree on where packets begin.                        *)
THEOREM TrafficPointersInTime ==
  ASSUME NUM_QUEUES >= 2, MAX_PAUSE <= 1
  PROVE  Spec => []PointersWithFirstWord
<1>1. TrafficInv => PointersWithFirstWord
  BY DEF TrafficInv, TmInv, FramesInStep
<1> QED BY <1>1, TrafficInvariant, PTL

(* Every meta data slot that is out belongs to a packet that waits, is in  *)
(* the PIFO, or is being read: no pointers were overwritten in the one     *)
(* register for them, dropped, or inserted twice.                          *)
THEOREM TrafficForgetsNoPacket ==
  ASSUME NUM_QUEUES >= 2, MAX_PAUSE <= 1
  PROVE  Spec => []NoPacketForgotten
<1>1. TrafficInv => NoPacketForgotten
  BY DEF TrafficInv, TmInv, NoPacketForgotten, Waiting, Requested
<1> QED BY <1>1, TrafficInvariant, PTL

(* A packet that leaves while it arrives is read behind what is written.   *)
LEMMA ReaderBehind ==
  ASSUME TrafficInv, MAX_PAUSE <= 1
  PROVE  NotOvertaken
<1> SUFFICES ASSUME arriving # NoPkt, leaving.pkt = arriving,
                    st_rfsm \in {"WAIT_BOTH_BRAM", "WAIT_SEG_BRAM"}
             PROVE  length[arriving] >= leaving.words + 4
  BY DEF NotOvertaken
<1>1. TmInv /\ PacketsWhole /\ LeadSound
  BY DEF TrafficInv
<1>2. arriving \in Pkts
  BY <1>1 DEF PacketsWhole, Waiting, TmInv, PlacesApart, MachinesHold
<1>3. length[arriving] \in Nat /\ leaving.words \in Nat /\ pauses \in Nat /\ pauses <= 1
  BY <1>1, <1>2, SizesAssumption DEF PacketsWhole, MAX_WORDS, LeadSound, TmInv, MachinesHold
<1> QED BY <1>1, <1>3 DEF LeadSound

(* The traffic manager is the client that PktStorage expects: it accepts a *)
(* packet only when the storage can take the longest one, and requests it  *)
(* three cycles after its first word at the earliest; with sources that    *)
(* pause in a packet for one cycle at most the reader stays behind.        *)
THEOREM TrafficIsStorageClient ==
  ASSUME NUM_QUEUES >= 2, MAX_PAUSE <= 1
  PROVE  Spec => []StorageClient
<1>1. TrafficInv => StorageClient
  <2> SUFFICES ASSUME TrafficInv PROVE StorageClient
    OBVIOUS
  <2>1. TmInv /\ PacketsWhole /\ InputInStep /\ LeadSound /\ SegmentsCounted
    BY DEF TrafficInv
  <2>2. pifo_remove /\ pifo_offer = arriving => length[arriving] + pauses >= 3
    BY <2>1 DEF LeadSound, pifo_remove
  <2>3. ASSUME NEW w \in InputWords, Accepts(w)
        PROVE  segs_free > MAX_PKT_SIZE /\ metas_free > 1
    <3>1. /\ w.first \in Pkts \ Inside /\ w.q \in Queues
          /\ q_size[w.q] < QUEUE_LIMIT - MAX_PKT_SIZE /\ ifsm = "WAIT_START"
      BY <2>3, WordOnInput DEF Accepts, Room
    <3>2. Cardinality(AllSegments) + MAX_PKT_SIZE <= NUM_QUEUES * (QUEUE_LIMIT - 1)
          /\ Cardinality(AllSegments) \in Nat
      BY <3>1, RoomForOneMore
    <3>3. /\ NUM_QUEUES * QUEUE_LIMIT <= STORAGE_MAX_PKTS /\ QUEUE_LIMIT \in Nat
          /\ NUM_QUEUES \in Nat /\ SEGMENTS = STORAGE_MAX_PKTS - 1 /\ STORAGE_MAX_PKTS \in Nat
          /\ MAX_PKT_SIZE \in Nat
      BY LimitsFit, NumQueuesAssumption, SizesAssumption DEF SEGMENTS
    <3> HIDE DEF QUEUE_LIMIT, SEGMENTS, AllSegments
    <3>4. NUM_QUEUES * (QUEUE_LIMIT - 1) = NUM_QUEUES * QUEUE_LIMIT - NUM_QUEUES
      BY <3>3
    <3>5. Cardinality(AllSegments) + MAX_PKT_SIZE + 1 <= SEGMENTS /\ SEGMENTS \in Int
      <4>1. NUM_QUEUES * QUEUE_LIMIT \in Nat
        BY <3>3
      <4> QED BY <3>2, <3>3, <3>4, <4>1
    <3>6. st_ifsm = "START_WORD"
      BY <2>1, <3>1 DEF TmInv, FramesInStep, PointersWithFirstWord
    <3>7. segs_free > MAX_PKT_SIZE
      <4>1. /\ segs_free \in Int
            /\ SEGMENTS - segs_free + Count(free_list_written_r) = Cardinality(AllSegments) + 0
        BY <2>1, <3>6 DEF SegmentsCounted, Count
      <4>2. Count(free_list_written_r) \in Nat
        BY DEF Count
      <4> QED BY <3>2, <3>3, <3>5, <4>1, <4>2
    <3>8. metas_free > 1
      <4>1. Cardinality(Waiting) + Count(Requested) <= Cardinality(AllSegments)
        BY SlotsWithSegments
      <4>2. metas_free \in Int /\ SEGMENTS - metas_free = Cardinality(Waiting) + Count(Requested)
        BY <2>1 DEF TmInv
      <4>3. MAX_PKT_SIZE >= 1
        BY SizesAssumption
      <4> QED BY <3>2, <3>3, <3>5, <4>1, <4>2, <4>3
    <3> QED BY <3>7, <3>8
  <2>4. NotOvertaken
    BY ReaderBehind
  <2> QED BY <2>2, <2>3, <2>4 DEF StorageClient
<1> QED BY <1>1, TrafficInvariant, PTL
=============================================================================

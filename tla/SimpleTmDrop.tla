---------------------------- MODULE SimpleTmDrop ----------------------------
(***************************************************************************)
(* simple_tm_sl_drop.v: the traffic manager that ties the PIFO and the     *)
(* packet storage together and drops a packet instead of asserting back    *)
(* pressure.  One step is one clock cycle.                                 *)
(*                                                                         *)
(* The two instances are modelled by what their own modules show of them.  *)
(* The storage (PktStorage) is the state of its insertion machine, the     *)
(* state of its removal machine and how many segments and meta data slots  *)
(* are free.  The PIFO (PifoTop) is the set of packets it holds, the one   *)
(* it offers if any, and busy.  The pointers of a packet go to the PIFO    *)
(* after its first word, so a packet may be requested and leave while it   *)
(* still arrives.                                                          *)
(*                                                                         *)
(* The first word of a packet names its queue.  A packet has at least two  *)
(* words, as every Ethernet frame on the 32 byte bus has.  Its source may  *)
(* pause between them.                                                     *)
(***************************************************************************)
EXTENDS Naturals, FiniteSets

CONSTANTS
  STORAGE_MAX_PKTS,  \* addresses of the storage, the null pointer included
  NUM_QUEUES,
  MAX_PKT_SIZE,      \* segments of the longest packet
  PIFO_DEPTH,
  Q_SIZE_BITS,
  MAX_PAUSE,         \* cycles the source pauses within a packet, in all
  Pkts,              \* packets that may be inside at a time
  NoPkt

ASSUME NumQueuesAssumption == NUM_QUEUES \in Nat \ {0}
ASSUME SizesAssumption ==
  {STORAGE_MAX_PKTS, PIFO_DEPTH, Q_SIZE_BITS, MAX_PAUSE} \subseteq Nat /\ MAX_PKT_SIZE \in Nat \ {0}
ASSUME NoPktAssumption == NoPkt \notin Pkts

QUEUE_LIMIT == STORAGE_MAX_PKTS \div NUM_QUEUES
Q_SIZES == 2^Q_SIZE_BITS               \* values of a counter
ASSUME WidthAssumption == Q_SIZES \in Nat \ {0} /\ QUEUE_LIMIT <= Q_SIZES

Queues == 0 .. NUM_QUEUES - 1
MAX_WORDS == 2 * MAX_PKT_SIZE
SEGMENTS == STORAGE_MAX_PKTS - 1      \* pointers in each free list

VARIABLES
  ifsm, ifsm_pifo,
  pifo_in_r,         \* packet whose rank and pointers wait for the PIFO
  q_size,
  s_q_state, s_q_id_r, s_q_update_size_r,
  m_q_state, m_q_id_r, m_q_update_size_r,
  st_ifsm, st_rfsm, free_list_written_r, segs_free, metas_free,
  pifo_held, pifo_offer, pifo_busy,
  arriving,          \* the accepted packet on the input
  pauses,            \* cycles its source has paused
  leaving,           \* [pkt, words] on the output
  length,            \* words of a packet that were accepted so far
  queue              \* its queue

ifsmVars == <<ifsm, ifsm_pifo, pifo_in_r>>
sqVars == <<s_q_state, s_q_id_r, s_q_update_size_r>>
mqVars == <<m_q_state, m_q_id_r, m_q_update_size_r>>
storageVars == <<st_ifsm, st_rfsm, free_list_written_r, segs_free, metas_free>>
pifoVars == <<pifo_held, pifo_offer, pifo_busy>>
vars == <<ifsmVars, q_size, sqVars, mqVars, storageVars, pifoVars,
          arriving, pauses, leaving, length, queue>>

Nobody == [pkt |-> NoPkt, words |-> 0]

(* Traffic starts when the storage has filled its free lists. *)
Init ==
  /\ ifsm = "WAIT_START" /\ ifsm_pifo = "PIFO_START" /\ pifo_in_r = NoPkt
  /\ q_size = [q \in Queues |-> 0]
  /\ s_q_state = "WAIT_START" /\ s_q_id_r = 0 /\ s_q_update_size_r = FALSE
  /\ m_q_state = "WAIT_START" /\ m_q_id_r = 0 /\ m_q_update_size_r = FALSE
  /\ st_ifsm = "START_WORD" /\ st_rfsm = "WAIT_REQUEST"
  /\ free_list_written_r = FALSE
  /\ segs_free = SEGMENTS /\ metas_free = SEGMENTS
  /\ pifo_held = {} /\ pifo_offer = NoPkt /\ pifo_busy = TRUE
  /\ arriving = NoPkt /\ pauses = 0 /\ leaving = Nobody
  /\ length = [p \in Pkts |-> 0]
  /\ queue = [p \in Pkts |-> 0]

Inside ==
  (pifo_held \cup {pifo_in_r, arriving, leaving.pkt}) \ {NoPkt}

-----------------------------------------------------------------------------
(* The ports of the two instances. *)
pifo_full == Cardinality(pifo_held) >= PIFO_DEPTH
s_axis_tready_storage ==
  st_ifsm = "WORD_ONE" \/ (segs_free > 0 /\ metas_free > 0)
storage_ptr_in_tready == st_rfsm = "WAIT_REQUEST"
m_axis_tvalid ==
  st_rfsm \in {"WAIT_BOTH_BRAM", "WAIT_SEG_BRAM", "WRITE_OUT_WORD_TWO"}
m_axis_tlast ==
  leaving.pkt # arriving /\ leaving.words + 1 = length[leaving.pkt]

pifo_insert == ifsm_pifo = "WRITE_PIFO" /\ ~pifo_busy /\ ~pifo_full

(* Mutant: the storage is not asked whether it can take a request. *)
RemoveUnasked == pifo_offer # NoPkt
pifo_remove == pifo_offer # NoPkt /\ storage_ptr_in_tready

-----------------------------------------------------------------------------
(* What is on the input in a cycle: no word, the first word of packet p    *)
(* for queue q, or a later word, last or not.                              *)
NoWord == [first |-> NoPkt, q |-> 0, valid |-> FALSE, last |-> FALSE]
FirstWords == {[first |-> p, q |-> q, valid |-> TRUE, last |-> FALSE] :
                 p \in Pkts \ Inside, q \in Queues}
LaterWords == {[first |-> NoPkt, q |-> 0, valid |-> TRUE, last |-> l] : l \in BOOLEAN}

TooLong(w) ==
  arriving # NoPkt /\ w.valid /\ ~w.last /\ length[arriving] + 2 > MAX_WORDS

InputWords ==
  (IF arriving = NoPkt \/ pauses < MAX_PAUSE THEN {NoWord} ELSE {}) \cup
  (IF ifsm = "WAIT_START" THEN FirstWords ELSE {w \in LaterWords : ~TooLong(w)})

-----------------------------------------------------------------------------
(* The insertion machine. *)
ifsm_pifo_ready == ifsm_pifo = "PIFO_START" /\ ~pifo_full

(* Mutant: no room is left for the packet itself. *)
RoomWithoutMargin(w) == q_size[w.q] < QUEUE_LIMIT
Room(w) == q_size[w.q] < QUEUE_LIMIT - MAX_PKT_SIZE

(* Mutant: the register of the PIFO machine need not be free. *)
AcceptsWhileWriting(w) == /\ ifsm = "WAIT_START" /\ w.valid
                          /\ s_axis_tready_storage /\ ~pifo_full /\ Room(w)
Accepts(w) == /\ ifsm = "WAIT_START" /\ w.valid
              /\ s_axis_tready_storage /\ ifsm_pifo_ready /\ Room(w)

pkt_in_accepted(w) == Accepts(w) \/ ifsm = "FINISH_PKT"
s_axis_tvalid_storage(w) == Accepts(w) \/ (ifsm = "FINISH_PKT" /\ w.valid)

Insertion(w) ==
  /\ ifsm' = IF ifsm = "WAIT_START"
             THEN IF ~w.valid THEN ifsm
                  ELSE IF Accepts(w) THEN "FINISH_PKT" ELSE "DROP_PKT"
             ELSE IF w.valid /\ w.last THEN "WAIT_START" ELSE ifsm
  /\ ifsm_pifo' = IF Accepts(w) THEN "WRITE_PIFO"
                  ELSE IF pifo_insert THEN "PIFO_START" ELSE ifsm_pifo
  /\ pifo_in_r' = IF Accepts(w) THEN w.first
                  ELSE IF pifo_insert THEN NoPkt ELSE pifo_in_r
  /\ arriving' = IF Accepts(w) THEN w.first
                 ELSE IF w.valid /\ w.last THEN NoPkt ELSE arriving
  /\ pauses' = IF arriving' = NoPkt THEN 0
               ELSE IF arriving # NoPkt /\ ~w.valid THEN pauses + 1 ELSE pauses

-----------------------------------------------------------------------------
(* The queue sizes, counted in segments: up with every other word that is  *)
(* accepted, down with every other word that leaves, from the first on.    *)
s_q_id(w) == IF s_q_state = "WAIT_START" /\ w.valid THEN w.q ELSE s_q_id_r
s_q_inc_val(w) ==
  IF \/ s_q_state = "WAIT_START" /\ w.valid /\ pkt_in_accepted(w)
     \/ s_q_state = "WAIT_END_ENQ" /\ w.valid /\ s_q_update_size_r
  THEN 1 ELSE 0

(* Mutant: the flag stays as the packet before left it. *)
InputCounterKeepsFlag(w) ==
  /\ s_q_state' =
       IF ~w.valid THEN s_q_state
       ELSE IF s_q_state = "WAIT_START"
       THEN IF pkt_in_accepted(w) THEN "WAIT_END_ENQ" ELSE "WAIT_END_DROP"
       ELSE IF w.last THEN "WAIT_START" ELSE s_q_state
  /\ s_q_id_r' = IF s_q_inc_val(w) = 1 THEN s_q_id(w) ELSE s_q_id_r
  /\ s_q_update_size_r' =
       IF w.valid /\ s_q_state = "WAIT_END_ENQ" THEN ~s_q_update_size_r
       ELSE s_q_update_size_r

InputCounter(w) ==
  /\ s_q_state' =
       IF ~w.valid THEN s_q_state
       ELSE IF s_q_state = "WAIT_START"
       THEN IF pkt_in_accepted(w) THEN "WAIT_END_ENQ" ELSE "WAIT_END_DROP"
       ELSE IF w.last THEN "WAIT_START" ELSE s_q_state
  /\ s_q_id_r' = IF s_q_inc_val(w) = 1 THEN s_q_id(w) ELSE s_q_id_r
  /\ s_q_update_size_r' =
       IF w.valid /\ s_q_state = "WAIT_END_ENQ" THEN ~s_q_update_size_r
       ELSE IF s_q_inc_val(w) = 1 THEN FALSE
       ELSE s_q_update_size_r

m_taken(tready) == m_axis_tvalid /\ tready
m_q_id(tready) ==
  IF m_q_state = "WAIT_START" /\ m_taken(tready) THEN queue[leaving.pkt] ELSE m_q_id_r
m_q_dec_val(tready) ==
  IF m_taken(tready) /\ (m_q_state = "WAIT_START" \/ m_q_update_size_r) THEN 1 ELSE 0

OutputCounter(tready) ==
  /\ m_q_state' = IF ~m_taken(tready) THEN m_q_state
                  ELSE IF m_q_state = "WAIT_END" /\ m_axis_tlast
                  THEN "WAIT_START" ELSE "WAIT_END"
  /\ m_q_id_r' = m_q_id(tready)
  /\ m_q_update_size_r' = IF ~m_taken(tready) THEN m_q_update_size_r
                          ELSE m_q_state = "WAIT_END" /\ ~m_q_update_size_r

(* Mutant: an increment hides a decrement of the same queue. *)
QueueSizesOneAtATime(w, tready) ==
  q_size' = [q \in Queues |->
    IF s_q_id(w) = q /\ s_q_inc_val(w) = 1 THEN q_size[q] + 1
    ELSE IF m_q_id(tready) = q
    THEN (q_size[q] + Q_SIZES - m_q_dec_val(tready)) % Q_SIZES
    ELSE q_size[q]]

QueueSizes(w, tready) ==
  q_size' = [q \in Queues |->
    (q_size[q] + Q_SIZES
       + (IF s_q_id(w) = q THEN s_q_inc_val(w) ELSE 0)
       - (IF m_q_id(tready) = q THEN m_q_dec_val(tready) ELSE 0)) % Q_SIZES]

-----------------------------------------------------------------------------
(* The storage as PktStorage has it: a segment is taken with the first     *)
(* word and with every second word that is not the last, and given back    *)
(* when its first word appears on the output.                              *)
StorageTakes(w) == s_axis_tvalid_storage(w) /\ s_axis_tready_storage
(* Mutant: it is taken with every word.                                    *)
SegTakenWithEveryWord(w) == StorageTakes(w) /\ ~w.last
SegTaken(w) ==
  /\ StorageTakes(w)
  /\ st_ifsm = "START_WORD" \/ (st_ifsm = "WORD_TWO" /\ ~w.last)
MetaTaken(w) == StorageTakes(w) /\ st_ifsm = "START_WORD"
SegBack == st_rfsm \in {"WAIT_BOTH_BRAM", "WAIT_SEG_BRAM"} /\ ~free_list_written_r

MetaBack == SegBack /\ st_rfsm = "WAIT_BOTH_BRAM"

Count(b) == IF b THEN 1 ELSE 0

Storage(w, tready) ==
  /\ st_ifsm' = IF ~StorageTakes(w) THEN st_ifsm
                ELSE IF st_ifsm = "START_WORD" THEN "WORD_TWO"
                ELSE IF w.last THEN "START_WORD"
                ELSE IF st_ifsm = "WORD_ONE" THEN "WORD_TWO" ELSE "WORD_ONE"
  /\ segs_free' = segs_free - Count(SegTaken(w)) + Count(SegBack)
  /\ metas_free' = metas_free - Count(MetaTaken(w)) + Count(MetaBack)
  /\ st_rfsm' =
       CASE st_rfsm = "WAIT_REQUEST" -> IF pifo_remove THEN "READ_BOTH_BRAM" ELSE st_rfsm
         [] st_rfsm = "READ_BOTH_BRAM" -> "WAIT_BOTH_BRAM"
         [] m_axis_tvalid ->
              IF ~tready THEN st_rfsm
              ELSE IF m_axis_tlast THEN "WAIT_REQUEST"
              ELSE IF st_rfsm = "WRITE_OUT_WORD_TWO" THEN "WAIT_SEG_BRAM"
              ELSE "WRITE_OUT_WORD_TWO"
  /\ free_list_written_r' =
       (st_rfsm \in {"WAIT_BOTH_BRAM", "WAIT_SEG_BRAM"} /\ ~tready)
  /\ leaving' = IF pifo_remove THEN [pkt |-> pifo_offer, words |-> 0]
                ELSE IF ~m_taken(tready) THEN leaving
                ELSE IF m_axis_tlast THEN Nobody
                ELSE [leaving EXCEPT !.words = @ + 1]

(* The PIFO: an insert makes it busy, and is first kept in a register of   *)
(* its insertion machine; what it offers, it held a cycle ago.             *)
Pifo ==
  /\ pifo_held' = (pifo_held \cup (IF pifo_insert THEN {pifo_in_r} ELSE {}))
                    \ (IF pifo_remove THEN {pifo_offer} ELSE {})
  /\ pifo_busy' \in IF pifo_insert THEN {TRUE} ELSE BOOLEAN
  /\ pifo_offer' \in {NoPkt} \cup (pifo_held \cap pifo_held')

(* A packet that is gone is forgotten. *)
Packets(w) ==
  LET gone == Pkts \ (pifo_held' \cup {pifo_in_r', arriving', leaving'.pkt})
  IN  /\ length' = [p \in Pkts |->
                      IF p \in gone THEN 0
                      ELSE IF /\ p = arriving' \/ p = arriving
                              /\ s_axis_tvalid_storage(w)
                      THEN length[p] + 1 ELSE length[p]]
      /\ queue' = [p \in Pkts |->
                     IF p \in gone THEN 0
                     ELSE IF Accepts(w) /\ p = w.first THEN w.q ELSE queue[p]]

(* One clock edge with word w on the input and the receiver ready or not. *)
Cycle(w, tready) ==
  /\ Insertion(w)
  /\ InputCounter(w)
  /\ OutputCounter(tready)
  /\ QueueSizes(w, tready)
  /\ Storage(w, tready)
  /\ Pifo
  /\ Packets(w)

Next == \E w \in InputWords, tready \in BOOLEAN : Cycle(w, tready)

Spec == Init /\ [][Next]_vars

-----------------------------------------------------------------------------
(* The size of a queue is exactly the number of segments of its packets    *)
(* that have arrived and have not begun to leave: it does not drift when a *)
(* packet of the queue arrives while another one leaves, and never runs    *)
(* below zero.                                                             *)
Chunks(words) == (words + 1) \div 2
Gone(p) == IF p = leaving.pkt THEN Chunks(leaving.words) ELSE 0
Segments(q) ==
  {s \in Inside \X (1 .. MAX_PKT_SIZE) :
     queue[s[1]] = q /\ Gone(s[1]) < s[2] /\ s[2] <= Chunks(length[s[1]])}
QueueSizeExact == \A q \in Queues : q_size[q] = Cardinality(Segments(q))

(* tready towards the input FIFO is always high: a word of a packet that   *)
(* was accepted never finds the storage unable to take it.                 *)
NoWordLost == ifsm = "FINISH_PKT" => s_axis_tready_storage

(* The comment on pointers: they come back in the cycle of the first word, *)
(* for the storage is at the start of a packet when the traffic manager is.*)
PointersWithFirstWord == ifsm # "FINISH_PKT" <=> st_ifsm = "START_WORD"

(* There is one register for the pointers of packets that the busy PIFO    *)
(* cannot take yet.  No pointers are overwritten there or handed to the    *)
(* PIFO twice: as many meta data slots are taken as packets wait in the    *)
(* register, are in the PIFO, or have been requested and not yet read.     *)
NoPacketForgotten ==
  SEGMENTS - metas_free =
    Cardinality((pifo_held \cup {pifo_in_r}) \ {NoPkt})
      + Count(/\ leaving.pkt # NoPkt
              /\ \/ st_rfsm = "READ_BOTH_BRAM"
                 \/ st_rfsm = "WAIT_BOTH_BRAM" /\ ~free_list_written_r)

(* The storage gets the client that PktStorage assumes, and keeps its word *)
(* with it: a packet is accepted only when there is room for the longest   *)
(* one and requested three cycles after its first word at the earliest.    *)
(* So one that leaves while it arrives is never read ahead of what is      *)
(* written: the RAM answers two cycles after the address, so each segment  *)
(* was complete two cycles before its first word is on the output.         *)
NotOvertaken ==
  leaving.pkt = arriving /\ st_rfsm \in {"WAIT_BOTH_BRAM", "WAIT_SEG_BRAM"} =>
    arriving = NoPkt \/ length[arriving] >= leaving.words + 4
StorageClient ==
  /\ (\E w \in InputWords : Accepts(w)) => segs_free > MAX_PKT_SIZE /\ metas_free > 1
  /\ pifo_remove /\ pifo_offer = arriving => length[arriving] + pauses >= 3
  /\ NotOvertaken

(* What PifoReg and PifoTop assume of their client: it does not remove in  *)
(* two cycles in a row, for the storage is busy with the packet.           *)
RemovesApart == [][pifo_remove => ~pifo_remove']_vars
=============================================================================

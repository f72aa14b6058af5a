----------------------------- MODULE PktStorage -----------------------------
(***************************************************************************)
(* pifo_pkt_storage.v: packets are cut into segments of two words, kept in *)
(* a RAM as linked lists; free segments and meta data slots wait in free   *)
(* list FIFOs.  One step is one clock cycle in which the insertion machine *)
(* and the removal machine both step.  The RAMs answer two cycles after    *)
(* the address; the address is held while the output is stalled, so the    *)
(* RAM keeps being read.                                                   *)
(*                                                                         *)
(* A word is the packet it belongs to and its number; tkeep of the second  *)
(* word of a segment is zero exactly when that word is NoWord.             *)
(*                                                                         *)
(* What the code leaves to its clients: how long the output is stalled,    *)
(* whether packets arrive while the free lists are still being filled      *)
(* after reset, and which of two clients it has.  simple_tm_sl_drop.v cuts *)
(* through: it inserts the pointers into its PIFO one cycle after the      *)
(* first word, so a packet may be requested before its last word has       *)
(* arrived; and it never holds a word back, so it accepts a packet only    *)
(* when there is room for the longest one, and its words come with pauses. *)
(* The other client waits for tready, and requests what has arrived.       *)
(***************************************************************************)
EXTENDS Naturals, Sequences, FiniteSets, SequencesExt

CONSTANTS
  MAX_PKTS,       \* RAM depth; the last address is the null pointer
  Pkts,           \* packets that may be inside at a time
  MAX_WORDS,      \* words of the longest packet
  NoPkt,
  MAX_STALL,      \* cycles the output may be stalled in a row
  CUT_THROUGH,    \* the clients: TRUE for the one that cuts through
  LEAD,           \* cycles from the first word to its earliest request
  MAX_PAUSE,      \* cycles its source pauses within a packet, in all
  EARLY_TRAFFIC   \* packets may arrive before the free lists are filled

ASSUME MaxPktsAssumption == MAX_PKTS \in Nat /\ MAX_PKTS >= 2
ASSUME MaxWordsAssumption == MAX_WORDS \in Nat /\ MAX_WORDS >= 2
ASSUME NoPktAssumption == NoPkt \notin Pkts
ASSUME ClientAssumption ==
  /\ MAX_STALL \in Nat /\ EARLY_TRAFFIC \in BOOLEAN
  /\ CUT_THROUGH \subseteq BOOLEAN /\ LEAD \in Nat /\ MAX_PAUSE \in Nat

null_seg_ptr == MAX_PKTS - 1
Ptrs == 0 .. MAX_PKTS - 2            \* the addresses in the free lists
SegPtrs == Ptrs \cup {null_seg_ptr}

NoWord == <<NoPkt, 0>>
Words == (Pkts \X (1 .. MAX_WORDS)) \cup {NoWord}
Segment == [one : Words, two : Words, next : SegPtrs]
EmptySegment == [one |-> NoWord, two |-> NoWord, next |-> 0]

VARIABLES
  cur_val,       \* next value the free lists are filled with
  seg_fl, meta_fl,
  seg_ram, meta_ram,
  \* insertion machine
  ifsm, word_one, cur_seg_ptr,
  \* removal machine
  rfsm, bram_rd_cycle_cnt, seg_rd_addr, meta_rd_addr,
  seg_data, seg_dout, meta_data, meta_dout,   \* the RAMs' two output stages
  rfsm_cur_seg_ptr, rfsm_cur_meta_ptr, word_two, free_list_written_r,
  tlast_r,
  \* the outside
  cut_through,   \* the client: one of CUT_THROUGH
  arriving,      \* [pkt, words] of the packet coming in
  pauses,        \* cycles its source has paused (with cut_through)
  waiting,       \* [pkt, seg, meta] of packets inside, not yet requested
  length,        \* length of each complete packet, 0 while it arrives
  leaving,       \* [pkt, words] of the packet going out
  stalled,       \* cycles the output has been stalled
  owner          \* the packet each allocated segment was taken for

insVars == <<ifsm, word_one, cur_seg_ptr>>
remVars == <<rfsm, bram_rd_cycle_cnt, rfsm_cur_seg_ptr, rfsm_cur_meta_ptr,
             word_two, free_list_written_r, tlast_r>>
ramVars == <<seg_rd_addr, meta_rd_addr, seg_data, seg_dout, meta_data, meta_dout>>
vars == <<cur_val, seg_fl, meta_fl, seg_ram, meta_ram, insVars, remVars, ramVars,
          cut_through, arriving, pauses, waiting, length, leaving, stalled, owner>>

Nobody == [pkt |-> NoPkt, words |-> 0]

Init ==
  /\ cur_val = 0
  /\ seg_fl = <<>> /\ meta_fl = <<>>
  /\ seg_ram = [s \in SegPtrs |-> EmptySegment]
  /\ meta_ram = [s \in SegPtrs |-> NoPkt]
  /\ ifsm = "START_WORD" /\ word_one = NoWord /\ cur_seg_ptr = 0
  /\ rfsm = "WAIT_REQUEST"
  /\ bram_rd_cycle_cnt = 0
  /\ seg_rd_addr = 0 /\ meta_rd_addr = 0
  /\ seg_data = EmptySegment /\ seg_dout = EmptySegment
  /\ meta_data = NoPkt /\ meta_dout = NoPkt
  /\ rfsm_cur_seg_ptr = 0 /\ rfsm_cur_meta_ptr = 0
  /\ word_two = NoWord
  /\ free_list_written_r = FALSE
  /\ tlast_r = FALSE
  /\ cut_through \in CUT_THROUGH
  /\ arriving = Nobody /\ pauses = 0
  /\ waiting = {}
  /\ length = [p \in Pkts |-> 0]
  /\ leaving = Nobody
  /\ stalled = 0
  /\ owner = [s \in Ptrs |-> NoPkt]

-----------------------------------------------------------------------------
(* Insertion.  last is tlast of the word on the bus. *)
s_axis_pkt_tready ==
  \/ ifsm = "WORD_ONE"
  \/ seg_fl # <<>> /\ meta_fl # <<>>

Inside == ({w.pkt : w \in waiting} \cup {arriving.pkt, leaving.pkt}) \ {NoPkt}

NextWord == <<arriving.pkt, arriving.words + 1>>
Arrive(last) ==
  /\ last \/ arriving.words + 2 <= MAX_WORDS
  /\ arriving' = IF last THEN Nobody
                 ELSE [arriving EXCEPT !.words = arriving.words + 1]
  /\ length' = IF last THEN [length EXCEPT ![arriving.pkt] = arriving.words + 1]
               ELSE length

NoArrival ==
  /\ cut_through /\ arriving.pkt # NoPkt => pauses < MAX_PAUSE
  /\ UNCHANGED <<insVars, seg_ram, meta_ram, arriving, length>>

Pauses ==
  pauses' = IF ~cut_through \/ arriving'.pkt = NoPkt THEN 0
            ELSE IF arriving' = arriving THEN pauses + 1 ELSE pauses

(* tready must stay high: for every second word both lists are asked.      *)
RoomForLongest == Len(seg_fl) > MAX_WORDS \div 2 /\ Len(meta_fl) > 1

StartWord ==
  /\ ifsm = "START_WORD" /\ s_axis_pkt_tready
  /\ EARLY_TRAFFIC \/ cur_val = MAX_PKTS - 1
  /\ cut_through => RoomForLongest
  /\ \E p \in Pkts \ Inside :
        /\ arriving' = [pkt |-> p, words |-> 1]
        /\ length' = [length EXCEPT ![p] = 0]
        /\ meta_ram' = [meta_ram EXCEPT ![Head(meta_fl)] = p]
        /\ word_one' = <<p, 1>>
  /\ cur_seg_ptr' = Head(seg_fl)
  /\ ifsm' = "WORD_TWO"
  /\ UNCHANGED seg_ram

WordOne ==
  /\ ifsm = "WORD_ONE"
  /\ word_one' = NextWord
  /\ \E last \in BOOLEAN :
        /\ Arrive(last)
        /\ seg_ram' = IF last
             THEN [seg_ram EXCEPT ![cur_seg_ptr] =
                     [one |-> NextWord, two |-> NoWord, next |-> null_seg_ptr]]
             ELSE seg_ram
        /\ ifsm' = IF last THEN "START_WORD" ELSE "WORD_TWO"
  /\ UNCHANGED <<cur_seg_ptr, meta_ram>>

WordTwo ==
  /\ ifsm = "WORD_TWO" /\ s_axis_pkt_tready
  /\ \E last \in BOOLEAN :
        /\ Arrive(last)
        /\ cur_seg_ptr' = IF last THEN null_seg_ptr ELSE Head(seg_fl)
        /\ ifsm' = IF last THEN "START_WORD" ELSE "WORD_ONE"
  /\ seg_ram' = [seg_ram EXCEPT ![cur_seg_ptr] =
                   [one |-> word_one, two |-> NextWord, next |-> cur_seg_ptr']]
  /\ UNCHANGED <<word_one, meta_ram>>

Insertion == (NoArrival \/ StartWord \/ WordOne \/ WordTwo) /\ Pauses

(* The pops of the free lists that go with these steps. *)
meta_fl_rd_en == ifsm = "START_WORD" /\ ifsm' = "WORD_TWO"
seg_fl_rd_en == meta_fl_rd_en \/ (ifsm = "WORD_TWO" /\ ifsm' = "WORD_ONE")

-----------------------------------------------------------------------------
(* Removal.  FirstOfSegment: the first word of a segment is on the bus,    *)
(* straight from the RAM.                                                  *)
FirstOfSegment ==
  \/ rfsm = "WAIT_BOTH_BRAM" /\ bram_rd_cycle_cnt = 1
  \/ rfsm = "WAIT_SEG_BRAM"

m_axis_pkt_tvalid == FirstOfSegment \/ rfsm = "WRITE_OUT_WORD_TWO"
m_axis_pkt_tdata == IF FirstOfSegment THEN seg_dout.one ELSE word_two
AtEnd ==
  IF FirstOfSegment THEN seg_dout.two = NoWord /\ seg_dout.next = null_seg_ptr
  ELSE rfsm_cur_seg_ptr = null_seg_ptr
m_axis_pkt_tlast == tlast_r \/ AtEnd

(* The pointers given back: in the first cycle of a segment's first word,  *)
(* whether or not the word is taken.                                       *)
(* Mutants: given back in every cycle of a stalled word; only the first    *)
(* segment given back.                                                     *)
segWrEveryCycle == FirstOfSegment
segWrHeadOnly == rfsm = "WAIT_BOTH_BRAM" /\ FirstOfSegment /\ ~free_list_written_r
seg_fl_wr_en == FirstOfSegment /\ ~free_list_written_r
(* Mutants: the slot given back with every segment; only with tlast. *)
metaWrEverySegment == seg_fl_wr_en
metaWrAtEnd == seg_fl_wr_en /\ rfsm = "WAIT_BOTH_BRAM" /\ AtEnd
meta_fl_wr_en == seg_fl_wr_en /\ rfsm = "WAIT_BOTH_BRAM"

(* The RAMs' outputs follow the address with a delay of two cycles. *)
ReadRams(segAddr, metaAddr) ==
  /\ seg_rd_addr' = segAddr /\ meta_rd_addr' = metaAddr
  /\ seg_data' = seg_ram[segAddr] /\ seg_dout' = seg_data
  /\ meta_data' = meta_ram[metaAddr] /\ meta_dout' = meta_data

NoRequest ==
  /\ rfsm = "WAIT_REQUEST"
  /\ ReadRams(seg_rd_addr, meta_rd_addr)
  /\ tlast_r' = FALSE /\ free_list_written_r' = FALSE
  /\ stalled' = 0
  /\ bram_rd_cycle_cnt' = 0
  /\ UNCHANGED <<rfsm, rfsm_cur_seg_ptr, rfsm_cur_meta_ptr, word_two, leaving>>

Request ==
  /\ rfsm = "WAIT_REQUEST"
  /\ \E w \in waiting :
        /\ w.pkt = arriving.pkt => cut_through /\ arriving.words + pauses >= LEAD
        /\ ReadRams(w.seg, w.meta)
        /\ rfsm_cur_seg_ptr' = w.seg /\ rfsm_cur_meta_ptr' = w.meta
        /\ leaving' = [pkt |-> w.pkt, words |-> 0]
  /\ rfsm' = "WAIT_BOTH_BRAM"
  /\ tlast_r' = FALSE /\ free_list_written_r' = FALSE
  /\ stalled' = 0
  /\ bram_rd_cycle_cnt' = 0
  /\ UNCHANGED word_two

WaitBram ==
  /\ rfsm = "WAIT_BOTH_BRAM" /\ bram_rd_cycle_cnt = 0
  /\ bram_rd_cycle_cnt' = 1
  /\ ReadRams(seg_rd_addr, meta_rd_addr)
  /\ stalled' = 0
  /\ UNCHANGED <<rfsm, rfsm_cur_seg_ptr, rfsm_cur_meta_ptr, word_two,
                 free_list_written_r, tlast_r, leaving>>

(* A word is on the bus: it is taken when tready is high, and a packet is  *)
(* over for the receiver when the word taken has tlast.                    *)
Leave(tready) ==
  /\ tready \/ stalled < MAX_STALL
  /\ stalled' = IF tready THEN 0 ELSE stalled + 1
  /\ tlast_r' = m_axis_pkt_tlast
  /\ leaving' = IF ~tready THEN leaving
                ELSE IF m_axis_pkt_tlast THEN Nobody
                ELSE [leaving EXCEPT !.words = leaving.words + 1]

AfterFirstWord == IF AtEnd THEN "WAIT_REQUEST" ELSE "WRITE_OUT_WORD_TWO"

(* Mutant: the next segment is read though this word is not yet taken. *)
NextAddrReadsAhead(tready) ==
  IF seg_dout.next # null_seg_ptr THEN seg_dout.next ELSE seg_rd_addr
NextAddr(tready) ==
  IF tready /\ seg_dout.next # null_seg_ptr THEN seg_dout.next ELSE seg_rd_addr

FirstWord(tready) ==
  /\ FirstOfSegment
  /\ Leave(tready)
  /\ rfsm' = IF tready THEN AfterFirstWord ELSE rfsm
  /\ free_list_written_r' = ~(tready /\ (rfsm = "WAIT_BOTH_BRAM" \/ AtEnd))
  /\ word_two' = seg_dout.two
  /\ rfsm_cur_seg_ptr' = seg_dout.next
  /\ ReadRams(NextAddr(tready), meta_rd_addr)
  /\ bram_rd_cycle_cnt' = IF rfsm = "WAIT_BOTH_BRAM" THEN 1 ELSE 0
  /\ UNCHANGED rfsm_cur_meta_ptr

SecondWord(tready) ==
  /\ rfsm = "WRITE_OUT_WORD_TWO"
  /\ Leave(tready)
  /\ rfsm' = IF ~tready THEN rfsm
             ELSE IF AtEnd THEN "WAIT_REQUEST" ELSE "WAIT_SEG_BRAM"
  /\ free_list_written_r' = FALSE
  /\ ReadRams(seg_rd_addr, meta_rd_addr)
  /\ bram_rd_cycle_cnt' = 0
  /\ UNCHANGED <<rfsm_cur_seg_ptr, rfsm_cur_meta_ptr, word_two>>

Removal ==
  \/ NoRequest
  \/ Request
  \/ WaitBram
  \/ \E tready \in BOOLEAN : FirstWord(tready) \/ SecondWord(tready)

-----------------------------------------------------------------------------
(* The free lists (free_list_fifo.v).  While a list is being filled after  *)
(* reset, a pointer given back in the same cycle is not written.           *)
Filling == cur_val <= MAX_PKTS - 2

Refilled(fl, rd_en, wr_en, din) ==
  (IF rd_en THEN Tail(fl) ELSE fl) \o
  (IF Filling THEN <<cur_val>> ELSE IF wr_en THEN <<din>> ELSE <<>>)

FreeLists ==
  /\ seg_fl' = Refilled(seg_fl, seg_fl_rd_en, seg_fl_wr_en, rfsm_cur_seg_ptr)
  /\ meta_fl' = Refilled(meta_fl, meta_fl_rd_en, meta_fl_wr_en, rfsm_cur_meta_ptr)
  /\ cur_val' = IF Filling THEN cur_val + 1 ELSE cur_val

-----------------------------------------------------------------------------
(* The outside: the pointers of a packet leave on m_axis_ptr with its      *)
(* first word and come back on s_axis_ptr when it is to leave.             *)
Pointers ==
  waiting' = {w \in waiting : w.pkt # leaving'.pkt} \cup
             (IF meta_fl_rd_en
              THEN {[pkt |-> arriving'.pkt, seg |-> Head(seg_fl), meta |-> Head(meta_fl)]}
              ELSE {})

Owners ==
  owner' = [s \in Ptrs |->
              IF seg_fl_rd_en /\ s = Head(seg_fl) THEN arriving'.pkt
              ELSE IF seg_fl_wr_en /\ s = rfsm_cur_seg_ptr THEN NoPkt
              ELSE owner[s]]

Next ==
  /\ Insertion /\ Removal /\ FreeLists /\ Pointers /\ Owners
  /\ UNCHANGED cut_through

Spec == Init /\ [][Next]_vars

(* The clock ticks and the receiver stalls at most MAX_STALL cycles; the   *)
(* source of a packet goes on sending it, and packets inside are requested *)
(* again and again.                                                        *)
FairSpec ==
  /\ Spec
  /\ WF_vars(Next)
  /\ WF_vars((WordOne \/ WordTwo) /\ Next)
  /\ WF_vars(Request /\ Next)

-----------------------------------------------------------------------------
(* A segment is in the free list once, or taken, and never both: no        *)
(* pointer is lost, handed to two packets or given back twice.             *)
Given == {s \in Ptrs : s < cur_val}
FreeOrTaken ==
  /\ \A i, j \in 1 .. Len(seg_fl) : seg_fl[i] = seg_fl[j] => i = j
  /\ ToSet(seg_fl) = {s \in Given : owner[s] = NoPkt}

(* A taken segment belongs to a packet that is inside: when the last word  *)
(* of a packet has left, all its segments are back.                        *)
NoSegmentLeaks == \A s \in Ptrs : owner[s] \in Inside \cup {NoPkt}

(* The same of the meta data slots: as many are out as packets are inside  *)
(* whose first word has not been on the output bus.                        *)
MetaOut == Cardinality(waiting) +
           (IF rfsm = "WAIT_BOTH_BRAM" /\ ~free_list_written_r THEN 1 ELSE 0)
MetaSlotsExact ==
  /\ \A i, j \in 1 .. Len(meta_fl) : meta_fl[i] = meta_fl[j] => i = j
  /\ Len(meta_fl) + MetaOut = cur_val

(* What is on the output bus is the next word of the packet that was       *)
(* requested, as it arrived, with its meta data on the first word and      *)
(* tlast exactly on its last, in every cycle until the word is taken.      *)
DeliveredIntact ==
  m_axis_pkt_tvalid =>
    /\ m_axis_pkt_tdata = <<leaving.pkt, leaving.words + 1>>
    /\ m_axis_pkt_tlast = (leaving.words + 1 = length[leaving.pkt])
    /\ leaving.words = 0 => meta_dout = leaving.pkt

(* A packet whose first word was accepted is accepted entirely, though     *)
(* tready is low while either free list is empty: the packets inside leave *)
(* and give back what it needs.                                            *)
ArrivesEntirely == \A p \in Pkts : arriving.pkt = p ~> arriving.pkt # p
=============================================================================

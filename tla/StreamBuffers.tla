--------------------------- MODULE StreamBuffers ---------------------------
(***************************************************************************)
(* The stream buffers of the data path, each a FIFO of words beside a FIFO *)
(* of meta data (tuser, one per packet) between two state machines:        *)
(*   axi_stream_fifo       back pressure; cuts packets that are too long   *)
(*   rate_limiter          pauses after every word as its packet says      *)
(*   simple_output_queues  drops packets it has no room for                *)
(*   trim_ts               keeps the first two words of every packet       *)
(*   port_selector         back pressure, but never inside a packet,       *)
(*                         behind a register stage (axi_stream_pipeline)   *)
(* They read their FIFOs with the same machine and write them each with    *)
(* one of its own; kind says which of them a behaviour is about.           *)
(*                                                                         *)
(* A word is the packet it belongs to, its number in it, and tlast.  The   *)
(* packets stored are numbered in turn, modulo NUM_IDS.  The FIFOs are     *)
(* fallthrough_small_fifo of the NetFPGA library: nearly_full rises one    *)
(* word below their depth, prog_full at a threshold.  Their own latency is *)
(* left out, for it is the same for both FIFOs.                            *)
(***************************************************************************)
EXTENDS Naturals, Sequences, FiniteSets

CONSTANTS
  MAX_DEPTH,      \* words the FIFO of words holds
  MAX_PKTS,       \* packets the FIFO of meta data holds
  MAX_PKT_WORDS,  \* longest packet for which room is kept, or that is not cut
  MAX_LEN,        \* longest packet that arrives where any may
  MAX_BP,         \* longest pause a packet asks of rate_limiter
  TRIM_STALLS,    \* the receiver of trim_ts may stall as that of the others
  NUM_IDS

ASSUME DepthAssumption ==
  /\ {MAX_DEPTH, MAX_PKTS, MAX_PKT_WORDS, MAX_LEN, MAX_BP, NUM_IDS} \subseteq Nat
  /\ MAX_PKTS >= 2 /\ MAX_PKT_WORDS >= 2 /\ MAX_LEN >= 2
  /\ MAX_DEPTH > MAX_PKT_WORDS /\ NUM_IDS >= 2
  /\ TRIM_STALLS \in BOOLEAN

Kinds == {"axi_stream_fifo", "rate_limiter", "simple_output_queues",
          "trim_ts", "port_selector"}
BUFFER_THRESHOLD == MAX_DEPTH - MAX_PKT_WORDS

VARIABLES
  kind,
  ifsm, rfsm,        \* ifsm_state, rfsm_state
  data, meta,        \* the two FIFOs
  pkt_word_cnt_r,    \* axi_stream_fifo
  bp_config_r, bp_count_r, pkt_done_r,   \* rate_limiter
  pipe,              \* the register of axi_stream_pipeline
  source,            \* [pkt, words] the packet being sent
  out,               \* the word taken last
  since              \* cycles since a word was taken in, up to MAX_BP

bpVars == <<bp_config_r, bp_count_r, pkt_done_r>>
vars == <<kind, ifsm, rfsm, data, meta, pkt_word_cnt_r, bpVars, pipe, source,
          out, since>>

Ids == 0 .. NUM_IDS - 1
NextId(p) == (p + 1) % NUM_IDS
NoWord == [pkt |-> 0, idx |-> 0, last |-> FALSE]

Init ==
  /\ kind \in Kinds
  /\ ifsm = "WAIT_START" /\ rfsm = "RFSM_START"
  /\ data = <<>> /\ meta = <<>>
  /\ pkt_word_cnt_r = 0
  /\ bp_config_r = 0 /\ bp_count_r = 1 /\ pkt_done_r = FALSE
  /\ pipe = NoWord
  /\ source = [pkt |-> 0, words |-> 0]
  /\ out = [pkt |-> NUM_IDS - 1, idx |-> 2, last |-> TRUE]
  /\ since = MAX_BP

-----------------------------------------------------------------------------
d_fifo_nearly_full == Len(data) >= MAX_DEPTH - 1
d_fifo_prog_full == Len(data) >= BUFFER_THRESHOLD
m_fifo_nearly_full == Len(meta) >= MAX_PKTS - 1

(* The word on the bus of the insertion machine when w is offered. *)
Bus(w) == IF kind = "port_selector" THEN pipe ELSE w

s_axis_tready ==
  CASE kind = "axi_stream_fifo" -> ~d_fifo_nearly_full /\ ~m_fifo_nearly_full
    [] kind = "rate_limiter" ->
         /\ ifsm # "ASSERT_BP" /\ ~d_fifo_nearly_full
         /\ ifsm = "WAIT_START" => ~m_fifo_nearly_full
    [] kind = "port_selector" ->
         ifsm = "WAIT_END" \/ (~d_fifo_prog_full /\ ~m_fifo_nearly_full)
    [] OTHER -> TRUE

Arrives(w) == Bus(w) # NoWord /\ s_axis_tready

(* Mutant: there is room when there is room for a word. *)
RoomForOneWord == ~d_fifo_nearly_full /\ ~m_fifo_nearly_full

(* simple_output_queues, asked on the first word of a packet. *)
Room == ~d_fifo_prog_full /\ ~m_fifo_nearly_full

(* Whether the word that arrives is written to the FIFO, and with tlast.   *)
(* to_this: the first word's tuser names this queue.                       *)
d_fifo_wr_en(w, to_this) ==
  /\ Arrives(w)
  /\ ifsm \notin {"TRIM_PKT", "DROP_PKT", "FINISH_PKT"}
  /\ kind = "axi_stream_fifo" /\ ifsm = "WAIT_START" => ~w.last
  /\ kind = "simple_output_queues" /\ ifsm = "WAIT_START" => to_this /\ Room
m_fifo_wr_en(w, to_this) == d_fifo_wr_en(w, to_this) /\ ifsm = "WAIT_START"

Cut == ifsm = "RCV_WORD" /\ pkt_word_cnt_r = MAX_PKT_WORDS - 1
d_fifo_din(w) ==
  [Bus(w) EXCEPT !.last = \/ Bus(w).last
                          \/ kind = "axi_stream_fifo" /\ Cut
                          \/ ifsm = "WORD_TWO"]

-----------------------------------------------------------------------------
(* The insertion machines, on a word that arrives; without one only        *)
(* ASSERT_BP moves.                                                        *)
AxiNext(w) ==
  IF w.last THEN "WAIT_START"
  ELSE IF ifsm = "WAIT_START" THEN "RCV_WORD"
  ELSE IF Cut THEN "TRIM_PKT" ELSE ifsm

(* Mutant: no pause after the last word of a packet. *)
RateNextHasty(w, bp) ==
  IF w.last THEN "WAIT_START"
  ELSE IF (IF ifsm = "WAIT_START" THEN bp ELSE bp_config_r) > 0 THEN "ASSERT_BP"
  ELSE "RCV_WORD"

RateNext(w, bp) ==
  IF (IF ifsm = "WAIT_START" THEN bp ELSE bp_config_r) > 0 THEN "ASSERT_BP"
  ELSE IF ifsm = "RCV_WORD" /\ w.last THEN "WAIT_START"
  ELSE "RCV_WORD"

QueueNext(w, to_this) ==
  IF ifsm = "WAIT_START" THEN IF to_this /\ Room THEN "RCV_WORD" ELSE "DROP_PKT"
  ELSE IF w.last THEN "WAIT_START" ELSE ifsm

TrimNext(w) ==
  IF ifsm = "WAIT_START" THEN "WORD_TWO"
  ELSE IF w.last THEN "WAIT_START" ELSE "FINISH_PKT"

SelectorNext(w) ==
  IF ifsm = "WAIT_START" THEN "WAIT_END" ELSE IF pipe.last THEN "WAIT_START" ELSE ifsm

PauseOver == ifsm = "ASSERT_BP" /\ bp_count_r >= bp_config_r

Insertion(w, to_this, bp) ==
  /\ ifsm' =
       IF PauseOver THEN IF pkt_done_r THEN "WAIT_START" ELSE "RCV_WORD"
       ELSE IF ~Arrives(w) THEN ifsm
       ELSE CASE kind = "axi_stream_fifo" -> AxiNext(w)
              [] kind = "rate_limiter" -> RateNext(w, bp)
              [] kind = "simple_output_queues" -> QueueNext(w, to_this)
              [] kind = "trim_ts" -> TrimNext(w)
              [] kind = "port_selector" -> SelectorNext(w)
  /\ pkt_word_cnt_r' =
       IF kind # "axi_stream_fifo" \/ ~d_fifo_wr_en(w, to_this) THEN pkt_word_cnt_r
       ELSE IF ifsm = "WAIT_START" THEN 1
       ELSE IF w.last \/ Cut THEN 0 ELSE pkt_word_cnt_r + 1
  /\ bp_config_r' = IF Arrives(w) /\ ifsm = "WAIT_START" THEN bp ELSE bp_config_r
  /\ bp_count_r' = IF ifsm # "ASSERT_BP" THEN bp_count_r
                   ELSE IF PauseOver THEN 1 ELSE bp_count_r + 1
  /\ pkt_done_r' = IF kind # "rate_limiter" THEN FALSE
                   ELSE IF ifsm = "WAIT_START" THEN FALSE
                   ELSE IF Arrives(w) /\ w.last THEN TRUE ELSE pkt_done_r

-----------------------------------------------------------------------------
(* The removal machine. *)

(* Mutant: a packet is sent when all of it is there. *)
m_axis_tvalidWhole ==
  /\ data # <<>>
  /\ rfsm = "RFSM_START" => \E i \in DOMAIN data : data[i].last

(* port_selector.v looks at the words only, the others at both FIFOs. *)
m_axis_tvalid ==
  /\ data # <<>>
  /\ rfsm = "RFSM_START" /\ kind # "port_selector" => meta # <<>>

d_fifo_rd_en(tready) == m_axis_tvalid /\ tready
m_fifo_rd_en(tready) == d_fifo_rd_en(tready) /\ rfsm = "RFSM_START"

Removal(tready) ==
  /\ rfsm' = IF ~d_fifo_rd_en(tready) THEN rfsm
             ELSE IF rfsm = "RFSM_FINISH_PKT" /\ Head(data).last THEN "RFSM_START"
             ELSE "RFSM_FINISH_PKT"
  /\ out' = IF d_fifo_rd_en(tready) THEN Head(data) ELSE out

Fifo(q, rd_en, wr_en, din) ==
  (IF rd_en THEN Tail(q) ELSE q) \o (IF wr_en THEN <<din>> ELSE <<>>)

Fifos(w, to_this, tready) ==
  /\ data' = Fifo(data, d_fifo_rd_en(tready), d_fifo_wr_en(w, to_this), d_fifo_din(w))
  /\ meta' = Fifo(meta, m_fifo_rd_en(tready), m_fifo_wr_en(w, to_this), Bus(w).pkt)

-----------------------------------------------------------------------------
(* The outside.  Packets have at least two words, except that              *)
(* axi_stream_fifo.v expects packets of one; packets longer than           *)
(* MAX_PKT_WORDS only come where no room has to be kept for them.          *)
LongestPkt ==
  IF kind \in {"simple_output_queues", "port_selector"} THEN MAX_PKT_WORDS ELSE MAX_LEN
Offers ==
  {NoWord} \cup
  {w \in [pkt : {source.pkt}, idx : {source.words + 1}, last : BOOLEAN] :
     /\ ~w.last => w.idx < LongestPkt
     /\ w.last => w.idx > 1 \/ kind = "axi_stream_fifo"}

(* port_selector takes every word it is offered into its register. *)
Taken(w) == w # NoWord /\ s_axis_tready

Source(w, to_this) ==
  /\ pipe' = IF kind = "port_selector" /\ s_axis_tready THEN w ELSE pipe
  /\ source' = IF ~Taken(w) THEN source
               ELSE IF ~w.last THEN [source EXCEPT !.words = @ + 1]
               ELSE [pkt |-> IF d_fifo_wr_en(w, to_this) \/ ifsm = "TRIM_PKT"
                                  \/ ifsm = "FINISH_PKT" \/ kind = "port_selector"
                             THEN NextId(source.pkt) ELSE source.pkt,
                     words |-> 0]
  /\ since' = IF Arrives(w) THEN 0 ELSE IF since < MAX_BP THEN since + 1 ELSE since

Cycle(w, to_this, bp, tready) ==
  /\ Insertion(w, to_this, bp)
  /\ Removal(tready)
  /\ Fifos(w, to_this, tready)
  /\ Source(w, to_this)
  /\ UNCHANGED kind

(* trim_ts.v never asserts back pressure (:192) and looks at neither FIFO: *)
(* a receiver that stalls lets them overflow.                              *)
Readies == IF kind = "trim_ts" /\ ~TRIM_STALLS THEN {TRUE} ELSE BOOLEAN
Pauses == IF kind = "rate_limiter" THEN 0 .. MAX_BP ELSE {0}
Destinations == IF kind = "simple_output_queues" THEN BOOLEAN ELSE {TRUE}

Step(tready) ==
  \E w \in Offers, to_this \in Destinations, bp \in Pauses :
     Cycle(w, to_this, bp, tready)

Next == \E tready \in Readies : Step(tready)

Spec == Init /\ [][Next]_vars

(* The clock never stops and the receiver is ready again and again. *)
FairSpec == Spec /\ WF_vars(Next) /\ WF_vars(Step(TRUE))

-----------------------------------------------------------------------------
(* The words that leave are whole packets in the order they came: a packet *)
(* goes on until tlast, and after tlast the next one starts.               *)
Follows(a, b) ==
  IF a.last THEN b.pkt = NextId(a.pkt) /\ b.idx = 1
  ELSE b.pkt = a.pkt /\ b.idx = a.idx + 1

(* The longest packet that may leave. *)
Limit ==
  CASE kind = "trim_ts" -> 2
    [] kind = "rate_limiter" -> MAX_LEN
    [] OTHER -> MAX_PKT_WORDS

(* Those of the first i words stored that start a packet.                  *)
Starts(i) == {j \in 1 .. i : data[j].idx = 1}

FifosInBounds == Len(data) <= MAX_DEPTH /\ Len(meta) <= MAX_PKTS

WordsInOrder ==
  \A i \in 1 .. Len(data) :
     /\ Follows(IF i = 1 THEN out ELSE data[i - 1], data[i])
     /\ data[i].idx <= Limit

MetaInOrder ==
  /\ Len(meta) = Cardinality(Starts(Len(data)))
  /\ \A i \in Starts(Len(data)) : meta[Cardinality(Starts(i))] = data[i].pkt

(* Framing is kept though packets are cut, dropped and overtaken by none:  *)
(* no word is lost or out of place, none follows a packet's last word, the *)
(* meta data at the head of its FIFO is that of the packet whose first     *)
(* word comes out next, and neither FIFO is written when it is full, from  *)
(* which they do not protect themselves.  For trim_ts only before a        *)
(* receiver that never stalls (~TRIM_STALLS).                              *)
FramesIntact ==
  /\ FifosInBounds
  /\ WordsInOrder
  /\ MetaInOrder
  /\ rfsm = "RFSM_START" <=> out.last

(* Between two words of a packet, and before the next packet, at least as  *)
(* many cycles pass as the packet asks for.                                *)
PacingKept == kind = "rate_limiter" /\ s_axis_tready => since >= bp_config_r

(* Whatever the packets, the buffer takes a word again some time: it never *)
(* waits for the rest of a packet it does not let in.                      *)
InputNotBlocked == []<>s_axis_tready
=============================================================================

----------------------- MODULE StreamBuffers_proofs -----------------------
(***************************************************************************)
(* Proofs about the stream buffers, for all of them and for every depth of *)
(* the FIFOs and every length of packets: they keep framing and pace, and  *)
(* never write to a FIFO that is full.                                     *)
(***************************************************************************)
EXTENDS StreamBuffers, FiniteSetTheorems, TLAPS

-----------------------------------------------------------------------------
(* Sequences of words d after a word x, and the meta data m of those that  *)
(* start a packet.                                                         *)
StartsOf(d, i) == {j \in 1 .. i : d[j].idx = 1}

Chain(x, d) == \A i \in 1 .. Len(d) : Follows(IF i = 1 THEN x ELSE d[i - 1], d[i])

LastOf(x, d) == IF d = <<>> THEN x ELSE d[Len(d)]

Order(d, m) ==
  /\ Len(m) = Cardinality(StartsOf(d, Len(d)))
  /\ \A i \in StartsOf(d, Len(d)) : m[Cardinality(StartsOf(d, i))] = d[i].pkt

(* Starts can be counted. *)
LEMMA StartsFinite ==
  ASSUME NEW d, NEW i \in Nat
  PROVE  /\ IsFiniteSet(StartsOf(d, i))
         /\ Cardinality(StartsOf(d, i)) \in Nat
         /\ Cardinality(StartsOf(d, i)) <= i
<1>1. IsFiniteSet(1 .. i) /\ Cardinality(1 .. i) = i
  BY FS_Interval
<1>2. StartsOf(d, i) \subseteq 1 .. i
  BY DEF StartsOf
<1> QED BY <1>1, <1>2, FS_Subset, FS_CardinalityType

(* A start that comes later is counted later. *)
LEMMA StartsGrow ==
  ASSUME NEW d, NEW n \in Nat, NEW i \in StartsOf(d, n)
  PROVE  /\ Cardinality(StartsOf(d, i)) \in 1 .. Cardinality(StartsOf(d, n))
<1>1. /\ i \in 1 .. n
      /\ StartsOf(d, i) \subseteq StartsOf(d, n) /\ i \in StartsOf(d, i)
  BY DEF StartsOf
<1>2. /\ IsFiniteSet(StartsOf(d, n)) /\ Cardinality(StartsOf(d, n)) \in Nat
      /\ IsFiniteSet(StartsOf(d, i)) /\ Cardinality(StartsOf(d, i)) \in Nat
  BY <1>1, StartsFinite
<1>3. Cardinality(StartsOf(d, i)) <= Cardinality(StartsOf(d, n))
  BY <1>1, <1>2, FS_Subset
<1>4. Cardinality(StartsOf(d, i)) # 0
  BY <1>1, <1>2, FS_EmptySet
<1> QED BY <1>2, <1>3, <1>4

(* Without the first word the others are one place further to the front.   *)
LEMMA StartsTail ==
  ASSUME NEW W, NEW d \in Seq(W), d # <<>>, NEW i \in Nat, i < Len(d)
  PROVE  Cardinality(StartsOf(Tail(d), i))
           = Cardinality(StartsOf(d, i + 1)) - (IF d[1].idx = 1 THEN 1 ELSE 0)
<1> DEFINE A == StartsOf(Tail(d), i)
           B == StartsOf(d, i + 1) \ {1}
           f == [j \in A |-> j + 1]
<1>1. /\ Len(d) \in Nat /\ Len(Tail(d)) = Len(d) - 1
      /\ \A j \in 1 .. i : Tail(d)[j] = d[j + 1]
  OBVIOUS
<1>2. \A j \in 1 .. i : j \in A <=> j + 1 \in B
  BY <1>1 DEF StartsOf
<1>3. A \subseteq 1 .. i /\ B \subseteq 2 .. i + 1
  BY DEF StartsOf
<1>4. f \in Bijection(A, B)
  <2> HIDE DEF A, B
  <2>1. f \in Injection(A, B)
    BY <1>2, <1>3 DEF Injection, IsInjective
  <2>2. \A b \in B : b - 1 \in A /\ f[b - 1] = b
    BY <1>2, <1>3
  <2>3. f \in Surjection(A, B)
    BY <2>1, <2>2 DEF Surjection, Injection
  <2> QED BY <2>1, <2>3 DEF Bijection
<1>5. IsFiniteSet(StartsOf(d, i + 1)) /\ IsFiniteSet(A)
      /\ Cardinality(StartsOf(d, i + 1)) \in Nat
  BY StartsFinite
<1>6. Cardinality(A) = Cardinality(B)
  BY <1>4, <1>5, FS_Bijection DEF ExistsBijection
<1>7. d[1].idx = 1 <=> 1 \in StartsOf(d, i + 1)
  BY DEF StartsOf
<1>8. CASE d[1].idx = 1
  BY <1>5, <1>6, <1>7, <1>8, FS_RemoveElement
<1>9. CASE d[1].idx # 1
  <2>1. B = StartsOf(d, i + 1)
    BY <1>7, <1>9
  <2>2. Cardinality(A) = Cardinality(StartsOf(d, i + 1))
    BY <1>6, <2>1
  <2> QED BY <1>5, <1>9, <2>2
<1> QED BY <1>8, <1>9

(* A word behind them changes nothing for those before it.                 *)
LEMMA StartsAppend ==
  ASSUME NEW W, NEW d \in Seq(W), NEW y \in W
  PROVE  /\ \A i \in 0 .. Len(d) : StartsOf(d \o <<y>>, i) = StartsOf(d, i)
         /\ y.idx = 1 => /\ StartsOf(d \o <<y>>, Len(d) + 1)
                              = StartsOf(d, Len(d)) \cup {Len(d) + 1}
                         /\ Len(d) + 1 \notin StartsOf(d, Len(d))
         /\ y.idx # 1 => StartsOf(d \o <<y>>, Len(d) + 1) = StartsOf(d, Len(d))
<1>1. /\ Len(d) \in Nat
      /\ \A j \in 1 .. Len(d) : (d \o <<y>>)[j] = d[j]
      /\ (d \o <<y>>)[Len(d) + 1] = y
  OBVIOUS
<1> QED BY <1>1 DEF StartsOf

(* The first word leaves, with its meta data if it starts a packet.        *)
LEMMA OrderTail ==
  ASSUME NEW W, NEW P, NEW d \in Seq(W), NEW m \in Seq(P), d # <<>>, Order(d, m)
  PROVE  /\ d[1].idx = 1 => m # <<>> /\ m[1] = d[1].pkt /\ Order(Tail(d), Tail(m))
         /\ d[1].idx # 1 => Order(Tail(d), m)
<1> DEFINE n == Len(d) - 1
           t == Tail(d)
<1>1. /\ Len(d) \in Nat /\ n \in Nat /\ Len(t) = n /\ n + 1 = Len(d) /\ 1 \in 1 .. Len(d)
      /\ \A i \in 1 .. n : t[i] = d[i + 1] /\ i \in Nat /\ i < Len(d)
  OBVIOUS
<1>2. Cardinality(StartsOf(t, n))
        = Cardinality(StartsOf(d, Len(d))) - (IF d[1].idx = 1 THEN 1 ELSE 0)
  BY <1>1, StartsTail
<1>3. ASSUME NEW i \in StartsOf(t, n)
      PROVE  /\ Cardinality(StartsOf(t, i))
                  = Cardinality(StartsOf(d, i + 1)) - (IF d[1].idx = 1 THEN 1 ELSE 0)
             /\ i + 1 \in StartsOf(d, Len(d)) /\ t[i].pkt = d[i + 1].pkt
             /\ Cardinality(StartsOf(t, i)) \in 1 .. Cardinality(StartsOf(t, n))
             /\ Cardinality(StartsOf(d, i + 1)) \in Nat
  <2>1. i \in 1 .. n /\ t[i].idx = 1
    BY DEF StartsOf
  <2>2. i + 1 \in 1 .. Len(d) /\ d[i + 1].idx = 1
    BY <1>1, <2>1
  <2>3. Cardinality(StartsOf(t, i))
          = Cardinality(StartsOf(d, i + 1)) - (IF d[1].idx = 1 THEN 1 ELSE 0)
    BY <1>1, <2>1, StartsTail
  <2>4. i + 1 \in StartsOf(d, Len(d))
    BY <1>1, <2>2 DEF StartsOf
  <2>5. Cardinality(StartsOf(t, i)) \in 1 .. Cardinality(StartsOf(t, n))
    BY <1>1, StartsGrow
  <2>6. Cardinality(StartsOf(d, i + 1)) \in Nat
    BY <2>2, StartsFinite
  <2> QED BY <1>1, <2>1, <2>3, <2>4, <2>5, <2>6
<1>4. Cardinality(StartsOf(d, Len(d))) \in Nat /\ Len(m) \in Nat
  BY <1>1, StartsFinite
<1> HIDE DEF t, n
<1>5. CASE d[1].idx = 1
  <2>1. 1 \in StartsOf(d, Len(d)) /\ Cardinality(StartsOf(d, 1)) = 1
    <3>1. StartsOf(d, 1) = {1}
      BY <1>5 DEF StartsOf
    <3> QED BY <1>1, <1>5, <3>1, FS_Singleton DEF StartsOf
  <2>2. m # <<>> /\ m[1] = d[1].pkt
    <3>1. Len(m) >= 1
      BY <1>1, <2>1, StartsGrow DEF Order
    <3> QED BY <2>1, <3>1 DEF Order
  <2>3. /\ Len(Tail(m)) = Len(m) - 1
        /\ \A c \in 1 .. Len(m) - 1 : Tail(m)[c] = m[c + 1]
    BY <2>2
  <2>4. Len(Tail(m)) = Cardinality(StartsOf(t, n))
    BY <1>2, <1>5, <2>3 DEF Order
  <2>5. ASSUME NEW i \in StartsOf(t, n)
        PROVE  Tail(m)[Cardinality(StartsOf(t, i))] = t[i].pkt
    <3>1. PICK c \in Nat : c = Cardinality(StartsOf(t, i))
      BY <1>3
    <3>2. c + 1 = Cardinality(StartsOf(d, i + 1)) /\ c \in 1 .. Len(m) - 1
      BY <1>3, <1>5, <2>3, <2>4, <3>1
    <3>3. Tail(m)[c] = m[c + 1]
      BY <2>3, <3>2
    <3> QED BY <1>3, <3>1, <3>2, <3>3 DEF Order
  <2> QED BY <1>1, <1>5, <2>2, <2>4, <2>5 DEF Order, t
<1>6. CASE d[1].idx # 1
  <2>1. Len(m) = Cardinality(StartsOf(t, n))
    BY <1>2, <1>4, <1>6 DEF Order
  <2>2. ASSUME NEW i \in StartsOf(t, n)
        PROVE  m[Cardinality(StartsOf(t, i))] = t[i].pkt
    <3>1. Cardinality(StartsOf(t, i)) = Cardinality(StartsOf(d, i + 1))
      BY <1>3, <1>6
    <3> QED BY <1>3, <3>1 DEF Order
  <2> QED BY <1>1, <1>6, <2>1, <2>2 DEF Order, t
<1> QED BY <1>5, <1>6

(* A word is stored, with its meta data if it starts a packet.             *)
LEMMA OrderAppend ==
  ASSUME NEW W, NEW P, NEW d \in Seq(W), NEW m \in Seq(P), Order(d, m),
         NEW y \in W, y.pkt \in P
  PROVE  /\ y.idx = 1 => Order(d \o <<y>>, m \o <<y.pkt>>)
         /\ y.idx # 1 => Order(d \o <<y>>, m)
<1> DEFINE t == d \o <<y>>
           n == Len(d)
<1>1. /\ n \in Nat /\ Len(m) \in Nat /\ Len(t) = n + 1
      /\ \A j \in 1 .. n : t[j] = d[j]
      /\ t[n + 1] = y
  OBVIOUS
<1>2. /\ IsFiniteSet(StartsOf(d, n)) /\ Len(m) = Cardinality(StartsOf(d, n))
  BY <1>1, StartsFinite DEF Order
<1>3. ASSUME NEW i \in StartsOf(d, n)
      PROVE  /\ Cardinality(StartsOf(t, i)) \in 1 .. Len(m)
             /\ m[Cardinality(StartsOf(t, i))] = t[i].pkt
  <2>1. i \in 1 .. n
    BY DEF StartsOf
  <2>2. StartsOf(t, i) = StartsOf(d, i)
    BY <1>1, <2>1, StartsAppend
  <2> QED BY <1>1, <1>2, <2>1, <2>2, StartsGrow DEF Order
<1>4. CASE y.idx = 1
  <2>1. /\ StartsOf(t, n + 1) = StartsOf(d, n) \cup {n + 1}
        /\ n + 1 \notin StartsOf(d, n)
    BY <1>4, StartsAppend
  <2>2. Cardinality(StartsOf(t, n + 1)) = Len(m) + 1
    BY <1>2, <2>1, FS_AddElement
  <2>3. /\ Len(m \o <<y.pkt>>) = Len(m) + 1
        /\ \A c \in 1 .. Len(m) : (m \o <<y.pkt>>)[c] = m[c]
        /\ (m \o <<y.pkt>>)[Len(m) + 1] = y.pkt
    OBVIOUS
  <2> HIDE DEF t, n
  <2>4. \A i \in StartsOf(t, n + 1) : (m \o <<y.pkt>>)[Cardinality(StartsOf(t, i))] = t[i].pkt
    BY <1>1, <1>3, <2>1, <2>2, <2>3
  <2>5. Order(t, m \o <<y.pkt>>)
    BY <1>1, <2>2, <2>3, <2>4 DEF Order
  <2> QED BY <1>4, <2>5 DEF t
<1>5. CASE y.idx # 1
  <2>1. StartsOf(t, n + 1) = StartsOf(d, n)
    BY <1>5, StartsAppend
  <2> HIDE DEF t, n
  <2>2. Order(t, m)
    BY <1>1, <1>2, <1>3, <2>1 DEF Order
  <2> QED BY <1>5, <2>2 DEF t
<1> QED BY <1>4, <1>5

(* The same for the order of the words themselves.                         *)
LEMMA ChainTail ==
  ASSUME NEW W, NEW x \in W, NEW d \in Seq(W), d # <<>>, Chain(x, d)
  PROVE  /\ Follows(x, d[1]) /\ Chain(d[1], Tail(d))
         /\ LastOf(d[1], Tail(d)) = LastOf(x, d)
<1>1. /\ Len(d) \in Nat /\ Len(Tail(d)) = Len(d) - 1 /\ 1 \in 1 .. Len(d)
      /\ \A i \in 1 .. Len(d) - 1 : Tail(d)[i] = d[i + 1]
  OBVIOUS
<1>2. Follows(x, d[1])
  BY <1>1 DEF Chain
<1>3. ASSUME NEW i \in 1 .. Len(d) - 1
      PROVE  Follows(IF i = 1 THEN d[1] ELSE Tail(d)[i - 1], Tail(d)[i])
  <2>1. i + 1 \in 1 .. Len(d) /\ i + 1 # 1 /\ (i + 1) - 1 = i
    BY <1>1
  <2>2. Follows(d[i], d[i + 1])
    BY <2>1 DEF Chain
  <2>3. i # 1 => i - 1 \in 1 .. Len(d) - 1 /\ (i - 1) + 1 = i
    OBVIOUS
  <2>4. (IF i = 1 THEN d[1] ELSE Tail(d)[i - 1]) = d[i] /\ Tail(d)[i] = d[i + 1]
    BY <1>1, <2>3
  <2> QED BY <2>2, <2>4
<1>4. Chain(d[1], Tail(d))
  BY <1>1, <1>3 DEF Chain
<1>5. LastOf(d[1], Tail(d)) = LastOf(x, d)
  BY <1>1 DEF LastOf
<1> QED BY <1>2, <1>4, <1>5

(* A word behind them must follow the last one.                            *)
LEMMA ChainAppend ==
  ASSUME NEW W, NEW x \in W, NEW d \in Seq(W), NEW y \in W, Chain(x, d),
         Follows(LastOf(x, d), y)
  PROVE  Chain(x, d \o <<y>>) /\ LastOf(x, d \o <<y>>) = y
<1> DEFINE t == d \o <<y>>
<1>1. /\ Len(d) \in Nat /\ Len(t) = Len(d) + 1 /\ t # <<>>
      /\ \A i \in 1 .. Len(d) : t[i] = d[i]
      /\ t[Len(d) + 1] = y
      /\ d = <<>> <=> Len(d) = 0
  OBVIOUS
<1> HIDE DEF t
<1>2. ASSUME NEW i \in 1 .. Len(d)
      PROVE  Follows(IF i = 1 THEN x ELSE t[i - 1], t[i])
  <2>1. i # 1 => i - 1 \in 1 .. Len(d)
    OBVIOUS
  <2>2. (IF i = 1 THEN x ELSE t[i - 1]) = (IF i = 1 THEN x ELSE d[i - 1]) /\ t[i] = d[i]
    BY <1>1, <2>1
  <2> QED BY <2>2 DEF Chain
<1>3. Follows(IF Len(d) + 1 = 1 THEN x ELSE t[(Len(d) + 1) - 1], t[Len(d) + 1])
  <2>1. (IF Len(d) + 1 = 1 THEN x ELSE t[(Len(d) + 1) - 1]) = LastOf(x, d)
    BY <1>1 DEF LastOf
  <2> QED BY <1>1, <2>1
<1>4. \A i \in 1 .. Len(d) + 1 : i \in 1 .. Len(d) \/ i = Len(d) + 1
  BY <1>1
<1>5. Chain(x, t)
  BY <1>1, <1>2, <1>3, <1>4 DEF Chain
<1>6. LastOf(x, t) = y
  BY <1>1 DEF LastOf
<1> QED BY <1>5, <1>6 DEF t

-----------------------------------------------------------------------------
(* The words that are stored.                                              *)
Sent == {a \in [pkt : Ids, idx : Nat \ {0}, last : BOOLEAN] :
           a.idx <= Limit /\ (a.idx = 1 => ~a.last)}

newest == LastOf(out, data)

(* Where the source is in relation to a, the word of it taken last:        *)
(* between packets or within one.                                          *)
Between(a) == a.last /\ source.words = 0 /\ source.pkt = NextId(a.pkt)
Within(a) == ~a.last /\ source.words = a.idx /\ source.pkt = a.pkt

(* The insertion machines: their states say whether the packet stored last *)
(* is whole, and what of the source's packet is passed over.               *)
AxiInv ==
  \/ ifsm = "WAIT_START" /\ Between(newest)
  \/ ifsm = "RCV_WORD" /\ Within(newest)
       /\ pkt_word_cnt_r = source.words /\ source.words < MAX_PKT_WORDS
  \/ ifsm = "TRIM_PKT" /\ newest.last /\ source.words # 0 /\ source.pkt = newest.pkt

RateInv ==
  \/ ifsm = "WAIT_START" /\ Between(newest)
  \/ ifsm = "ASSERT_BP" /\ pkt_done_r /\ Between(newest)
  \/ ifsm \in {"RCV_WORD", "ASSERT_BP"} /\ ~pkt_done_r /\ Within(newest)

QueueInv ==
  \/ ifsm = "WAIT_START" /\ Between(newest)
  \/ ifsm = "RCV_WORD" /\ Within(newest)
  \/ ifsm = "DROP_PKT" /\ newest.last /\ source.words # 0
       /\ source.pkt = NextId(newest.pkt)

TrimInv ==
  \/ ifsm = "WAIT_START" /\ Between(newest)
  \/ ifsm = "WORD_TWO" /\ Within(newest) /\ source.words = 1
  \/ ifsm = "FINISH_PKT" /\ newest.last /\ source.words # 0 /\ source.pkt = newest.pkt

SelectorInv ==
  /\ ifsm = IF newest.last THEN "WAIT_START" ELSE "WAIT_END"
  /\ pipe = NoWord => Between(newest) \/ Within(newest)
  /\ pipe # NoWord => /\ pipe \in Sent /\ Follows(newest, pipe)
                      /\ Between(pipe) \/ Within(pipe)

WriterInv ==
  /\ source \in [pkt : Ids, words : Nat] /\ source.words < LongestPkt
  /\ kind = "axi_stream_fifo" => AxiInv
  /\ kind = "rate_limiter" => RateInv
  /\ kind = "simple_output_queues" => QueueInv
  /\ kind = "trim_ts" => TrimInv
  /\ kind = "port_selector" => SelectorInv

(* There is always room for the rest of a packet that was let in.          *)
RoomKept ==
  /\ Len(data) <= MAX_DEPTH - 1 /\ Len(meta) <= MAX_PKTS - 1
  /\ kind = "trim_ts" => Len(data) <= 1
  /\ kind \in {"simple_output_queues", "port_selector"} /\ ~newest.last
       => Len(data) <= BUFFER_THRESHOLD - 1 + newest.idx

FramesInv ==
  /\ kind \in Kinds
  /\ out \in Sent /\ data \in Seq(Sent) /\ meta \in Seq(Ids)
  /\ Chain(out, data) /\ Order(data, meta)
  /\ rfsm \in {"RFSM_START", "RFSM_FINISH_PKT"}
  /\ rfsm = "RFSM_START" <=> out.last
  /\ WriterInv
  /\ RoomKept

-----------------------------------------------------------------------------
(* The numbering of packets stays within its numbers.                      *)
LEMMA NextIdIsId ==
  ASSUME NEW p \in Ids
  PROVE  NextId(p) \in Ids
BY DepthAssumption DEF Ids, NextId

(* The word stored last, or taken last if the FIFO is empty.               *)
LEMMA NewestIsSent ==
  ASSUME FramesInv
  PROVE  newest \in Sent
BY DEF FramesInv, newest, LastOf

(* What the source offers goes on where it is.                             *)
LEMMA OfferedWords ==
  ASSUME FramesInv, NEW w \in Offers, w # NoWord
  PROVE  /\ w \in [pkt : Ids, idx : Nat \ {0}, last : BOOLEAN]
         /\ w.pkt = source.pkt /\ w.idx = source.words + 1
         /\ ~w.last => w.idx < LongestPkt
         /\ w.last /\ kind # "axi_stream_fifo" => w.idx > 1
         /\ w.idx <= LongestPkt
BY DepthAssumption DEF FramesInv, WriterInv, Offers, LongestPkt

(* The word that is written to the FIFO is the one that follows, and meta  *)
(* data is written with the first of a packet.                             *)
LEMMA WordStored ==
  ASSUME FramesInv, NEW w \in Offers, NEW to_this \in Destinations,
         d_fifo_wr_en(w, to_this)
  PROVE  /\ d_fifo_din(w) \in Sent /\ Follows(newest, d_fifo_din(w))
         /\ d_fifo_din(w).pkt = Bus(w).pkt
         /\ ifsm = "WAIT_START" <=> d_fifo_din(w).idx = 1
<1> USE DEF FramesInv
<1>1. newest \in Sent /\ Bus(w) # NoWord /\ source \in [pkt : Ids, words : Nat]
  BY NewestIsSent DEF d_fifo_wr_en, Arrives, WriterInv
<1>2. ifsm \notin {"TRIM_PKT", "DROP_PKT", "FINISH_PKT"} /\ s_axis_tready
  BY DEF d_fifo_wr_en, Arrives
<1>3. CASE kind = "port_selector"
  <2>1. Bus(w) = pipe /\ pipe \in Sent /\ Follows(newest, pipe)
        /\ ifsm = IF newest.last THEN "WAIT_START" ELSE "WAIT_END"
    BY <1>1, <1>3 DEF Bus, WriterInv, SelectorInv
  <2>2. d_fifo_din(w) = pipe
    BY <1>3, <2>1 DEF d_fifo_din, Cut, Sent
  <2> QED BY <1>1, <2>1, <2>2 DEF Follows, Sent
<1>4. CASE kind # "port_selector"
  <2>1. Bus(w) = w /\ w # NoWord
    BY <1>1, <1>4 DEF Bus
  <2>2. /\ w \in [pkt : Ids, idx : Nat \ {0}, last : BOOLEAN]
        /\ w.pkt = source.pkt /\ w.idx = source.words + 1
        /\ ~w.last => w.idx < LongestPkt
        /\ w.last /\ kind # "axi_stream_fifo" => w.idx > 1
        /\ w.idx <= LongestPkt
    BY <2>1, OfferedWords
  <2>3. /\ d_fifo_din(w) \in [pkt : Ids, idx : Nat \ {0}, last : BOOLEAN]
        /\ d_fifo_din(w).pkt = w.pkt /\ d_fifo_din(w).idx = w.idx
        /\ d_fifo_din(w).last = \/ w.last
                                \/ kind = "axi_stream_fifo" /\ Cut
                                \/ ifsm = "WORD_TWO"
    <3> DEFINE l == \/ Bus(w).last
                    \/ kind = "axi_stream_fifo" /\ Cut
                    \/ ifsm = "WORD_TWO"
    <3>1. l \in BOOLEAN
      OBVIOUS
    <3>2. d_fifo_din(w) = [Bus(w) EXCEPT !.last = l]
      BY DEF d_fifo_din
    <3> HIDE DEF l
    <3>3. /\ d_fifo_din(w) \in [pkt : Ids, idx : Nat \ {0}, last : BOOLEAN]
          /\ d_fifo_din(w).pkt = w.pkt /\ d_fifo_din(w).idx = w.idx
          /\ d_fifo_din(w).last = l
      BY <2>1, <2>2, <3>1, <3>2
    <3> QED BY <2>1, <3>3 DEF l
  <2>4. \/ ifsm = "WAIT_START" /\ Between(newest)
        \/ ifsm # "WAIT_START" /\ Within(newest)
    BY <1>2, <1>4 DEF WriterInv, AxiInv, RateInv, QueueInv, TrimInv, Kinds, s_axis_tready
  <2>5. Follows(newest, d_fifo_din(w)) /\ (ifsm = "WAIT_START" <=> w.idx = 1)
    BY <1>1, <2>2, <2>3, <2>4 DEF Follows, Between, Within, Sent
  <2>6. w.idx <= Limit
    BY <1>1, <1>2, <1>4, <2>2, <2>4, DepthAssumption
       DEF Limit, LongestPkt, WriterInv, AxiInv, TrimInv, Between, Within, Kinds
  <2>7. w.idx = 1 => ~d_fifo_din(w).last
    BY <2>1, <2>2, <2>3, <2>5 DEF d_fifo_wr_en, Cut
  <2> QED BY <2>1, <2>2, <2>3, <2>5, <2>6, <2>7 DEF Sent
<1> QED BY <1>3, <1>4

(* In one cycle both FIFOs move as one sequence of packets.                *)
LEMMA FramesMove ==
  ASSUME FramesInv, NEW w \in Offers, NEW to_this \in Destinations,
         NEW tready \in BOOLEAN, Removal(tready), Fifos(w, to_this, tready), kind' = kind
  PROVE  /\ out' \in Sent /\ data' \in Seq(Sent) /\ meta' \in Seq(Ids)
         /\ Chain(out', data') /\ Order(data', meta')
         /\ rfsm' \in {"RFSM_START", "RFSM_FINISH_PKT"}
         /\ rfsm' = "RFSM_START" <=> out'.last
         /\ newest' = IF d_fifo_wr_en(w, to_this) THEN d_fifo_din(w) ELSE newest
         /\ Len(data') = Len(data) - (IF d_fifo_rd_en(tready) THEN 1 ELSE 0)
                                   + (IF d_fifo_wr_en(w, to_this) THEN 1 ELSE 0)
         /\ Len(meta') <= IF m_fifo_wr_en(w, to_this) THEN Len(meta) + 1 ELSE Len(meta)
         /\ m_axis_tvalid <=> data # <<>>
<1> DEFINE rd == d_fifo_rd_en(tready)
           wr == d_fifo_wr_en(w, to_this)
           y == d_fifo_din(w)
<1>1. /\ out \in Sent /\ data \in Seq(Sent) /\ meta \in Seq(Ids)
      /\ Chain(out, data) /\ Order(data, meta)
      /\ rfsm \in {"RFSM_START", "RFSM_FINISH_PKT"} /\ (rfsm = "RFSM_START" <=> out.last)
  BY DEF FramesInv
<1>2. /\ rd \in BOOLEAN /\ wr \in BOOLEAN /\ (rd => data # <<>>)
  BY DEF d_fifo_rd_en, d_fifo_wr_en, m_axis_tvalid
<1>3. wr => /\ y \in Sent /\ y.pkt \in Ids /\ Follows(LastOf(out, data), y)
            /\ y.pkt = Bus(w).pkt /\ (ifsm = "WAIT_START" <=> y.idx = 1)
  BY WordStored DEF newest, Sent
<1>4. data # <<>> => /\ Head(data) = data[1] /\ data[1] \in Sent
                     /\ rfsm = "RFSM_START" <=> data[1].idx = 1
  <2> SUFFICES ASSUME data # <<>>
               PROVE  /\ Head(data) = data[1] /\ data[1] \in Sent
                      /\ rfsm = "RFSM_START" <=> data[1].idx = 1
    OBVIOUS
  <2>1. Head(data) = data[1] /\ data[1] \in Sent
    BY <1>1
  <2>2. Follows(out, data[1])
    BY <1>1, ChainTail
  <2> QED BY <1>1, <2>1, <2>2 DEF Follows, Sent
<1>5. m_axis_tvalid <=> data # <<>>
  <2>1. data # <<>> /\ rfsm = "RFSM_START" => meta # <<>>
    BY <1>1, <1>4, OrderTail
  <2> QED BY <2>1 DEF m_axis_tvalid
<1>6. /\ data' = Fifo(data, rd, wr, y)
      /\ meta' = Fifo(meta, rd /\ data[1].idx = 1, wr /\ y.idx = 1, y.pkt)
      /\ out' = IF rd THEN Head(data) ELSE out
  <2>1. /\ m_fifo_rd_en(tready) <=> rd /\ data[1].idx = 1
        /\ m_fifo_wr_en(w, to_this) <=> wr /\ y.idx = 1
    BY <1>2, <1>3, <1>4 DEF m_fifo_rd_en, m_fifo_wr_en
  <2>2. /\ data' = Fifo(data, rd, wr, y)
        /\ meta' = Fifo(meta, m_fifo_rd_en(tready), m_fifo_wr_en(w, to_this), Bus(w).pkt)
        /\ out' = IF rd THEN Head(data) ELSE out
    BY DEF Fifos, Removal
  <2> QED BY <1>3, <2>1, <2>2 DEF Fifo
<1> DEFINE d == IF rd THEN Tail(data) ELSE data
           m == IF rd /\ data[1].idx = 1 THEN Tail(meta) ELSE meta
<1>7. /\ data' = IF wr THEN d \o <<y>> ELSE d \o <<>>
      /\ meta' = IF wr /\ y.idx = 1 THEN m \o <<y.pkt>> ELSE m \o <<>>
  BY <1>6 DEF Fifo
<1>8. /\ out' \in Sent /\ d \in Seq(Sent) /\ m \in Seq(Ids)
      /\ Chain(out', d) /\ Order(d, m) /\ LastOf(out', d) = newest
      /\ Len(d) = Len(data) - (IF rd THEN 1 ELSE 0) /\ Len(m) <= Len(meta)
  <2>1. CASE rd
    <3>1. /\ data # <<>> /\ out' = data[1] /\ d = Tail(data) /\ data[1] \in Sent
          /\ Tail(data) \in Seq(Sent) /\ Len(Tail(data)) = Len(data) - 1
      BY <1>1, <1>2, <1>4, <1>6, <2>1
    <3>2. Chain(data[1], Tail(data)) /\ LastOf(data[1], Tail(data)) = newest
      BY <1>1, <3>1, ChainTail DEF newest
    <3>3. /\ data[1].idx = 1 => meta # <<>> /\ Order(Tail(data), Tail(meta))
          /\ data[1].idx # 1 => Order(Tail(data), meta)
      <4>1. data \in Seq(Sent) /\ meta \in Seq(Ids) /\ Order(data, meta) /\ data # <<>>
        BY <1>1, <3>1
      <4> QED BY ONLY <4>1, OrderTail
    <3>4. Order(d, m) /\ m \in Seq(Ids) /\ Len(m) <= Len(meta)
      BY <1>1, <2>1, <3>1, <3>3
    <3> QED BY <2>1, <3>1, <3>2, <3>4
  <2>2. CASE ~rd
    <3>1. d = data /\ m = meta /\ out' = out
      BY <1>6, <2>2
    <3> QED BY <1>1, <2>2, <3>1 DEF newest
  <2> QED BY <2>1, <2>2
<1> HIDE DEF d, m
<1>9. /\ out' \in Sent /\ data' \in Seq(Sent) /\ meta' \in Seq(Ids)
      /\ Chain(out', data') /\ Order(data', meta')
      /\ LastOf(out', data') = IF wr THEN y ELSE newest
      /\ Len(data') = Len(data) - (IF rd THEN 1 ELSE 0) + (IF wr THEN 1 ELSE 0)
      /\ Len(meta') <= IF wr /\ y.idx = 1 THEN Len(meta) + 1 ELSE Len(meta)
  <2>1. CASE wr
    <3>1. /\ data' = d \o <<y>> /\ y \in Sent /\ y.pkt \in Ids
          /\ data' \in Seq(Sent) /\ Len(data') = Len(d) + 1
      BY <1>3, <1>7, <1>8, <2>1
    <3>2. Chain(out', d \o <<y>>) /\ LastOf(out', d \o <<y>>) = y
      BY <1>3, <1>8, <2>1, <3>1, ChainAppend DEF newest
    <3>3. /\ y.idx = 1 => Order(d \o <<y>>, m \o <<y.pkt>>)
          /\ y.idx # 1 => Order(d \o <<y>>, m)
      BY <1>8, <3>1, OrderAppend
    <3>4. /\ y.idx = 1 => /\ meta' = m \o <<y.pkt>> /\ meta' \in Seq(Ids)
                           /\ Len(meta') = Len(m) + 1
          /\ y.idx # 1 => meta' = m
      BY <1>7, <1>8, <2>1, <3>1
    <3>5. Len(m) \in Nat /\ Len(meta) \in Nat
      BY <1>1, <1>8
    <3>6. Order(data', meta')
      BY <3>1, <3>3, <3>4
    <3>7. Len(meta') <= IF wr /\ y.idx = 1 THEN Len(meta) + 1 ELSE Len(meta)
      BY <1>8, <2>1, <3>4, <3>5
    <3>8. meta' \in Seq(Ids)
      BY <1>8, <3>4
    <3>9. Len(data') = Len(data) - (IF rd THEN 1 ELSE 0) + (IF wr THEN 1 ELSE 0)
      BY <1>8, <2>1, <3>1
    <3> QED BY <1>8, <2>1, <3>1, <3>2, <3>6, <3>7, <3>8, <3>9
  <2>2. CASE ~wr
    <3>1. data' = d /\ meta' = m
      BY <1>7, <1>8, <2>2
    <3> QED BY <1>1, <1>8, <2>2, <3>1
  <2> QED BY <2>1, <2>2
<1>10. /\ rfsm' \in {"RFSM_START", "RFSM_FINISH_PKT"}
       /\ rfsm' = "RFSM_START" <=> out'.last
  <2>1. rfsm' = IF ~rd THEN rfsm
                ELSE IF rfsm = "RFSM_FINISH_PKT" /\ Head(data).last THEN "RFSM_START"
                ELSE "RFSM_FINISH_PKT"
    BY DEF Removal
  <2>2. CASE rd
    BY <1>1, <1>2, <1>4, <1>6, <2>1, <2>2 DEF Sent
  <2>3. CASE ~rd
    BY <1>1, <1>6, <2>1, <2>3
  <2> QED BY <2>2, <2>3
<1>11. m_fifo_wr_en(w, to_this) <=> wr /\ y.idx = 1
  BY <1>3 DEF m_fifo_wr_en
<1>12. newest' = IF wr THEN y ELSE newest
  BY <1>9 DEF newest
<1> QED BY <1>5, <1>9, <1>10, <1>11, <1>12

-----------------------------------------------------------------------------
(* The source goes on in its packet, or with the next one.                 *)
LEMMA SourceMoves ==
  ASSUME FramesInv, NEW w \in Offers, NEW to_this \in Destinations, Source(w, to_this),
         kind' = kind
  PROVE  /\ source' \in [pkt : Ids, words : Nat] /\ source'.words < LongestPkt'
         /\ ~Taken(w) => source' = source
         /\ Taken(w) /\ ~w.last =>
              source'.words = w.idx /\ source'.pkt = source.pkt
         /\ Taken(w) /\ w.last =>
              /\ source'.words = 0
              /\ source'.pkt = IF \/ d_fifo_wr_en(w, to_this)
                                  \/ ifsm \in {"TRIM_PKT", "FINISH_PKT"}
                                  \/ kind = "port_selector"
                               THEN NextId(source.pkt) ELSE source.pkt
<1>1. source \in [pkt : Ids, words : Nat] /\ source.words < LongestPkt
  BY DEF FramesInv, WriterInv
<1>2. LongestPkt' = LongestPkt /\ LongestPkt \in Nat /\ LongestPkt > 0
  BY DepthAssumption DEF LongestPkt
<1>3. NextId(source.pkt) \in Ids
  BY <1>1, NextIdIsId
<1>4. CASE ~Taken(w)
  BY <1>1, <1>2, <1>4 DEF Source
<1>5. CASE Taken(w) /\ ~w.last
  <2>1. w.idx = source.words + 1 /\ w.idx < LongestPkt
    BY <1>5, OfferedWords DEF Taken
  <2>2. source' = [source EXCEPT !.words = @ + 1]
    BY <1>5 DEF Source
  <2> QED BY <1>1, <1>2, <1>5, <2>1, <2>2
<1>6. CASE Taken(w) /\ w.last
  <2>1. source' = [pkt |-> IF d_fifo_wr_en(w, to_this) \/ ifsm = "TRIM_PKT"
                                \/ ifsm = "FINISH_PKT" \/ kind = "port_selector"
                           THEN NextId(source.pkt) ELSE source.pkt,
                   words |-> 0]
    BY <1>6 DEF Source
  <2> QED BY <1>1, <1>2, <1>3, <1>6, <2>1
<1> QED BY <1>4, <1>5, <1>6

(* Without a register stage the word offered is on the bus.                *)
LEMMA DirectBus ==
  ASSUME FramesInv, kind # "port_selector", NEW w \in Offers,
         NEW to_this \in Destinations, Source(w, to_this), kind' = kind,
         newest' = IF d_fifo_wr_en(w, to_this) THEN d_fifo_din(w) ELSE newest
  PROVE  /\ Arrives(w) <=> Taken(w)
         /\ d_fifo_wr_en(w, to_this) =>
              /\ Arrives(w)
              /\ newest'.pkt = source.pkt /\ newest'.idx = w.idx
              /\ newest'.last <=> \/ w.last
                                  \/ kind = "axi_stream_fifo" /\ Cut
                                  \/ ifsm = "WORD_TWO"
         /\ ~d_fifo_wr_en(w, to_this) => newest' = newest
         /\ ~Arrives(w) => source' = source
         /\ Arrives(w) => /\ w.idx = source.words + 1 /\ w.idx # 0
                          /\ w.last /\ kind # "axi_stream_fifo" => w.idx > 1
<1>1. Bus(w) = w
  BY DEF Bus
<1>2. Arrives(w) <=> Taken(w)
  BY <1>1 DEF Arrives, Taken
<1>3. d_fifo_wr_en(w, to_this) => Arrives(w)
  BY DEF d_fifo_wr_en
<1>4. Arrives(w) => /\ w \in [pkt : Ids, idx : Nat \ {0}, last : BOOLEAN]
                    /\ w.pkt = source.pkt /\ w.idx = source.words + 1
                    /\ w.last /\ kind # "axi_stream_fifo" => w.idx > 1
  BY <1>2, OfferedWords DEF Taken
<1>5. ASSUME d_fifo_wr_en(w, to_this)
      PROVE  /\ newest'.pkt = source.pkt /\ newest'.idx = w.idx
             /\ newest'.last <=> \/ w.last
                                 \/ kind = "axi_stream_fifo" /\ Cut
                                 \/ ifsm = "WORD_TWO"
  <2> DEFINE l == \/ w.last
                  \/ kind = "axi_stream_fifo" /\ Cut
                  \/ ifsm = "WORD_TWO"
  <2>1. d_fifo_din(w) = [w EXCEPT !.last = l]
    BY <1>1 DEF d_fifo_din
  <2> HIDE DEF l
  <2>2. newest' = [w EXCEPT !.last = l]
    BY <1>5, <2>1
  <2>3. newest'.pkt = w.pkt /\ newest'.idx = w.idx /\ newest'.last = l
    BY <1>3, <1>4, <1>5, <2>2
  <2> QED BY <1>3, <1>4, <1>5, <2>3 DEF l
<1>6. ~Taken(w) => source' = source
  BY SourceMoves
<1> QED BY <1>2, <1>3, <1>4, <1>5, <1>6

(* axi_stream_fifo: packets of one word never enter, those too long end    *)
(* early and the rest of them is skipped.                                  *)
LEMMA AxiMoves ==
  ASSUME FramesInv, kind = "axi_stream_fifo", NEW w \in Offers,
         NEW to_this \in Destinations, NEW bp \in Pauses,
         Insertion(w, to_this, bp), Source(w, to_this), kind' = kind,
         newest' = IF d_fifo_wr_en(w, to_this) THEN d_fifo_din(w) ELSE newest
  PROVE  AxiInv'
<1>1. AxiInv /\ newest \in Sent /\ MAX_PKT_WORDS \in Nat /\ MAX_PKT_WORDS >= 2
      /\ source \in [pkt : Ids, words : Nat]
  BY NewestIsSent, DepthAssumption DEF FramesInv, WriterInv
<1>2. ~PauseOver
  BY <1>1 DEF PauseOver, AxiInv
<1>3. /\ ifsm' = IF Arrives(w) THEN AxiNext(w) ELSE ifsm
      /\ pkt_word_cnt_r' = IF ~d_fifo_wr_en(w, to_this) THEN pkt_word_cnt_r
                           ELSE IF ifsm = "WAIT_START" THEN 1
                           ELSE IF w.last \/ Cut THEN 0 ELSE pkt_word_cnt_r + 1
  BY <1>2 DEF Insertion
<1>4. /\ Arrives(w) => (d_fifo_wr_en(w, to_this) <=>
                          ifsm # "TRIM_PKT" /\ (ifsm = "WAIT_START" => ~w.last))
      /\ ~Arrives(w) => ~d_fifo_wr_en(w, to_this)
  BY <1>1 DEF d_fifo_wr_en, AxiInv
<1>5. CASE ~Arrives(w)
  BY <1>1, <1>3, <1>4, <1>5, DirectBus DEF AxiInv, Between, Within
<1>6. CASE Arrives(w) /\ ifsm = "WAIT_START"
  BY <1>1, <1>3, <1>4, <1>6, DirectBus, SourceMoves
     DEF AxiInv, Between, Within, AxiNext, Cut
<1>7. CASE Arrives(w) /\ ifsm = "RCV_WORD"
  <2>1. /\ Within(newest) /\ pkt_word_cnt_r = source.words /\ source.words < MAX_PKT_WORDS
    BY <1>1, <1>7 DEF AxiInv
  <2>2. /\ d_fifo_wr_en(w, to_this)
        /\ w.idx = source.words + 1
        /\ newest'.pkt = source.pkt /\ newest'.idx = w.idx
        /\ newest'.last <=> w.last \/ Cut
    BY <1>4, <1>7, DirectBus
  <2>3. /\ ~w.last => source'.words = w.idx /\ source'.pkt = source.pkt
        /\ w.last => source'.words = 0 /\ source'.pkt = NextId(source.pkt)
    BY <1>7, <2>2, DirectBus, SourceMoves
  <2>4. CASE w.last
    <3>1. ifsm' = "WAIT_START"
      BY <1>3, <1>7, <2>4 DEF AxiNext
    <3> QED BY <2>2, <2>3, <2>4, <3>1 DEF AxiInv, Between
  <2>5. CASE ~w.last /\ Cut
    <3>1. ifsm' = "TRIM_PKT"
      BY <1>3, <1>7, <2>5 DEF AxiNext
    <3> QED BY <1>1, <2>2, <2>3, <2>5, <3>1 DEF AxiInv
  <2>6. CASE ~w.last /\ ~Cut
    <3>1. ifsm' = "RCV_WORD" /\ pkt_word_cnt_r' = pkt_word_cnt_r + 1
      BY <1>3, <1>7, <2>2, <2>6 DEF AxiNext
    <3>2. source.words # MAX_PKT_WORDS - 1
      BY <1>7, <2>1, <2>6 DEF Cut
    <3> QED BY <1>1, <2>1, <2>2, <2>3, <2>6, <3>1, <3>2 DEF AxiInv, Within
  <2> QED BY <2>4, <2>5, <2>6
<1>8. CASE Arrives(w) /\ ifsm = "TRIM_PKT"
  BY <1>1, <1>3, <1>4, <1>8, DirectBus, SourceMoves
     DEF AxiInv, Between, AxiNext, Cut
<1> QED BY <1>1, <1>5, <1>6, <1>7, <1>8 DEF AxiInv

(* rate_limiter: the pause after a word does not change what comes next.   *)
LEMMA RateMoves ==
  ASSUME FramesInv, kind = "rate_limiter", NEW w \in Offers,
         NEW to_this \in Destinations, NEW bp \in Pauses,
         Insertion(w, to_this, bp), Source(w, to_this), kind' = kind,
         newest' = IF d_fifo_wr_en(w, to_this) THEN d_fifo_din(w) ELSE newest
  PROVE  RateInv'
<1>1. RateInv /\ newest \in Sent /\ source \in [pkt : Ids, words : Nat]
  BY NewestIsSent DEF FramesInv, WriterInv
<1>2. /\ ifsm' = IF PauseOver THEN IF pkt_done_r THEN "WAIT_START" ELSE "RCV_WORD"
                 ELSE IF ~Arrives(w) THEN ifsm ELSE RateNext(w, bp)
      /\ pkt_done_r' = IF ifsm = "WAIT_START" THEN FALSE
                       ELSE IF Arrives(w) /\ w.last THEN TRUE ELSE pkt_done_r
  BY DEF Insertion
<1>3. /\ Arrives(w) => ifsm # "ASSERT_BP" /\ ~PauseOver
      /\ d_fifo_wr_en(w, to_this) <=> Arrives(w)
  BY <1>1 DEF d_fifo_wr_en, RateInv, Arrives, s_axis_tready, PauseOver
<1>4. CASE ~Arrives(w)
  BY <1>1, <1>2, <1>3, <1>4, DirectBus DEF RateInv, Between, Within, PauseOver
<1>5. CASE Arrives(w)
  <2>1. /\ ifsm \in {"WAIT_START", "RCV_WORD"}
        /\ w.idx = source.words + 1 /\ (w.last => w.idx > 1)
        /\ newest'.pkt = source.pkt /\ newest'.idx = w.idx
        /\ newest'.last <=> w.last
    BY <1>1, <1>3, <1>5, DirectBus DEF RateInv
  <2>2. /\ ~w.last => source'.words = w.idx /\ source'.pkt = source.pkt
        /\ w.last => source'.words = 0 /\ source'.pkt = NextId(source.pkt)
    BY <1>3, <1>5, DirectBus, SourceMoves
  <2>3. ifsm' \in {"WAIT_START", "RCV_WORD", "ASSERT_BP"} /\ ifsm' = RateNext(w, bp)
    BY <1>2, <1>3, <1>5 DEF RateNext
  <2>4. w.last => ifsm = "RCV_WORD"
    BY <1>1, <2>1 DEF RateInv, Between, Within
  <2>5. CASE w.last
    <3>1. pkt_done_r' /\ ifsm' \in {"WAIT_START", "ASSERT_BP"}
      BY <1>2, <1>5, <2>3, <2>4, <2>5 DEF RateNext
    <3> QED BY <2>1, <2>2, <2>5, <3>1 DEF RateInv, Between
  <2>6. CASE ~w.last
    <3>1. ~pkt_done_r' /\ ifsm' \in {"RCV_WORD", "ASSERT_BP"}
      BY <1>1, <1>2, <1>5, <2>1, <2>3, <2>6 DEF RateNext, RateInv
    <3> QED BY <2>1, <2>2, <2>6, <3>1 DEF RateInv, Within
  <2> QED BY <2>5, <2>6
<1> QED BY <1>4, <1>5

(* simple_output_queues: a packet enters as a whole or not at all.         *)
LEMMA QueueMoves ==
  ASSUME FramesInv, kind = "simple_output_queues", NEW w \in Offers,
         NEW to_this \in Destinations, NEW bp \in Pauses,
         Insertion(w, to_this, bp), Source(w, to_this), kind' = kind,
         newest' = IF d_fifo_wr_en(w, to_this) THEN d_fifo_din(w) ELSE newest
  PROVE  QueueInv'
<1>1. QueueInv /\ newest \in Sent /\ source \in [pkt : Ids, words : Nat]
  BY NewestIsSent DEF FramesInv, WriterInv
<1>2. ifsm' = IF Arrives(w) THEN QueueNext(w, to_this) ELSE ifsm
  BY <1>1 DEF Insertion, PauseOver, QueueInv
<1>3. /\ Arrives(w) => (d_fifo_wr_en(w, to_this) <=>
                          ifsm # "DROP_PKT" /\ (ifsm = "WAIT_START" => to_this /\ Room))
      /\ ~Arrives(w) => ~d_fifo_wr_en(w, to_this)
  BY <1>1 DEF d_fifo_wr_en, QueueInv
<1>4. CASE ~Arrives(w)
  BY <1>1, <1>2, <1>3, <1>4, DirectBus DEF QueueInv, Between, Within
<1>5. CASE Arrives(w)
  <2>1. /\ w.idx = source.words + 1 /\ (w.last => w.idx > 1)
        /\ ~w.last => source'.words = w.idx /\ source'.pkt = source.pkt
        /\ w.last => source'.words = 0
        /\ w.last => source'.pkt = IF d_fifo_wr_en(w, to_this)
                                   THEN NextId(source.pkt) ELSE source.pkt
        /\ d_fifo_wr_en(w, to_this) =>
             newest'.pkt = source.pkt /\ newest'.idx = w.idx /\ (newest'.last <=> w.last)
        /\ ~d_fifo_wr_en(w, to_this) => newest' = newest
    BY <1>1, <1>5, DirectBus, SourceMoves DEF QueueInv
  <2>2. CASE ifsm = "WAIT_START"
    BY <1>1, <1>2, <1>3, <1>5, <2>1, <2>2 DEF QueueInv, Between, Within, QueueNext
  <2>3. CASE ifsm = "RCV_WORD"
    BY <1>1, <1>2, <1>3, <1>5, <2>1, <2>3 DEF QueueInv, Between, Within, QueueNext
  <2>4. CASE ifsm = "DROP_PKT"
    BY <1>1, <1>2, <1>3, <1>5, <2>1, <2>4 DEF QueueInv, Between, QueueNext
  <2> QED BY <1>1, <2>2, <2>3, <2>4 DEF QueueInv
<1> QED BY <1>4, <1>5

(* trim_ts: the second word ends the packet, the rest of it is skipped.    *)
LEMMA TrimMoves ==
  ASSUME FramesInv, kind = "trim_ts", NEW w \in Offers,
         NEW to_this \in Destinations, NEW bp \in Pauses,
         Insertion(w, to_this, bp), Source(w, to_this), kind' = kind,
         newest' = IF d_fifo_wr_en(w, to_this) THEN d_fifo_din(w) ELSE newest
  PROVE  TrimInv'
<1>1. TrimInv /\ newest \in Sent /\ source \in [pkt : Ids, words : Nat]
  BY NewestIsSent DEF FramesInv, WriterInv
<1>2. ifsm' = IF Arrives(w) THEN TrimNext(w) ELSE ifsm
  BY <1>1 DEF Insertion, PauseOver, TrimInv
<1>3. d_fifo_wr_en(w, to_this) <=> Arrives(w) /\ ifsm # "FINISH_PKT"
  BY <1>1 DEF d_fifo_wr_en, TrimInv
<1>4. CASE ~Arrives(w)
  BY <1>1, <1>2, <1>3, <1>4, DirectBus DEF TrimInv, Between, Within
<1>5. CASE Arrives(w)
  <2>1. /\ w.idx = source.words + 1 /\ (w.last => w.idx > 1)
        /\ ~w.last => source'.words = w.idx /\ source'.pkt = source.pkt
        /\ w.last => source'.words = 0 /\ source'.pkt = NextId(source.pkt)
        /\ ifsm # "FINISH_PKT" =>
             /\ newest'.pkt = source.pkt /\ newest'.idx = w.idx
             /\ newest'.last <=> w.last \/ ifsm = "WORD_TWO"
        /\ ifsm = "FINISH_PKT" => newest' = newest
    BY <1>1, <1>3, <1>5, DirectBus, SourceMoves DEF TrimInv
  <2>2. CASE ifsm = "WAIT_START"
    BY <1>1, <1>2, <1>5, <2>1, <2>2 DEF TrimInv, Between, Within, TrimNext
  <2>3. CASE ifsm = "WORD_TWO"
    BY <1>1, <1>2, <1>5, <2>1, <2>3 DEF TrimInv, Between, Within, TrimNext
  <2>4. CASE ifsm = "FINISH_PKT"
    BY <1>1, <1>2, <1>5, <2>1, <2>4 DEF TrimInv, Between, TrimNext
  <2> QED BY <1>1, <2>2, <2>3, <2>4 DEF TrimInv
<1> QED BY <1>4, <1>5

(* port_selector: the same one word later, behind its register stage.      *)
LEMMA SelectorMoves ==
  ASSUME FramesInv, kind = "port_selector", NEW w \in Offers,
         NEW to_this \in Destinations, NEW bp \in Pauses,
         Insertion(w, to_this, bp), Source(w, to_this), kind' = kind,
         newest' = IF d_fifo_wr_en(w, to_this) THEN d_fifo_din(w) ELSE newest
  PROVE  SelectorInv'
<1>1. SelectorInv /\ newest \in Sent /\ source \in [pkt : Ids, words : Nat]
  BY NewestIsSent DEF FramesInv, WriterInv
<1>2. /\ ifsm' = IF Arrives(w) THEN SelectorNext(w) ELSE ifsm
      /\ Bus(w) = pipe
  BY <1>1 DEF Insertion, PauseOver, SelectorInv, Bus
<1>3. /\ Arrives(w) <=> pipe # NoWord /\ s_axis_tready
      /\ d_fifo_wr_en(w, to_this) <=> Arrives(w)
  BY <1>1, <1>2 DEF d_fifo_wr_en, SelectorInv, Arrives
<1>4. pipe' = IF s_axis_tready THEN w ELSE pipe
  BY DEF Source
<1>5. CASE ~s_axis_tready
  <2>1. newest' = newest /\ source' = source /\ ifsm' = ifsm /\ pipe' = pipe
    BY <1>2, <1>3, <1>4, <1>5, SourceMoves DEF Taken
  <2> QED BY <1>1, <2>1 DEF SelectorInv, Between, Within, Sent, Limit
<1>6. CASE s_axis_tready
  <2>1. newest' = IF pipe = NoWord THEN newest ELSE pipe
    <3>1. pipe # NoWord => d_fifo_din(w) = pipe
      BY <1>1, <1>2 DEF SelectorInv, d_fifo_din, Cut, Sent
    <3> QED BY <1>3, <1>6, <3>1
  <2>2. /\ newest' \in Sent
        /\ \/ newest'.last /\ source.words = 0 /\ source.pkt = NextId(newest'.pkt)
           \/ ~newest'.last /\ source.words = newest'.idx /\ source.pkt = newest'.pkt
    BY <1>1, <2>1 DEF SelectorInv, Between, Within
  <2>3. ifsm' = IF newest'.last THEN "WAIT_START" ELSE "WAIT_END"
    BY <1>1, <1>2, <1>3, <1>6, <2>1 DEF SelectorInv, SelectorNext, Follows, Sent
  <2>4. Sent' = Sent
    BY DEF Sent, Limit, Ids
  <2>5. CASE w = NoWord
    <3>1. pipe' = NoWord /\ source' = source
      BY <1>4, <1>6, <2>5, SourceMoves DEF Taken
    <3> QED BY <2>2, <2>3, <3>1 DEF SelectorInv, Between, Within
  <2>6. CASE w # NoWord
    <3>1. /\ w \in [pkt : Ids, idx : Nat \ {0}, last : BOOLEAN]
          /\ w.pkt = source.pkt /\ w.idx = source.words + 1
          /\ w.last => w.idx > 1
          /\ w.idx <= Limit
      BY <2>6, OfferedWords DEF LongestPkt, Limit
    <3>2. /\ w \in Sent /\ pipe' = w
          /\ Follows(newest', w)
      BY <1>4, <1>6, <2>2, <3>1 DEF Sent, Follows
    <3>3. /\ ~w.last => source'.words = w.idx /\ source'.pkt = w.pkt
          /\ w.last => source'.words = 0 /\ source'.pkt = NextId(w.pkt)
      BY <1>6, <2>6, <3>1, SourceMoves DEF Taken
    <3>4. Follows(newest, pipe)'
      BY <3>2 DEF Follows, NextId
    <3>5. (Between(pipe) \/ Within(pipe))'
      BY <3>2, <3>3 DEF Between, Within, NextId
    <3> QED BY <2>3, <2>4, <2>6, <3>2, <3>4, <3>5 DEF SelectorInv
  <2> QED BY <2>5, <2>6
<1> QED BY <1>5, <1>6

-----------------------------------------------------------------------------
(* A buffer lets a word in when there is room: for it, or for the rest of  *)
(* its packet too where it will not ask again.                             *)
LEMMA RoomStays ==
  ASSUME ~TRIM_STALLS, FramesInv, NEW w \in Offers, NEW to_this \in Destinations,
         NEW tready \in Readies, Removal(tready), Fifos(w, to_this, tready), kind' = kind
  PROVE  RoomKept'
<1> DEFINE wr == d_fifo_wr_en(w, to_this)
           rd == d_fifo_rd_en(tready)
<1>1. /\ newest' = IF wr THEN d_fifo_din(w) ELSE newest
      /\ Len(data') = Len(data) - (IF rd THEN 1 ELSE 0) + (IF wr THEN 1 ELSE 0)
      /\ Len(meta') <= IF m_fifo_wr_en(w, to_this) THEN Len(meta) + 1 ELSE Len(meta)
      /\ m_axis_tvalid <=> data # <<>>
      /\ data' \in Seq(Sent) /\ meta' \in Seq(Ids) /\ Order(data', meta')
  BY FramesMove DEF Readies
<1>2. /\ RoomKept /\ WriterInv /\ kind \in Kinds /\ newest \in Sent
      /\ Len(data) \in Nat /\ Len(meta) \in Nat /\ Len(data') \in Nat /\ Len(meta') \in Nat
      /\ (data = <<>> <=> Len(data) = 0)
  BY <1>1, NewestIsSent DEF FramesInv
<1>3. /\ {MAX_DEPTH, MAX_PKTS, MAX_PKT_WORDS} \subseteq Nat
      /\ MAX_PKTS >= 2 /\ MAX_PKT_WORDS >= 2 /\ MAX_DEPTH > MAX_PKT_WORDS
      /\ BUFFER_THRESHOLD = MAX_DEPTH - MAX_PKT_WORDS
  BY DepthAssumption DEF BUFFER_THRESHOLD
<1>4. wr => /\ d_fifo_din(w) \in Sent /\ Follows(newest, d_fifo_din(w))
            /\ ifsm = "WAIT_START" <=> d_fifo_din(w).idx = 1
            /\ Arrives(w) /\ s_axis_tready
  BY WordStored DEF d_fifo_wr_en, Arrives
<1>5. BUFFER_THRESHOLD' = BUFFER_THRESHOLD
  BY DEF BUFFER_THRESHOLD
<1>9. /\ Len(data') <= IF wr THEN Len(data) + 1 ELSE Len(data)
      /\ Len(data) <= MAX_DEPTH - 1 /\ Len(meta) <= MAX_PKTS - 1
  <2>1. PICK n \in Nat, k \in Nat : n = Len(data) /\ k = Len(data')
    BY <1>2
  <2>2. k = n - (IF rd THEN 1 ELSE 0) + (IF wr THEN 1 ELSE 0)
    BY <1>1, <2>1
  <2>3. k <= IF wr THEN n + 1 ELSE n
    <3>1. CASE wr
      BY <2>2, <3>1
    <3>2. CASE ~wr
      BY <2>2, <3>2
    <3> QED BY <3>1, <3>2
  <2>4. Len(data) <= MAX_DEPTH - 1 /\ Len(meta) <= MAX_PKTS - 1
    BY <1>2 DEF RoomKept
  <2> QED BY <2>1, <2>3, <2>4
<1>6. CASE kind \in {"axi_stream_fifo", "rate_limiter"}
  <2>1. wr => Len(data) < MAX_DEPTH - 1
    BY <1>2, <1>3, <1>4, <1>6 DEF s_axis_tready, d_fifo_nearly_full
  <2>2. m_fifo_wr_en(w, to_this) => Len(meta) < MAX_PKTS - 1
    BY <1>2, <1>3, <1>4, <1>6 DEF m_fifo_wr_en, s_axis_tready, m_fifo_nearly_full
  <2>3. Len(data') <= MAX_DEPTH - 1
    BY <1>2, <1>3, <1>9, <2>1
  <2>4. Len(meta') <= MAX_PKTS - 1
    BY <1>1, <1>2, <1>3, <1>9, <2>2
  <2> QED BY <1>6, <2>3, <2>4 DEF RoomKept
<1>7. CASE kind \in {"simple_output_queues", "port_selector"}
  <2>1. ifsm = "WAIT_START" /\ wr => Len(data) < BUFFER_THRESHOLD /\ Len(meta) < MAX_PKTS - 1
    BY <1>2, <1>3, <1>4, <1>7
       DEF d_fifo_wr_en, Room, s_axis_tready, d_fifo_prog_full, m_fifo_nearly_full
  <2>2. wr => d_fifo_din(w).idx <= MAX_PKT_WORDS /\ d_fifo_din(w).idx \in Nat
    BY <1>4, <1>7 DEF Sent, Limit
  <2>3. /\ ifsm = "WAIT_START" /\ wr => d_fifo_din(w).idx = 1
        /\ ifsm # "WAIT_START" /\ wr => ~newest.last /\ d_fifo_din(w).idx = newest.idx + 1
    BY <1>2, <1>4 DEF Follows, Sent
  <2>4. wr => /\ Len(data) + 1 <= BUFFER_THRESHOLD - 1 + d_fifo_din(w).idx
              /\ Len(data) + 1 <= MAX_DEPTH - 1
    <3>1. CASE wr /\ ifsm = "WAIT_START"
      BY <1>2, <1>3, <2>1, <2>2, <2>3, <3>1
    <3>2. CASE wr /\ ifsm # "WAIT_START"
      <4>1. Len(data) <= BUFFER_THRESHOLD - 1 + newest.idx
        BY <1>2, <1>7, <2>3, <3>2 DEF RoomKept
      <4>2. newest.idx \in Nat /\ d_fifo_din(w).idx = newest.idx + 1
        BY <1>2, <2>3, <3>2 DEF Sent
      <4>3. PICK n \in Nat, i \in Nat, j \in Nat :
              n = Len(data) /\ i = newest.idx /\ j = d_fifo_din(w).idx
        BY <1>2, <2>2, <3>2, <4>2
      <4>4. j = i + 1 /\ j <= MAX_PKT_WORDS /\ n <= MAX_DEPTH - MAX_PKT_WORDS - 1 + i
        BY <1>3, <2>2, <3>2, <4>1, <4>2, <4>3
      <4>5. n + 1 <= MAX_DEPTH - MAX_PKT_WORDS - 1 + j /\ n + 1 <= MAX_DEPTH - 1
        BY <1>3, <4>4
      <4> QED BY <1>3, <4>3, <4>5
    <3> QED BY <3>1, <3>2
  <2>5. m_fifo_wr_en(w, to_this) => Len(meta) < MAX_PKTS - 1
    BY <2>1 DEF m_fifo_wr_en
  <2>6. Len(data') <= MAX_DEPTH - 1 /\ Len(meta') <= MAX_PKTS - 1
    <3>1. Len(data') <= MAX_DEPTH - 1
      BY <1>2, <1>3, <1>9, <2>4
    <3>2. Len(meta') <= MAX_PKTS - 1
      BY <1>1, <1>2, <1>3, <1>9, <2>5
    <3> QED BY <3>1, <3>2
  <2>7. ~newest'.last => Len(data') <= BUFFER_THRESHOLD - 1 + newest'.idx
    <3>1. CASE wr
      <4>1. newest' = d_fifo_din(w)
        BY <1>1, <3>1
      <4>2. PICK k \in Nat, n \in Nat, j \in Nat :
              k = Len(data') /\ n = Len(data) /\ j = d_fifo_din(w).idx
        BY <1>2, <2>2, <3>1
      <4>3. k <= n + 1 /\ n + 1 <= BUFFER_THRESHOLD - 1 + j
        BY <1>9, <2>4, <3>1, <4>2
      <4>4. k <= BUFFER_THRESHOLD - 1 + j
        BY <1>3, <4>3
      <4> QED BY <4>1, <4>2, <4>4
    <3>2. CASE ~wr
      <4>1. newest' = newest
        BY <1>1, <3>2
      <4>2. SUFFICES ASSUME ~newest.last
                     PROVE  Len(data') <= BUFFER_THRESHOLD - 1 + newest.idx
        BY <4>1
      <4>3. newest.idx \in Nat /\ Len(data) <= BUFFER_THRESHOLD - 1 + newest.idx
        BY <1>2, <1>7, <4>2 DEF RoomKept, Sent
      <4>4. PICK k \in Nat, n \in Nat, j \in Nat :
              k = Len(data') /\ n = Len(data) /\ j = newest.idx
        BY <1>2, <4>3
      <4>5. k <= n /\ n <= BUFFER_THRESHOLD - 1 + j
        BY <1>9, <3>2, <4>3, <4>4
      <4>6. k <= BUFFER_THRESHOLD - 1 + j
        BY <1>3, <4>5
      <4> QED BY <4>4, <4>6
    <3> QED BY <3>1, <3>2
  <2> QED BY <1>5, <1>7, <2>6, <2>7 DEF RoomKept
<1>8. CASE kind = "trim_ts"
  <2>1. Len(data) # 0 => rd
    BY <1>1, <1>2, <1>8 DEF d_fifo_rd_en, Readies
  <2>2. Len(data') <= 1
    BY <1>1, <1>2, <1>8, <2>1 DEF RoomKept
  <2>3. Len(meta') <= 1
    <3>1. Len(meta') = Cardinality(StartsOf(data', Len(data')))
      BY <1>1 DEF Order
    <3>2. Cardinality(StartsOf(data', Len(data'))) <= Len(data')
      BY <1>2, StartsFinite
    <3> QED BY <1>2, <2>2, <3>1, <3>2
  <2> QED BY <1>2, <1>3, <1>8, <2>2, <2>3 DEF RoomKept
<1> QED BY <1>2, <1>6, <1>7, <1>8 DEF Kinds

-----------------------------------------------------------------------------
(* One cycle of any buffer keeps the invariant.                            *)
LEMMA FramesStep ==
  ASSUME ~TRIM_STALLS, FramesInv, Next
  PROVE  FramesInv'
<1>1. PICK tready \in Readies, w \in Offers, to_this \in Destinations, bp \in Pauses :
        Cycle(w, to_this, bp, tready)
  BY DEF Next, Step
<1>2. /\ Insertion(w, to_this, bp) /\ Removal(tready) /\ Fifos(w, to_this, tready)
      /\ Source(w, to_this) /\ kind' = kind /\ tready \in BOOLEAN
  BY <1>1 DEF Cycle, Readies
<1>3. /\ out' \in Sent /\ data' \in Seq(Sent) /\ meta' \in Seq(Ids)
      /\ Chain(out', data') /\ Order(data', meta')
      /\ rfsm' \in {"RFSM_START", "RFSM_FINISH_PKT"}
      /\ rfsm' = "RFSM_START" <=> out'.last
      /\ newest' = IF d_fifo_wr_en(w, to_this) THEN d_fifo_din(w) ELSE newest
  BY <1>2, FramesMove
<1>4. Sent' = Sent /\ Ids' = Ids
  BY <1>2 DEF Sent, Limit, Ids
<1>5. WriterInv'
  <2>1. source' \in [pkt : Ids, words : Nat] /\ source'.words < LongestPkt'
    BY <1>2, SourceMoves
  <2>2. /\ kind = "axi_stream_fifo" => AxiInv'
        /\ kind = "rate_limiter" => RateInv'
        /\ kind = "simple_output_queues" => QueueInv'
        /\ kind = "trim_ts" => TrimInv'
        /\ kind = "port_selector" => SelectorInv'
    BY <1>2, <1>3, AxiMoves, RateMoves, QueueMoves, TrimMoves, SelectorMoves
  <2> QED BY <1>2, <1>4, <2>1, <2>2 DEF WriterInv
<1>6. RoomKept'
  BY <1>2, RoomStays
<1>7. Chain(out, data)' /\ Order(data, meta)'
  BY <1>3 DEF Chain, Order, StartsOf, Follows, NextId
<1> QED BY <1>2, <1>3, <1>4, <1>5, <1>6, <1>7 DEF FramesInv

(* After reset the FIFOs are empty and no packet has begun.                *)
LEMMA FramesInit == Init => FramesInv
<1> SUFFICES ASSUME Init PROVE FramesInv
  OBVIOUS
<1>1. /\ kind \in Kinds /\ ifsm = "WAIT_START" /\ rfsm = "RFSM_START"
      /\ data = <<>> /\ meta = <<>> /\ pipe = NoWord
      /\ source = [pkt |-> 0, words |-> 0]
      /\ out = [pkt |-> NUM_IDS - 1, idx |-> 2, last |-> TRUE]
  BY DEF Init
<1>2. /\ {MAX_DEPTH, MAX_PKTS, MAX_PKT_WORDS, MAX_LEN, NUM_IDS} \subseteq Nat
      /\ MAX_PKTS >= 2 /\ MAX_PKT_WORDS >= 2 /\ MAX_LEN >= 2
      /\ MAX_DEPTH > MAX_PKT_WORDS /\ NUM_IDS >= 2
  BY DepthAssumption
<1>3. out \in Sent
  <2>1. Limit \in Nat /\ Limit >= 2
    BY <1>1, <1>2 DEF Limit, Kinds
  <2> QED BY <1>1, <1>2, <2>1 DEF Sent, Ids
<1>4. newest = out /\ Between(newest)
  <2>1. NextId(NUM_IDS - 1) = 0
    BY <1>2 DEF NextId
  <2> QED BY <1>1, <2>1 DEF newest, LastOf, Between
<1>5. Chain(out, data) /\ Order(data, meta)
  <2>1. StartsOf(data, Len(data)) = {} /\ Len(data) = 0 /\ Len(meta) = 0
    BY <1>1 DEF StartsOf
  <2> QED BY <2>1, FS_EmptySet DEF Chain, Order
<1>6. WriterInv
  <2>1. source \in [pkt : Ids, words : Nat] /\ source.words < LongestPkt
    BY <1>1, <1>2 DEF Ids, LongestPkt
  <2> QED BY <1>1, <1>4, <2>1
          DEF WriterInv, AxiInv, RateInv, QueueInv, TrimInv, SelectorInv, Between
<1>7. RoomKept
  BY <1>1, <1>2, <1>4 DEF RoomKept
<1> QED BY <1>1, <1>3, <1>5, <1>6, <1>7 DEF FramesInv

(* Every buffer hands out whole packets in the order they came, with the   *)
(* meta data of the packet whose first word comes next, and never writes   *)
(* to a FIFO that is full, if packets have at least two words (except for  *)
(* axi_stream_fifo), simple_output_queues and port_selector get none       *)
(* longer than MAX_PKT_WORDS, and the receiver of trim_ts never stalls.    *)
(* That of the others may stall as it likes.                               *)
THEOREM BuffersFramesIntact ==
  ASSUME ~TRIM_STALLS
  PROVE  Spec => []FramesIntact
<1>1. FramesInv /\ [Next]_vars => FramesInv'
  <2> SUFFICES ASSUME FramesInv, [Next]_vars PROVE FramesInv'
    OBVIOUS
  <2>1. CASE UNCHANGED vars
    BY <2>1 DEF vars, bpVars, FramesInv, WriterInv, RoomKept, AxiInv, RateInv, QueueInv,
                TrimInv, SelectorInv, Between, Within, newest, Sent, Limit, LongestPkt,
                BUFFER_THRESHOLD
  <2> QED BY <2>1, FramesStep
<1>2. FramesInv => FramesIntact
  <2> SUFFICES ASSUME FramesInv PROVE FramesIntact
    OBVIOUS
  <2>1. FifosInBounds
    BY DepthAssumption DEF FramesInv, RoomKept, FifosInBounds
  <2>2. WordsInOrder
    <3>1. \A i \in 1 .. Len(data) : data[i] \in Sent
      BY DEF FramesInv
    <3> QED BY <3>1 DEF FramesInv, WordsInOrder, Chain, Sent
  <2>3. MetaInOrder
    BY DEF FramesInv, MetaInOrder, Order, Starts, StartsOf
  <2> QED BY <2>1, <2>2, <2>3 DEF FramesInv, FramesIntact
<1> QED BY <1>1, <1>2, FramesInit, PTL DEF Spec

-----------------------------------------------------------------------------
(* The rate limiter: outside a pause enough cycles have passed; within one *)
(* as many as were counted.                                                *)
PacingInv ==
  kind = "rate_limiter" =>
    /\ bp_config_r \in 0 .. MAX_BP /\ since \in 0 .. MAX_BP /\ bp_count_r \in Nat \ {0}
    /\ ifsm # "ASSERT_BP" => bp_count_r = 1 /\ since >= bp_config_r
    /\ ifsm = "ASSERT_BP" => since >= bp_count_r - 1 \/ since = MAX_BP

(* One cycle keeps the count of a pause behind the cycles that passed.     *)
LEMMA PacingStep ==
  ASSUME PacingInv, Next
  PROVE  PacingInv'
<1>1. PICK tready \in Readies, w \in Offers, to_this \in Destinations, bp \in Pauses :
        Cycle(w, to_this, bp, tready)
  BY DEF Next, Step
<1> SUFFICES ASSUME kind = "rate_limiter" PROVE PacingInv'
  BY <1>1 DEF Cycle, PacingInv
<1>2. /\ ifsm' = IF PauseOver THEN IF pkt_done_r THEN "WAIT_START" ELSE "RCV_WORD"
                 ELSE IF ~Arrives(w) THEN ifsm ELSE RateNext(w, bp)
      /\ bp_config_r' = IF Arrives(w) /\ ifsm = "WAIT_START" THEN bp ELSE bp_config_r
      /\ bp_count_r' = IF ifsm # "ASSERT_BP" THEN bp_count_r
                       ELSE IF PauseOver THEN 1 ELSE bp_count_r + 1
      /\ since' = IF Arrives(w) THEN 0 ELSE IF since < MAX_BP THEN since + 1 ELSE since
      /\ kind' = kind /\ bp \in 0 .. MAX_BP
  BY <1>1 DEF Cycle, Insertion, Source, Pauses
<1>3. /\ bp_config_r \in 0 .. MAX_BP /\ since \in 0 .. MAX_BP /\ bp_count_r \in Nat \ {0}
      /\ MAX_BP \in Nat
  BY DepthAssumption DEF PacingInv
<1>4. Arrives(w) => ifsm # "ASSERT_BP"
  BY DEF Arrives, s_axis_tready
<1>5. CASE ifsm = "ASSERT_BP"
  <2>1. since >= bp_count_r - 1 \/ since = MAX_BP
    BY <1>5 DEF PacingInv
  <2>2. CASE PauseOver
    <3>1. bp_count_r >= bp_config_r
      BY <2>2 DEF PauseOver
    <3>2. /\ ifsm' # "ASSERT_BP" /\ bp_count_r' = 1 /\ bp_config_r' = bp_config_r
          /\ since' = IF since < MAX_BP THEN since + 1 ELSE since
      BY <1>2, <1>4, <1>5, <2>2
    <3>3. since' \in 0 .. MAX_BP /\ since' >= bp_config_r
      BY <1>3, <2>1, <3>1, <3>2
    <3> QED BY <1>3, <3>2, <3>3 DEF PacingInv
  <2>3. CASE ~PauseOver
    <3>1. /\ ifsm' = "ASSERT_BP" /\ bp_count_r' = bp_count_r + 1
          /\ bp_config_r' = bp_config_r
          /\ since' = IF since < MAX_BP THEN since + 1 ELSE since
      BY <1>2, <1>4, <1>5, <2>3
    <3>2. since' \in 0 .. MAX_BP /\ (since' >= bp_count_r' - 1 \/ since' = MAX_BP)
      BY <1>3, <2>1, <3>1
    <3> QED BY <1>3, <3>1, <3>2 DEF PacingInv
  <2> QED BY <2>2, <2>3
<1>6. CASE ifsm # "ASSERT_BP"
  <2>1. bp_count_r = 1 /\ since >= bp_config_r /\ ~PauseOver
    BY <1>6 DEF PacingInv, PauseOver
  <2>2. CASE Arrives(w)
    <3>1. /\ since' = 0 /\ bp_count_r' = 1 /\ bp_config_r' \in 0 .. MAX_BP
          /\ ifsm' # "ASSERT_BP" => ~(bp_config_r' > 0)
      BY <1>2, <1>3, <1>6, <2>1, <2>2 DEF RateNext
    <3> QED BY <1>3, <3>1 DEF PacingInv
  <2>3. CASE ~Arrives(w)
    <3>1. /\ ifsm' = ifsm /\ bp_count_r' = 1 /\ bp_config_r' = bp_config_r
          /\ since' = IF since < MAX_BP THEN since + 1 ELSE since
      BY <1>2, <1>6, <2>1, <2>3
    <3>2. since' \in 0 .. MAX_BP /\ since' >= bp_config_r
      BY <1>3, <2>1, <3>1
    <3> QED BY <1>3, <1>6, <3>1, <3>2 DEF PacingInv
  <2> QED BY <2>2, <2>3
<1> QED BY <1>5, <1>6

(* The rate limiter lets no word in, of this packet or the next, before    *)
(* the pause that the packet asks for is over.                             *)
THEOREM BuffersPacingKept == Spec => []PacingKept
<1>1. Init => PacingInv
  BY DepthAssumption DEF Init, PacingInv
<1>2. PacingInv /\ [Next]_vars => PacingInv'
  <2> SUFFICES ASSUME PacingInv, [Next]_vars PROVE PacingInv'
    OBVIOUS
  <2>1. CASE UNCHANGED vars
    BY <2>1 DEF vars, bpVars, PacingInv
  <2> QED BY <2>1, PacingStep
<1>3. PacingInv => PacingKept
  BY DEF PacingInv, PacingKept, s_axis_tready
<1> QED BY <1>1, <1>2, <1>3, PTL DEF Spec
=============================================================================

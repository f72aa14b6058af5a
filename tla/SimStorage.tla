----------------------------- MODULE SimStorage -----------------------------
(***************************************************************************)
(* Packet storage of the simulations, packet_storage.py: a packet is cut   *)
(* into segments that are chained through a block RAM, its metadata goes   *)
(* to another one, and two free lists keep the unused places.              *)
(*                                                                         *)
(* insertion_sm hands the pointers out before anything is written, and     *)
(* waits for none of its writes; removal_sm frees each place as soon as it *)
(* has read it.  Writing and reading are processes of their own.           *)
(***************************************************************************)
EXTENDS SimPy

CONSTANTS MAX_SEGMENTS, MAX_PKTS   \* sizes of the two memories

VARIABLE store   \* [mem, free] of "segments" and of "metadata"

Brams == {"segments", "metadata"}

Writer(b) == <<"write_sm", b>>
Reader(b) == <<"read_sm", b>>
Insertion == <<"insertion_sm", 0>>
Removal == <<"removal_sm", 0>>

WIn(b) == <<"w_in_pipe", b>>
RIn(b) == <<"r_in_pipe", b>>
ROut(b) == <<"r_out_pipe", b>>
PktIn == <<"pkt_in_pipe", 0>>
PktOut == <<"pkt_out_pipe", 0>>
PtrIn == <<"ptr_in_pipe", 0>>
PtrOut == <<"ptr_out_pipe", 0>>

NoSegment == -1         \* next_seg of the last segment
None == [id |-> -1]     \* what a place holds that was never written

Depth(b) == IF b = "segments" THEN MAX_SEGMENTS ELSE MAX_PKTS

NewStore ==
  [b \in Brams |-> [mem |-> [a \in 0..(Depth(b) - 1) |-> None],
                    free |-> [j \in 1..Depth(b) |-> j - 1]]]

---------------------------------------------------------------------------
(* class BRAM *)

WriteBegins(b) ==
  /\ Runs(Writer(b), "idle")
  /\ env' = WaitClocks(Popped, setup.mem_latency, Writer(b))
  /\ Yields(Writer(b), [at |-> "writing", addr |-> Got.addr, data |-> Got.data])
  /\ UNCHANGED <<store, errors>>

WriteEnds(b) ==
  LET w == pc[Writer(b)]
      inRange == w.addr \in DOMAIN store[b].mem
  IN /\ Runs(Writer(b), "writing")
     /\ store' = IF inRange THEN [store EXCEPT ![b].mem[w.addr] = w.data] ELSE store
     /\ errors' = errors \cup (IF inRange THEN {} ELSE {"range"})
     /\ env' = Get(Popped, WIn(b), Writer(b))
     /\ Yields(Writer(b), At("idle"))

ReadBegins(b) ==
  /\ Runs(Reader(b), "idle")
  /\ env' = WaitClocks(Popped, setup.mem_latency, Reader(b))
  /\ Yields(Reader(b), [at |-> "reading", addr |-> Got.addr])
  /\ UNCHANGED <<store, errors>>

ReadEnds(b) ==
  LET a == pc[Reader(b)].addr
      inRange == a \in DOMAIN store[b].mem
  IN /\ Runs(Reader(b), "reading")
     /\ env' = Get(Put(Popped, ROut(b), IF inRange THEN store[b].mem[a] ELSE None),
                   RIn(b), Reader(b))
     /\ errors' = errors \cup (IF inRange THEN {} ELSE {"range"})
     /\ Yields(Reader(b), At("idle"))
     /\ UNCHANGED store

---------------------------------------------------------------------------
(* insertion_sm and removal_sm *)

\* Mutant: the last but one is the last.
SegmentEndsEarly(x, segs, k) ==
  [id |-> x.id, part |-> k,
   next |-> IF k >= setup.segs - 1 THEN NoSegment ELSE segs[k + 1]]

\* Segment k of packet x: its part of the data, and where the next one is.
Segment(x, segs, k) ==
  [id |-> x.id, part |-> k, next |-> IF k = setup.segs THEN NoSegment ELSE segs[k + 1]]

\* All of a packet in one go: pointers out, then the writes, which queue up.
Inserts ==
  LET x == Got
      metaFree == store["metadata"].free
      segFree == store["segments"].free
      empty == Len(metaFree) < 1 \/ Len(segFree) < setup.segs
      segs == SubSeq(segFree, 1, setup.segs)
      pointed == Put(Popped, PtrOut, [seg |-> segs[1], meta |-> metaFree[1]])
      described == Put(pointed, WIn("metadata"), [addr |-> metaFree[1], data |-> x])
      written == FoldLeftDomain(
        LAMBDA e, k : Put(e, WIn("segments"),
                          [addr |-> segs[k], data |-> Segment(x, segs, k)]),
        described, segs)
  IN /\ Runs(Insertion, "idle")
     /\ IF empty
        THEN /\ errors' = errors \cup {"fifo"}
             /\ UNCHANGED <<env, store>>
        ELSE /\ store' = [store EXCEPT
                  !["metadata"].free = Tail(@),
                  !["segments"].free = SubSeq(@, setup.segs + 1, Len(@))]
             /\ env' = Get(written, PktIn, Insertion)
             /\ UNCHANGED errors
     /\ UNCHANGED pc

Removes ==
  /\ Runs(Removal, "idle")
  /\ env' = Get(Put(Popped, RIn("metadata"), [addr |-> Got.meta]), ROut("metadata"), Removal)
  /\ Yields(Removal, [at |-> "described", ptrs |-> Got])
  /\ UNCHANGED <<store, errors>>

\* Segment s is read next; the packet so far is `got'.
ReadsSegment(e, s, tuser, got) ==
  /\ env' = Get(Put(e, RIn("segments"), [addr |-> s]), ROut("segments"), Removal)
  /\ Yields(Removal, [at |-> "collected", seg |-> s, tuser |-> tuser, got |-> got])

\* Mutant: the first segment is given back in place of the metadata.
RemovesMetadataMixed ==
  LET ptrs == pc[Removal].ptrs
  IN /\ Runs(Removal, "described")
     /\ store' = [store EXCEPT !["metadata"].free = Append(@, ptrs.seg)]
     /\ ReadsSegment(Popped, ptrs.seg, Got, <<>>)
     /\ UNCHANGED errors

RemovesMetadata ==
  LET ptrs == pc[Removal].ptrs
  IN /\ Runs(Removal, "described")
     /\ store' = [store EXCEPT !["metadata"].free = Append(@, ptrs.meta)]
     /\ ReadsSegment(Popped, ptrs.seg, Got, <<>>)
     /\ UNCHANGED errors

\* A place that was never written holds no segment: an exception.
RemovesSegment ==
  LET me == pc[Removal]
      got == Append(me.got, Got)
  IN /\ Runs(Removal, "collected")
     /\ IF Got = None
        THEN /\ errors' = errors \cup {"crash"}
             /\ UNCHANGED <<env, pc, store>>
        ELSE /\ store' = [store EXCEPT !["segments"].free = Append(@, me.seg)]
             /\ IF Got.next # NoSegment
                THEN ReadsSegment(Popped, Got.next, me.tuser, got)
                ELSE /\ env' = Get(Put(Popped, PktOut, [tuser |-> me.tuser, pkt |-> got]),
                                   PtrIn, Removal)
                     /\ Yields(Removal, At("idle"))
             /\ UNCHANGED errors

StorageNext ==
  \/ \E b \in Brams :
       WriteBegins(b) \/ WriteEnds(b) \/ ReadBegins(b) \/ ReadEnds(b)
  \/ Inserts \/ Removes \/ RemovesMetadata \/ RemovesSegment
=============================================================================

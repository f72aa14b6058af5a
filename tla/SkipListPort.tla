---------------------------- MODULE SkipListPort ----------------------------
(***************************************************************************)
(* One det_skip_list.v as pifo_top.v sees it through its ports: which      *)
(* entries it holds, which one it offers, and when it is busy.  How the    *)
(* nodes are linked is left out; the lag between accepting an entry and    *)
(* offering or counting it is kept, because pifo_top.v decides on          *)
(* valid_out, rank_out and num_entries while entries are still moving      *)
(* inside.                                                                 *)
(***************************************************************************)
EXTENDS Naturals, FiniteSets

CONSTANTS
  Entry,     \* records with a rank
  NoEntry,
  SL_SIZE    \* entries after which full rises

SkipList ==
  [held  : SUBSET Entry,
   fresh : Entry \cup {NoEntry},  \* accepted, its place still being searched
   head  : Entry \cup {NoEntry},  \* rank_out, meta_out, or NoEntry: valid_out low
   busy  : BOOLEAN,
   num   : Nat]                   \* num_entries

(* After reset the free list is filled first, busy stays high meanwhile. *)
SlInit ==
  [held |-> {}, fresh |-> NoEntry, head |-> NoEntry, busy |-> TRUE, num |-> 0]

SlFull(s) == Cardinality(s.held) >= SL_SIZE

LeastRank(S) == {e \in S : \A f \in S : e.rank <= f.rank}

(* An insert that disregards busy or full is lost. *)
Accepted(s, ins) ==
  IF ins = NoEntry \/ s.busy \/ SlFull(s) THEN {} ELSE {ins}

AfterPorts(s, ins, rmv) ==
  (s.held \ (IF rmv THEN {s.head} ELSE {})) \cup Accepted(s, ins)

(* An insert makes the list busy; entries moving from the nodes to its     *)
(* register make it busy by itself, as long as it holds any.               *)
BusyNext(s, ins, rmv) ==
  IF Accepted(s, ins) # {} THEN {TRUE}
  ELSE IF s.busy \/ AfterPorts(s, ins, rmv) # {} THEN BOOLEAN
  ELSE {FALSE}

(* While it is busy one entry may be missing from the count: a fresh one,  *)
(* or one on its way from the nodes to the register; never the one on      *)
(* offer.                                                                  *)
NumNext(s) ==
  LET n == Cardinality(s.held)
  IN  IF s.busy /\ s.held \ {s.head} # {} THEN {n - 1, n} ELSE {n}

(* Of the entries whose place is found, one with the smallest rank is      *)
(* offered; while entries move nothing may be on offer.                    *)
HeadNext(s, rmv, settled) ==
  IF ~s.busy /\ ~rmv /\ s.head # NoEntry THEN {s.head}
  ELSE {NoEntry} \cup LeastRank(settled)

FreshNext(s, ins, busy) ==
  IF Accepted(s, ins) # {} THEN {ins}
  ELSE IF busy THEN {s.fresh, NoEntry} ELSE {NoEntry}

(* The lists that agree on what is held, what is fresh, and busy. *)
ListsWith(s, ins, rmv, busy, fresh) ==
  LET held == AfterPorts(s, ins, rmv)
  IN  {[held |-> held, fresh |-> fresh, head |-> h, busy |-> busy, num |-> n] :
         h \in HeadNext(s, rmv, held \ {fresh}), n \in NumNext(s)}

(* What one clock edge may make of the list. *)
SlNext(s, ins, rmv) ==
  UNION {UNION {ListsWith(s, ins, rmv, b, f) : f \in FreshNext(s, ins, b)} :
           b \in BusyNext(s, ins, rmv)}
=============================================================================

-------------------------------- MODULE Pifo --------------------------------
(***************************************************************************)
(* What a push-in-first-out queue of bounded capacity promises: a push     *)
(* into a full queue displaces an entry of the largest rank (the new one   *)
(* or an old one), and a pop yields an entry of the smallest rank.  The    *)
(* hardware register accepts a pop and a push in the same cycle; the pop   *)
(* then sees the queue without the new entry.                              *)
(***************************************************************************)
EXTENDS Naturals, FiniteSets

CONSTANTS Entry, Capacity, NoEntry

VARIABLES
  contents,   \* the set of entries in the queue
  popped,     \* the entry the last step handed out, or NoEntry
  displaced   \* the entry the last step pushed out, or NoEntry

vars == <<contents, popped, displaced>>

LeastOf(S) == {e \in S : \A f \in S : e.rank <= f.rank}
GreatestOf(S) == {e \in S : \A f \in S : e.rank >= f.rank}

Init ==
  /\ contents = {}
  /\ popped = NoEntry
  /\ displaced = NoEntry

Push(e) ==
  /\ e \notin contents
  /\ Cardinality(contents) < Capacity
  /\ contents' = contents \cup {e}
  /\ popped' = NoEntry
  /\ displaced' = NoEntry

PushFull(e) ==
  /\ e \notin contents
  /\ Cardinality(contents) = Capacity
  /\ \E m \in GreatestOf(contents \cup {e}) :
        /\ contents' = (contents \cup {e}) \ {m}
        /\ displaced' = m
  /\ popped' = NoEntry

Pop ==
  /\ \E m \in LeastOf(contents) :
        /\ contents' = contents \ {m}
        /\ popped' = m
  /\ displaced' = NoEntry

PopPush(e) ==
  /\ e \notin contents
  /\ \E m \in LeastOf(contents) :
        /\ contents' = (contents \ {m}) \cup {e}
        /\ popped' = m
  /\ displaced' = NoEntry

Quiet ==
  /\ popped' = NoEntry
  /\ displaced' = NoEntry
  /\ UNCHANGED contents

Next ==
  \/ Pop
  \/ Quiet
  \/ \E e \in Entry : Push(e) \/ PushFull(e) \/ PopPush(e)

Spec == Init /\ [][Next]_vars
=============================================================================

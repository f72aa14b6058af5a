------------------------------ MODULE MCSelTree ------------------------------
EXTENDS SelTree

(* Enough to disagree in rank alone, in time stamp alone and in both.      *)
MCOffers == {[rank |-> 0, tstamp |-> 0], [rank |-> 0, tstamp |-> 1],
             [rank |-> 1, tstamp |-> 0]}
=============================================================================

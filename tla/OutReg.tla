------------------------------- MODULE OutReg -------------------------------
(***************************************************************************)
(* The output register in front of each skip list of the simulations,      *)
(* class out_reg of hwsim_utils.py: up to `width' entries, of which an     *)
(* insertion into a full register gives the largest back and a removal     *)
(* takes the smallest.  Two processes share it, and neither waits for the  *)
(* other: an insertion may end while a removal is under way.               *)
(***************************************************************************)
EXTENDS SimPy

VARIABLE reg   \* the register of each list

Inserter(i) == <<"outreg.insert", i>>
Remover(i) == <<"outreg.remove", i>>
InsIn(i) == <<"outreg_ins_in_pipe", i>>
InsOut(i) == <<"outreg_ins_out_pipe", i>>
RemIn(i) == <<"outreg_rem_in_pipe", i>>
RemOut(i) == <<"outreg_rem_out_pipe", i>>

NoPtrs == [seg |-> -1, meta |-> -1]
Nothing == [val |-> -1, ptrs |-> NoPtrs]

EmptyReg == [entries |-> <<>>, next |-> -1, next_valid |-> FALSE, busy |-> FALSE]

\* The first of the smallest (largest) entries.
MinIdx(s) == CHOOSE j \in DOMAIN s : \A k \in DOMAIN s :
  s[j].val <= s[k].val /\ (s[j].val = s[k].val => j <= k)
MaxIdx(s) == CHOOSE j \in DOMAIN s : \A k \in DOMAIN s :
  s[j].val >= s[k].val /\ (s[j].val = s[k].val => j <= k)

\* What is in the register after entry x came, and what is given back.
Inserted(s, x, width) ==
  IF Len(s) < width THEN Append(s, x)
  ELSE IF x.val < s[MaxIdx(s)].val THEN [s EXCEPT ![MaxIdx(s)] = x] ELSE s

\* Mutant: what comes is given back even if it took the place of the maximum.
EvictedNewcomer(s, x, width) == IF Len(s) < width THEN Nothing ELSE x

Evicted(s, x, width) ==
  IF Len(s) < width THEN Nothing
  ELSE IF x.val < s[MaxIdx(s)].val THEN s[MaxIdx(s)] ELSE x

InsertBegins(i) ==
  /\ Runs(Inserter(i), "idle")
  /\ reg' = [reg EXCEPT ![i].busy = TRUE, ![i].next_valid = FALSE]
  /\ env' = WaitClocks(Popped, setup.latency, Inserter(i))
  /\ Yields(Inserter(i), [at |-> "inserting", entry |-> Got])
  /\ UNCHANGED <<setup, errors>>

InsertEnds(i) ==
  /\ Runs(Inserter(i), "inserting")
  /\ LET x == pc[Inserter(i)].entry
         s == Inserted(reg[i].entries, x, setup.width)
     IN /\ reg' = [reg EXCEPT ![i] = [entries |-> s, next |-> s[MinIdx(s)].val,
                                      next_valid |-> TRUE, busy |-> FALSE]]
        /\ env' = Get(Put(Popped, InsOut(i),
                          Evicted(reg[i].entries, x, setup.width)),
                      InsIn(i), Inserter(i))
  /\ Yields(Inserter(i), At("idle"))
  /\ UNCHANGED <<setup, errors>>

RemoveBegins(i) ==
  /\ Runs(Remover(i), "idle")
  /\ reg' = [reg EXCEPT ![i].busy = TRUE, ![i].next_valid = FALSE]
  /\ env' = WaitClocks(Popped, 1, Remover(i))
  /\ Yields(Remover(i), At("removing"))
  /\ UNCHANGED <<setup, errors>>

\* An empty register has no smallest entry: the process dies.
RemoveEnds(i) ==
  /\ Runs(Remover(i), "removing")
  /\ IF reg[i].entries = <<>>
     THEN /\ errors' = errors \cup {"crash"}
          /\ env' = Popped
          /\ UNCHANGED <<reg, pc>>
     ELSE LET least == MinIdx(reg[i].entries)
              s == RemoveAt(reg[i].entries, least)
          IN /\ reg' = [reg EXCEPT ![i] =
                  [entries |-> s,
                   next |-> IF s = <<>> THEN @.next ELSE s[MinIdx(s)].val,
                   next_valid |-> IF s = <<>> THEN @.next_valid ELSE TRUE,
                   busy |-> FALSE]]
             /\ env' = Get(Put(Popped, RemOut(i), reg[i].entries[least]),
                           RemIn(i), Remover(i))
             /\ Yields(Remover(i), At("idle"))
             /\ UNCHANGED errors
  /\ UNCHANGED setup

OutRegNext(i) ==
  InsertBegins(i) \/ InsertEnds(i) \/ RemoveBegins(i) \/ RemoveEnds(i)
=============================================================================

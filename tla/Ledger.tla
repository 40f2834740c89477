------------------------------- MODULE Ledger -------------------------------
(***************************************************************************)
(* What the replicas promise about execution (spec.md I2 and 4.3 Exec):   *)
(* each correct replica's executed log only grows, every block is          *)
(* executed at most once, and any two replicas' logs are one a prefix of  *)
(* the other.  A step of a replica appends a non-empty run of new blocks. *)
(***************************************************************************)
EXTENDS Naturals, Sequences

CONSTANTS
    Replicas,  \* the correct replicas
    Blocks     \* the blocks that can be executed

VARIABLE logs  \* logs[r]: the blocks replica r executed, in order

\* s is a prefix of t.
PrefixOf(s, t) == Len(s) <= Len(t) /\ SubSeq(t, 1, Len(s)) = s

Compatible(s, t) == PrefixOf(s, t) \/ PrefixOf(t, s)

\* No block occurs twice in s.
NoRepeats(s) == \A i, j \in 1..Len(s) : i # j => s[i] # s[j]

Init == logs = [r \in Replicas |-> << >>]

\* Replica r executes blocks: its new log extends the old one by blocks it
\* had not executed and stays compatible with every replica's log.
Execute(r) ==
    /\ logs' \in [Replicas -> Seq(Blocks)]
    /\ \A q \in Replicas \ {r} : logs'[q] = logs[q]
    /\ Len(logs'[r]) > Len(logs[r])
    /\ PrefixOf(logs[r], logs'[r])
    /\ NoRepeats(logs'[r])
    /\ \A q \in Replicas : Compatible(logs'[r], logs[q])

Next == \E r \in Replicas : Execute(r)

Spec == Init /\ [][Next]_logs

-----------------------------------------------------------------------------
TypeOK == logs \in [Replicas -> Seq(Blocks)]

\* Agreement: the executed logs of any two replicas are compatible.
Agreement == \A r, q \in Replicas : Compatible(logs[r], logs[q])

=============================================================================

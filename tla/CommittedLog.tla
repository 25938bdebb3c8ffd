---------------------------- MODULE CommittedLog ----------------------------
(***************************************************************************)
(* What replication promises to the clients of a Raft cluster: every node  *)
(* knows a prefix of one sequence of committed entries.  A node learns     *)
(* more of it, and forgets what it knew only by a restart, as the commit   *)
(* index is not kept on disk.  An entry is known here by its term.         *)
(***************************************************************************)
EXTENDS Naturals, Sequences, SequencesExt

CONSTANT Node

VARIABLE known  \* per node, the entries it takes for committed

Init == known = [n \in Node |-> <<>>]

(* All nodes know prefixes of the same sequence.                           *)
Agree(k) ==
    \A n, p \in Node : IsPrefix(k[n], k[p]) \/ IsPrefix(k[p], k[n])

Learn(n) ==
    /\ IsStrictPrefix(known[n], known'[n])
    /\ known' = [known EXCEPT ![n] = known'[n]]
    /\ Agree(known')

Forget(n) == known' = [known EXCEPT ![n] = <<>>]

Next == \E n \in Node : Learn(n) \/ Forget(n)

Spec == Init /\ [][Next]_known
=============================================================================

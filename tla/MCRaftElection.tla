--------------------------- MODULE MCRaftElection ---------------------------
(* Model checking of RaftElection.  The candidates of a run may be         *)
(* exchanged when all of them may crash or none of them may.               *)
EXTENDS RaftElection, TLC

StarterSymmetry == Permutations(Starter)

(* Everybody votes, no client writes, and the heartbeats of a leader do    *)
(* not leave its executor (it may still crash).                            *)
OnlyVotes ==
    /\ \A m \in msgs : m.type # "Heartbeat"
    /\ \A n \in Node : log[n] = <<>>

(* Everything happens, but only among the candidates.                      *)
OnlyStarters == \A n \in Node \ Starter : current_term[n] = 0

(* Behaviours explored: one of the two scopes, the product is too large.   *)
Scope == OnlyVotes \/ OnlyStarters
=============================================================================

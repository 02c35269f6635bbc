------------------------------- MODULE Store -------------------------------
(* What a link state database promises: for every key the newest instance  *)
(* it was given, nothing older, until the router restarts.  Which of two   *)
(* instances is newer is given by the sequence number and then the         *)
(* checksum.                                                               *)
EXTENDS Integers

CONSTANTS Keys, Seqs, Sums

VARIABLE best    \* best[k]: {the newest instance of k}, or {}

LSAs == [key : Keys, seq : Seqs, sum : Sums]

Newer(a, b) == a.seq > b.seq \/ (a.seq = b.seq /\ a.sum > b.sum)

Init == best = [k \in Keys |-> {}]

\* An instance that is not newer than the one at hand changes nothing.
Learn(lsa) ==
    /\ \A old \in best[lsa.key] : Newer(lsa, old)
    /\ best' = [best EXCEPT ![lsa.key] = {lsa}]

Forget == best' = [k \in Keys |-> {}]

Next == Forget \/ \E lsa \in LSAs : Learn(lsa)

Spec == Init /\ [][Next]_best
=============================================================================

----------------------------- MODULE MCLogReader -----------------------------
(***************************************************************************)
(* LogReader on small instances.  The streams that matter need several     *)
(* records in one file, or several files; the two directions are explored  *)
(* to their own bounds, and not their product.                             *)
(***************************************************************************)
EXTENDS LogReader, TLC

Symmetry == Permutations(Workers)

\* One run of the master and one file, in which anything is written.
OneFile == Len(disk) <= 1 /\ runs <= 1 /\ clock <= 1

\* Rotations, restarts and three distinct times, with one worker and no record
\* of the master that the protocol does not ask for.
Restarts ==
  /\ \A f \in DOMAIN disk : \A i \in DOMAIN disk[f] :
       /\ disk[f][i].event # "MASTER_LOG"
       /\ disk[f][i].event = "MASTER_PING" => f > 1 /\ i = 1
  /\ \A i \in DOMAIN mbuf : mbuf[i].event \notin {"MASTER_LOG", "MASTER_PING"}
  /\ \E w \in Workers : \A v \in Workers \ {w} :
       /\ wst[v] = "none"
       /\ \A f \in DOMAIN disk : \A i \in DOMAIN disk[f] : disk[f][i].workerId # v

Explored == OneFile \/ Restarts
=============================================================================

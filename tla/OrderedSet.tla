----------------------------- MODULE OrderedSet -----------------------------
(* What RBTree promises its users: a set of nodes in the comparator's      *)
(* order, changed by one node at a time, whose ends can be read.           *)
EXTENDS Naturals, Sequences, SequencesExt
CONSTANTS Nodes, NULL
VARIABLES seq, first, last

Ends ==
  IF seq = <<>> THEN first = NULL /\ last = NULL
  ELSE first = seq[1] /\ last = seq[Len(seq)]

Init == seq = <<>> /\ Ends

Insert(n) ==
  /\ n \notin Range(seq)
  /\ \E i \in 1 .. Len(seq) + 1 : seq' = InsertAt(seq, i, n)
  /\ \A i \in 1 .. Len(seq) : seq'[i] < seq'[i + 1]
  /\ Ends'

Delete(n) == n \in Range(seq) /\ seq' = Remove(seq, n) /\ Ends'

Next == \E n \in Nodes : Insert(n) \/ Delete(n)
Spec == Init /\ [][Next]_<<seq, first, last>>
=============================================================================

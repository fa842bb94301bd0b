------------------------------ MODULE RunQueue ------------------------------
(* What the scheduler of one processor promises: the running task takes    *)
(* turns with the ready ones and every ready task gets its turn.           *)
CONSTANT Tasks
VARIABLES ready, running
vars == <<ready, running>>

Init == ready = {} /\ running \in Tasks

Arrive(t) == t \notin ready \cup {running} /\ ready' = ready \cup {t} /\ UNCHANGED running

(* t runs next; the old task stays ready or, dying, leaves.                *)
Dispatch(t) ==
  /\ t \in ready \cup {running}
  /\ running' = t
  /\ \/ ready' = (ready \cup {running}) \ {t}
     \/ t # running /\ ready' = ready \ {t}

Next == \E t \in Tasks : Arrive(t) \/ Dispatch(t)

Spec == /\ Init /\ [][Next]_vars
        /\ \A t \in Tasks : SF_vars(t \in ready /\ Dispatch(t))
=============================================================================

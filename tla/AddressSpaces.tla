---------------------------- MODULE AddressSpaces ----------------------------
(***************************************************************************)
(* What page tables promise: per address space a function from virtual     *)
(* addresses to what is mapped there.  A space starts as a copy of the     *)
(* kernel's; mapping one address changes no other; what the kernel maps    *)
(* for itself reaches some of the spaces at once and others not, and a     *)
(* space may take over the kernel's half.                                  *)
(***************************************************************************)
CONSTANTS Kernel, Tasks, UserAddrs, KernelAddrs, Values, None

VARIABLE view      \* per space None or a function from addresses to values

Addrs == UserAddrs \cup KernelAddrs

Init == /\ view \in [{Kernel} \cup Tasks -> [Addrs -> Values] \cup {None}]
        /\ \A t \in Tasks : view[t] = None

(* A step from the views old to the views new.                              *)
SameBut(old, new, S) == \A s \in DOMAIN old \ S : new[s] = old[s]

MapUser(old, new, t, a) ==
  /\ old[t] # None /\ new[t] # None /\ SameBut(old, new, {t})
  /\ \A b \in Addrs \ {a} : new[t][b] = old[t][b]

MapKernel(old, new, a) ==
  \A s \in DOMAIN old :
    IF old[s] = None THEN new[s] = None
    ELSE /\ new[s] # None
         /\ \A b \in Addrs \ {a} : new[s][b] = old[s][b]
         /\ new[s][a] \in {old[s][a], new[Kernel][a]}

Create(old, new, t) == old[t] = None /\ new[t] = old[Kernel] /\ SameBut(old, new, {t})

TakeOver(old, new, t) ==
  /\ old[t] # None /\ SameBut(old, new, {t})
  /\ new[t] = [a \in Addrs |-> IF a \in KernelAddrs THEN old[Kernel][a] ELSE old[t][a]]

Delete(old, new, t) == old[t] # None /\ new[t] = None /\ SameBut(old, new, {t})

Step(old, new) ==
  \/ \E t \in Tasks : Create(old, new, t) \/ TakeOver(old, new, t) \/ Delete(old, new, t)
  \/ \E t \in Tasks, a \in UserAddrs : MapUser(old, new, t, a)
  \/ \E a \in KernelAddrs : MapKernel(old, new, a)

Next == \E old \in {view}, new \in {view'} : Step(old, new)

Spec == Init /\ [][Next]_view
=============================================================================

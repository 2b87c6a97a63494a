------------------------------ MODULE ValueCell ------------------------------
(***************************************************************************)
(* What the dispatcher promises for each value name: the name behaves like *)
(* one cell holding a number and its validity.  A publication replaces     *)
(* both at once, reaches every output before the next publication of the   *)
(* name, and a reader gets the current pair.  There are no threads, locks  *)
(* or deadlines here.                                                      *)
(***************************************************************************)
EXTENDS Naturals

CONSTANTS
  Names,     \* the value names
  Outs,   \* name -> set of its outputs
  Readers,   \* whoever reads current values
  Pairs,     \* number and validity
  Initial,   \* name -> its pair before the first publication
  None       \* "nothing delivered yet"

VARIABLES
  cell,      \* name -> current pair
  todo,      \* name -> outputs the current pair has not reached yet
  out,       \* name -> output -> last pair it was given
  read       \* reader -> name and pair it got last

cellVars == <<cell, todo, out, read>>

Init ==
  /\ cell = Initial
  /\ todo = [n \in Names |-> {}]
  /\ out = [n \in Names |-> [i \in Outs[n] |-> None]]
  /\ read \in [Readers -> [n : Names, p : Pairs]]
  /\ \A r \in Readers : read[r].p = Initial[read[r].n]

\* A new pair is accepted once the previous one has reached every output.
Publish(n, p) ==
  /\ todo[n] = {}
  /\ cell' = [cell EXCEPT ![n] = p]
  /\ todo' = [todo EXCEPT ![n] = Outs[n]]
  /\ UNCHANGED <<out, read>>

\* The current pair is given to output i.
Deliver(n, i) ==
  /\ i \in todo[n]
  /\ out' = [out EXCEPT ![n][i] = cell[n]]
  /\ todo' = [todo EXCEPT ![n] = @ \ {i}]
  /\ UNCHANGED <<cell, read>>

\* A reader gets the current pair, also while outputs are still waiting.
Read(r, n) ==
  /\ read' = [read EXCEPT ![r] = [n |-> n, p |-> cell[n]]]
  /\ UNCHANGED <<cell, todo, out>>

Next ==
  \/ \E n \in Names, p \in Pairs : Publish(n, p)
  \/ \E n \in Names : \E i \in Outs[n] : Deliver(n, i)
  \/ \E r \in Readers, n \in Names : Read(r, n)

Spec == Init /\ [][Next]_cellVars

\* Every publication reaches every output.
FairSpec == Spec /\ \A n \in Names : \A i \in Outs[n] : WF_cellVars(Deliver(n, i))
=============================================================================

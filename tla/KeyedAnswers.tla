----------------------------- MODULE KeyedAnswers -----------------------------
(***************************************************************************)
(* What an idempotency key promises: whoever is told of success under a    *)
(* key is told the same answer, the first that was decided.                *)
(***************************************************************************)
CONSTANTS None, Slots, Answers

VARIABLES
  told,   \* [Slots -> the answer decided for it, or None]
  heard   \* what clients were told: slots with answers

Init == told = [s \in Slots |-> None] /\ heard = {}

Decide(s, a) ==
  /\ told[s] = None
  /\ told' = [told EXCEPT ![s] = a]
  /\ UNCHANGED heard

Hear(s) ==
  /\ told[s] # None
  /\ heard' = heard \cup {<<s, told[s]>>}
  /\ UNCHANGED told

Next == \E s \in Slots : Hear(s) \/ \E a \in Answers : Decide(s, a)

Spec == Init /\ [][Next]_<<told, heard>>

=============================================================================

----------------------------- MODULE AtLeastOnce -----------------------------
(***************************************************************************)
(* What an outbox promises: a message is owed once the change it belongs   *)
(* to is committed, and is never handed to the broker before; it stops     *)
(* being owed, for good, only after a hand-over the broker accepted or     *)
(* when it is set aside for an operator.  Copies may be handed over any    *)
(* number of times, late ones too, when the message is no longer owed.     *)
(***************************************************************************)
EXTENDS Naturals

CONSTANTS Messages

VARIABLES
  owed,     \* messages whose change is committed and that are not dealt with
  handed,   \* handed[m]: how often the broker took m
  settled,  \* messages crossed off after the broker took them
  aside     \* messages set aside

vars == <<owed, handed, settled, aside>>

Init ==
  /\ owed = {} /\ settled = {} /\ aside = {}
  /\ handed = [m \in Messages |-> 0]

Commit(m) ==
  /\ m \notin owed \cup settled \cup aside
  /\ owed' = owed \cup {m}
  /\ UNCHANGED <<handed, settled, aside>>

HandOver(m) ==
  /\ m \in owed \cup settled \cup aside
  /\ handed' = [handed EXCEPT ![m] = @ + 1]
  /\ UNCHANGED <<owed, settled, aside>>

\* A batch is crossed off at once.
CrossOff(done, given) ==
  /\ done \cup given \subseteq owed /\ done \cap given = {}
  /\ \A m \in done : handed[m] > 0
  /\ owed' = owed \ (done \cup given)
  /\ settled' = settled \cup done
  /\ aside' = aside \cup given
  /\ UNCHANGED handed

Next ==
  \/ \E m \in Messages : Commit(m) \/ HandOver(m)
  \/ \E done, given \in SUBSET Messages : CrossOff(done, given)

Spec == Init /\ [][Next]_vars
=============================================================================

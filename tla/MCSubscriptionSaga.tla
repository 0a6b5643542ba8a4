------------------------- MODULE MCSubscriptionSaga -------------------------
(* Instances of SubscriptionSaga for TLC. *)
EXTENDS SubscriptionSaga, TLC

CONSTANTS s1, s2, ann, bob, repo

\* One user who subscribes to one repository twice.
OnePair    == {<<ann, repo>>}
SamePair   == [s \in Sagas |-> <<ann, repo>>]

\* Two users of one repository, one request each.
TwoPairs   == {<<ann, repo>>, <<bob, repo>>}
OwnPair    == s1 :> <<ann, repo>> @@ s2 :> <<bob, repo>>

\* Replicas of a service are interchangeable.
Symmetry == Permutations(Handlers) \cup Permutations(Workers) \cup Permutations(Mailers)
SagaSymmetry == Symmetry \cup Permutations(Sagas)
=============================================================================

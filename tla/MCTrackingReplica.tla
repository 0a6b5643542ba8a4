-------------------------- MODULE MCTrackingReplica --------------------------
(* Instances of TrackingReplica for TLC. *)
EXTENDS TrackingReplica, TLC

CONSTANTS ann, bob, repo, tool

\* Two subscribers of one repository.
TwoEmails == {<<ann, repo>>, <<bob, repo>>}

\* One subscriber of two repositories.
TwoRepos  == {<<ann, repo>>, <<ann, tool>>}

\* Instances of the service are interchangeable, and so are two users with the
\* same events.
Instances == Permutations(Activators) \cup Permutations(Unsubscribers)
Symmetry  == Instances \cup Permutations({ann, bob})
=============================================================================

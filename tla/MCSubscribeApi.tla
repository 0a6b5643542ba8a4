---------------------------- MODULE MCSubscribeApi ----------------------------
(* The instance of SubscribeApi for TLC. *)
EXTENDS SubscribeApi, TLC

CONSTANTS q1, q2, ann

\* One client of each server.
BothTransports == q1 :> "http" @@ q2 :> "grpc"

\* Both are the same user's.
SameUser == [q \in Requests |-> ann]
=============================================================================

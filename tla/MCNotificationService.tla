------------------------ MODULE MCNotificationService ------------------------
(* An instance of NotificationService for TLC. *)
EXTENDS NotificationService, TLC

CONSTANTS n1, n2, c1

\* Two release notifications, one of which nobody accepts, and a confirmation.
ThreeMails == n1 :> "notifications" @@ n2 :> "notifications" @@ c1 :> "confirmations"
=============================================================================

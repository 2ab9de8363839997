------------------------ MODULE MCNotificationOutbox ------------------------
(* A notification is wanted of every outcome, or of failures only. *)
EXTENDS NotificationOutbox

AllOrFailures == {Outcomes, {"failed"}}
=============================================================================

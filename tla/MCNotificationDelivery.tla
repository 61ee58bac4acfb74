------------------------ MODULE MCNotificationDelivery ------------------------
(* NotificationDelivery on small sets, for TLC. *)
EXTENDS NotificationDelivery
===============================================================================

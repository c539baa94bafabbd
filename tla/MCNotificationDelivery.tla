----------------------- MODULE MCNotificationDelivery -----------------------
(* NotificationDelivery with two workers, two jobs and up to three         *)
(* recipients of an event: one batch, or two, the second of them empty     *)
(* when the first is the full and the last of the recipients.              *)
EXTENDS NotificationDelivery

CONSTANTS w1, w2

MCWorkers == {w1, w2}
=============================================================================

------------------------------- MODULE MCBus -------------------------------
(* Bus for TLC.  The data of an order are two abstract values (old and new *)
(* is all the properties tell apart); three commands let one command be    *)
(* held while two others are queued in either order; two clients are the   *)
(* main thread and the server thread of comm/main.c.                       *)
EXTENDS Bus
=============================================================================

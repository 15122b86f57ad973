------------------------------ MODULE MCRemote ------------------------------
(* Remote for TLC. *)
EXTENDS Remote

MCRequests == [task : 1 .. MaxTasks, cmd : {"set_vel", "set_rot", "app_miss"}]
=============================================================================

----------------------------- MODULE MCSpiLink -----------------------------
(* Instances of SpiLink for TLC.                                           *)
EXTENDS SpiLink

V(a, b, c, d) == <<a, b, c, d>>

(* A velocity, a steering error and a reset.  The bytes of a value are all *)
(* different, so that a shifted value is a different one; one of them, as  *)
(* a header, would be a reset, another the first byte of a write.          *)
MCCtrlOrders ==
    {[cmd |-> {1, 2, 3}, data |-> V(B({2}, {0}), B({0, 3}, {0, 3}), B({1}, {2}), B({0}, {0, 2}))],
     [cmd |-> {0, 1, 3}, data |-> V(Zero, B({3}, {}), Zero, B({0, 1}, {2}))],
     [cmd |-> RST, data |-> <<>>]}

MCCtrlWrites == {o \in MCCtrlOrders : BF_WRITE \in o.cmd}

(* The two commands the sensor module gets. *)
MCSensOrders == {[cmd |-> GET, data |-> <<>>], [cmd |-> RST, data |-> <<>>]}

MCOrders == [s \in {"sens", "ctrl"} |-> IF s = "sens" THEN MCSensOrders ELSE MCCtrlOrders]
MCWrites == [s \in {"ctrl"} |-> MCCtrlWrites]

(* Sixteen different bytes; read as headers, some are commands. *)
MCSensors ==
    [i \in 1 .. 16 |->
      B({b \in 0 .. 3 : (i \div 2^b) % 2 = 1}, {b \in 0 .. 3 : ((3 * i) \div 2^b) % 2 = 1})]

(* Uninitialized bytes: one that passes for a header without data, one     *)
(* that does not.                                                          *)
MCGarbage == {Zero, B({}, {0})}

(* calc_sum is what its loop computes. *)
ASSUME LoopAgrees ==
    \A cmd, hi \in Nibble, lo \in {{}, {0}, {1, 2}}, len \in {0, 1, 2, 3, 4, 16} :
      calc_sum(cmd, <<B(hi, lo)>>, len) = calc_sum_loop(cmd, <<B(hi, lo)>>, len)
=============================================================================

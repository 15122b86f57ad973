------------------------------ MODULE Protocol ------------------------------
(***************************************************************************)
(* The byte protocol of the SPI bus, src/src/spi/protocol.h and            *)
(* protocol.c, which the communication module and both slaves compile in.  *)
(*                                                                         *)
(* A nibble is the set of its one-bits, so that `^' is the symmetric       *)
(* difference; a byte is its low and its high nibble.                      *)
(***************************************************************************)
EXTENDS Integers, Sequences

Nibble == SUBSET (0 .. 3)
Byte == [lo : Nibble, hi : Nibble]

B(hi, lo) == [lo |-> lo, hi |-> hi]
Zero == B({}, {})

(* Bitwise exclusive or. *)
xor(a, b) == (a \ b) \union (b \ a)

MAX_DATA_LENGTH == 16

(* struct cmd_sum: the command is the low nibble, the sum the high one. *)
cs_cmd(cs) == cs.lo
cs_sum(cs) == cs.hi

(* The loop of calc_sum: it runs len times, but reads the first byte of    *)
(* data every time.                                                        *)
calc_sum_loop(cmd, data, len) ==
    LET sum[i \in 0 .. len] ==
          IF i = 0 THEN cmd ELSE xor(xor(sum[i - 1], data[1].lo), data[1].hi)
    IN  sum[len]

(* What the loop computes (LoopAgrees in MCSpiLink compares the two): len  *)
(* equal terms cancel in pairs.                                            *)
calc_sum(cmd, data, len) ==
    IF len % 2 = 0 THEN cmd ELSE xor(xor(cmd, data[1].lo), data[1].hi)

cs_create(cmd, data, len) == B(calc_sum(cmd, data, len), cmd)

cs_check(cs, data, len) == cs_sum(cs) = calc_sum(cs_cmd(cs), data, len)

(* Commands, as the bits of their number. *)
BB_INVALID == {}
RST == {0}
SYN == {1}
GET == {0, 1}
BF_WRITE == 3

(* The tables BCSS and BCCS: which numbers are commands, which of them     *)
(* write, and how many bytes of data go with them.                         *)
valid(slave, cmd) ==
    \/ cmd \in {RST, SYN}
    \/ slave = "sens" /\ cmd = GET
    \/ slave = "ctrl" /\ BF_WRITE \in cmd

write(slave, cmd) == slave = "ctrl" /\ BF_WRITE \in cmd

length(slave, cmd) ==
    IF write(slave, cmd) THEN 4 ELSE IF slave = "sens" /\ cmd = GET THEN 16 ELSE 0

(* ACKS: 0x53 and 0xc7. *)
ACK(slave) == IF slave = "sens" THEN B({0, 2}, {0, 1}) ELSE B({2, 3}, {0, 1, 2})
=============================================================================

--------------------------- MODULE SpiLinkProofs ----------------------------
(***************************************************************************)
(* Proofs about the SPI line, for any orders, any sensor values, any       *)
(* uninitialized bytes and any number of faults and restarts.              *)
(***************************************************************************)
EXTENDS SpiLink, SequenceTheorems, TLAPS

(***************************************************************************)
(* The protocol.                                                           *)
(***************************************************************************)

(* All lengths are even, so the sum is the command itself. *)
LEMMA EvenSum ==
    ASSUME NEW cmd, NEW data, NEW len \in {0, 4, 16}
    PROVE  calc_sum(cmd, data, len) = cmd /\ cs_create(cmd, data, len) = B(cmd, cmd)
  <1>1. len % 2 = 0
    OBVIOUS
  <1>2. QED
    BY <1>1 DEF calc_sum, cs_create

(* A byte is two nibbles, and taking it apart gives them back. *)
LEMMA Bytes ==
    /\ Zero \in Byte /\ \A s : ACK(s) \in Byte
    /\ \A hi, lo \in Nibble : B(hi, lo) \in Byte
    /\ \A hi, lo : cs_cmd(B(hi, lo)) = lo /\ cs_sum(B(hi, lo)) = hi
    /\ \A b \in Byte : cs_cmd(b) \in Nibble
  BY DEF Zero, ACK, B, Byte, Nibble, cs_cmd, cs_sum

(* A zero is no command. *)
LEMMA ZeroInvalid == \A s : ~valid(s, cs_cmd(Zero))
  <1>1. cs_cmd(Zero) = {}
    BY Bytes DEF Zero
  <1>2. {} # RST /\ {} # SYN /\ {} # GET /\ BF_WRITE \notin {}
    BY DEF RST, SYN, GET, BF_WRITE
  <1>3. QED
    BY <1>1, <1>2 DEF valid

(* Data goes to the control module or comes from the sensor module. *)
LEMMA Lengths ==
    ASSUME NEW s, NEW cmd
    PROVE  /\ length(s, cmd) \in {0, 4, 16}
           /\ write(s, cmd) => length(s, cmd) = 4 /\ s = "ctrl"
           /\ s = "sens" /\ cmd = GET => length(s, cmd) = 16 /\ ~write(s, cmd)
           /\ ~write(s, cmd) /\ ~(s = "sens" /\ cmd = GET) => length(s, cmd) = 0
  BY DEF length, write

(* What may arrive for a byte is a byte. *)
LEMMA ArrivesByte == ASSUME NEW b \in Byte PROVE Arrives(b) \subseteq Byte /\ b \in Arrives(b)
  <1>1. ASSUME NEW x \in Nibble, NEW i \in 0 .. 3 PROVE xor(x, {i}) \in Nibble
    BY DEF xor, Nibble
  <1>2. Flipped(b) \subseteq Byte
    BY <1>1 DEF Flipped, Byte
  <1>3. QED
    BY <1>2 DEF Arrives

(* The orders of a slave. *)
LEMMA OrderFacts ==
    ASSUME Slave \in Slaves, NEW o \in Orders[Slave]
    PROVE  /\ o \in Order /\ o.cmd \in Nibble /\ valid(Slave, o.cmd) /\ o.data \in Seq(Byte)
           /\ Write(o) => Len(o.data) = 4 /\ DataLen(o) = 4
           /\ ~Write(o) => o.data = <<>>
           /\ o = [cmd |-> o.cmd, data |-> o.data]
  <1>1. /\ o \in Order /\ valid(Slave, o.cmd)
        /\ Len(o.data) = (IF write(Slave, o.cmd) THEN length(Slave, o.cmd) ELSE 0)
    BY LinkAssumption
  <1>2. o.cmd \in Nibble /\ o.data \in Seq(Byte) /\ o = [cmd |-> o.cmd, data |-> o.data]
    BY <1>1 DEF Order
  <1>3. QED
    BY <1>1, <1>2, Lengths, EmptySeq DEF Write, DataLen

(* The bytes the master sends. *)
LEMMA TxBytes ==
    ASSUME Slave \in Slaves, NEW o \in Orders[Slave]
    PROVE  /\ TxByte(o, 1) = B(o.cmd, o.cmd) /\ B(o.cmd, o.cmd) \in Byte
           /\ cs_cmd(B(o.cmd, o.cmd)) = o.cmd
           /\ Write(o) => \A k \in 2 .. 5 : TxByte(o, k) = o.data[k - 1] /\ TxByte(o, k) \in Byte
           /\ Write(o) => \A k \in Nat : k > 5 => TxByte(o, k) = Zero
           /\ ~Write(o) => \A k \in Nat : k > 1 => TxByte(o, k) = Zero
           /\ \A k \in Nat \ {0} : TxByte(o, k) \in Byte
  <1>1. /\ o.cmd \in Nibble /\ o.data \in Seq(Byte)
        /\ Write(o) => Len(o.data) = 4 /\ DataLen(o) = 4
    BY OrderFacts
  <1>2. /\ cs_create(o.cmd, <<>>, 0) = B(o.cmd, o.cmd)
        /\ cs_create(o.cmd, o.data, 4) = B(o.cmd, o.cmd)
    BY EvenSum
  <1>3. TxByte(o, 1) = B(o.cmd, o.cmd)
    BY <1>1, <1>2 DEF TxByte
  <1>4. B(o.cmd, o.cmd) \in Byte /\ cs_cmd(B(o.cmd, o.cmd)) = o.cmd
    BY <1>1, Bytes
  <1>5. ASSUME Write(o), NEW k \in 2 .. 5
        PROVE  TxByte(o, k) = o.data[k - 1] /\ TxByte(o, k) \in Byte
    <2>1. TxByte(o, k) = o.data[k - 1]
      BY <1>1, <1>5 DEF TxByte
    <2>2. Len(o.data) = 4
      BY <1>1, <1>5, Zenon
    <2>3. k - 1 \in 1 .. Len(o.data)
      BY <2>2
    <2>4. o.data[k - 1] \in Byte
      BY <1>1, <2>3, ElementOfSeq
    <2>5. QED
      BY <2>1, <2>4
  <1>6. ASSUME Write(o), NEW k \in Nat, k > 5 PROVE TxByte(o, k) = Zero
    BY <1>1, <1>6 DEF TxByte
  <1>7. ASSUME ~Write(o), NEW k \in Nat, k > 1 PROVE TxByte(o, k) = Zero
    BY <1>7 DEF TxByte
  <1>8. ASSUME NEW k \in Nat \ {0} PROVE TxByte(o, k) \in Byte
    <2>1. k = 1 \/ k \in 2 .. 5 \/ k > 5
      OBVIOUS
    <2>2. QED
      BY <1>3, <1>4, <1>5, <1>6, <1>7, <2>1, Bytes
  <1>9. QED
    BY <1>3, <1>4, <1>5, <1>6, <1>7, <1>8

(***************************************************************************)
(* The inductive invariant.                                                *)
(***************************************************************************)

(* The slave is answering with its sensor values. *)
Long == Slave = "sens" /\ cs_cmd(cs) = GET

(* What the two programs can be doing at all. *)
Shape ==
    /\ mpc = "run" => /\ ord \in Orders[Slave]
                      /\ clk =< (IF Write(ord) THEN 6 ELSE DataLen(ord) + 3)
                      /\ clk = 0 => rx = <<>>
    /\ mpc = "sync" => clk =< SyncLen
    /\ phase = "data" => write(Slave, cs_cmd(cs)) /\ at =< 3
    /\ phase \in {"sum", "ret"} => Long

(* The bytes the slave still fetches before it waits for a command again,  *)
(* the most it can be, and the byte that has arrived already.              *)
Rest ==
    IF phase = "cmd" THEN 0
    ELSE IF phase = "data" THEN 5 - at
    ELSE IF phase = "ack" THEN (IF Long THEN 18 ELSE 1)
    ELSE IF phase = "sum" THEN 17 ELSE 16 - at

Most == IF phase \in {"sum", "ret"} \/ (phase = "ack" /\ Long) THEN 18 ELSE 5

Pending == IF spif THEN 1 ELSE 0

(* In spi_sync: the zeros still to come are enough for what the slave      *)
(* needs, and a write is over after five of them.                          *)
Syncing ==
    mpc = "sync" /\ clean =>
      /\ clk > 0 /\ spif => reg = Zero
      /\ phase # "cmd" => Rest - Pending + clk =< Most

(* Between two exchanges the slave waits for a command, or does so once it *)
(* has fetched the last byte; a command it executes then is the one that   *)
(* was last on the line.                                                   *)
Between ==
    /\ ~spif => phase = "cmd"
    /\ spif /\ phase = "cmd" => ~valid(Slave, cs_cmd(reg))
    /\ spif /\ phase # "cmd" => Rest = 1
    /\ phase = "ack" => [cmd |-> cs_cmd(cs), data |-> Value] = wire

Resting == clean /\ (mpc = "idle" \/ (mpc = "run" /\ clk = 0)) => Between

(* In an exchange: the slave is where the number of bytes it has fetched   *)
(* says, and works on the order of the master.                             *)
Fetched == clk - Pending

Running == mpc = "run" /\ clean /\ clk > 0

AnyRun ==
    Running =>
      /\ wire = ord
      /\ spif => reg = TxByte(ord, clk)
      /\ Fetched = 0 => phase = "cmd"

(* transmit *)
WriteRun ==
    Running /\ Write(ord) =>
      /\ rx = (IF clk = 6 THEN <<ACK(Slave)>> ELSE <<>>)
      /\ Fetched \in 1 .. 5 => cs = B(ord.cmd, ord.cmd)
      /\ Fetched \in 1 .. 4 => /\ phase = "data" /\ at = Fetched - 1
                               /\ \A i \in 1 .. Fetched - 1 : buf[i] = ord.data[i]
      /\ Fetched = 5 => phase = "ack" /\ buf = ord.data /\ (~spif => reg = ACK(Slave))
      /\ Fetched = 6 => phase = "cmd" /\ executed = ord

(* receive, up to the ack, *)
GetOrder == Slave = "sens" /\ ord.cmd = GET

ReadRun ==
    Running /\ ~Write(ord) =>
      /\ Len(rx) = (IF clk >= 2 THEN clk - 1 ELSE 0)
      /\ clk >= 2 => rx[1] = ACK(Slave)
      /\ Fetched = 1 => phase = "ack" /\ cs = B(ord.cmd, ord.cmd) /\ (~spif => reg = ACK(Slave))

(* without data, *)
PlainRun ==
    Running /\ ~Write(ord) /\ ~GetOrder =>
      /\ Fetched \in {2, 3} => phase = "cmd" /\ executed = ord
      /\ Fetched = 2 /\ ~spif /\ Slave = "sens" => reg = Zero
      /\ clk >= 3 /\ Slave = "sens" => rx[2] = Zero

(* and with the sensor values. *)
GetRun ==
    Running /\ GetOrder =>
      /\ Fetched \in 1 .. 18 => Long
      /\ Fetched = 2 => phase = "sum" /\ (~spif => reg = B(GET, GET))
      /\ Fetched \in 3 .. 18 => /\ phase = "ret" /\ at = Fetched - 3
                                /\ ~spif => reg = Sensors[Fetched - 2]
      /\ Fetched = 19 => phase = "cmd"
      /\ clk >= 3 => rx[2] = B(GET, GET)
      /\ \A i \in 3 .. clk - 1 : rx[i] = Sensors[i - 2]

Exchanging == AnyRun /\ WriteRun /\ ReadRun /\ PlainRun /\ GetRun

IInv == TypeOK /\ Shape /\ Syncing /\ Resting /\ Exchanging

(* Both ends start before a command. *)
LEMMA InitInvariant == Init => IInv
  <1> SUFFICES ASSUME Init PROVE IInv
    OBVIOUS
  <1>1. PICK g \in Garbage : buf = <<g, g, g, g>>
    BY DEF Init
  <1>2. g \in Byte /\ buf \in Seq(Byte) /\ Len(buf) = 4
    BY <1>1, LinkAssumption
  <1>3. None \in Order
    BY DEF None, Order, BB_INVALID, Nibble
  <1>4. reg \in Byte /\ cs \in Byte
    BY Bytes, LinkAssumption DEF Init
  <1>5. TypeOK
    <2>1. /\ clk \in 0 .. 19 /\ rx \in Seq(Byte) /\ Len(rx) =< clk /\ at \in 0 .. 15
          /\ faults \in 0 .. MaxFaults /\ restarts \in 0 .. MaxRestarts
      BY LinkAssumption DEF Init
    <2>2. QED
      BY <1>2, <1>3, <1>4, <2>1, Zenon DEF Init, TypeOK
  <1>6. Shape /\ Syncing /\ Resting
    BY DEF Init, Shape, Syncing, Resting, SyncLen, MAX_DATA_LENGTH
  <1>7. Exchanging
    BY DEF Init, Exchanging, AnyRun, WriteRun, ReadRun, PlainRun, GetRun, Running
  <1>8. QED
    BY <1>5, <1>6, <1>7 DEF IInv

(***************************************************************************)
(* The master.                                                             *)
(***************************************************************************)

(* One byte each way; without a fault it is fetched in time and arrives as *)
(* it was sent.                                                            *)
LEMMA ExchangeResult ==
    ASSUME TypeOK, NEW tx \in Byte, NEW keep \in BOOLEAN, Exchange(tx, keep)
    PROVE  /\ clk' = clk + 1 /\ spif' = TRUE /\ reg' \in Byte
           /\ rx' \in Seq(Byte) /\ Len(rx') =< clk + 1
           /\ clean' \in BOOLEAN /\ faults' \in 0 .. MaxFaults
           /\ UNCHANGED <<slave, restarts, executed>>
           /\ clean' => /\ clean /\ ~spif /\ reg' = tx
                        /\ rx' = (IF keep THEN Append(rx, reg) ELSE rx)
  <1> DEFINE bad(down, up) == (IF spif THEN 1 ELSE 0) + (IF down # tx THEN 1 ELSE 0)
                                                     + (IF up # reg THEN 1 ELSE 0)
  <1>1. PICK down \in Arrives(tx), up \in (IF keep THEN Arrives(reg) ELSE {reg}) :
           /\ faults + bad(down, up) =< MaxFaults
           /\ faults' = faults + bad(down, up)
           /\ clean' = (clean /\ bad(down, up) = 0)
           /\ clk' = clk + 1
           /\ rx' = (IF keep THEN Append(rx, up) ELSE rx)
           /\ reg' = down
           /\ spif' = TRUE
           /\ UNCHANGED <<slave, restarts, executed>>
    BY Zenon DEF Exchange
  <1>2. down \in Byte /\ up \in Byte
    BY ArrivesByte DEF TypeOK
  <1>3. bad(down, up) \in Nat /\ (bad(down, up) = 0 => ~spif /\ down = tx /\ up = reg)
    OBVIOUS
  <1> HIDE DEF bad
  <1>4. rx \in Seq(Byte) /\ Len(rx) =< clk /\ Len(rx) \in Nat /\ clk \in Nat
    BY LenProperties DEF TypeOK
  <1>5. Append(rx, up) \in Seq(Byte) /\ Len(Append(rx, up)) = Len(rx) + 1
    BY <1>2, <1>4, AppendProperties
  <1>6. rx' \in Seq(Byte) /\ Len(rx') =< clk + 1
    BY <1>1, <1>4, <1>5
  <1>7. faults' \in 0 .. MaxFaults
    BY <1>1, <1>3, LinkAssumption DEF TypeOK
  <1>8. clean' \in BOOLEAN
    BY <1>1, Zenon
  <1>9. clean' => clean /\ bad(down, up) = 0
    BY <1>1, Zenon
  <1>10. QED
    BY <1>1, <1>2, <1>3, <1>6, <1>7, <1>8, <1>9

(* A step of the master that moves no byte and starts no exchange or sync  *)
(* may still end one.                                                      *)
LEMMA StartKeeps ==
    ASSUME IInv, NEW o \in Orders[Slave], start(o), UNCHANGED Slave
    PROVE  IInv'
  <1>1. /\ mpc = "idle" /\ mpc' = "run" /\ ord' = o /\ clk' = 0 /\ rx' = <<>>
        /\ UNCHANGED <<Slave, phase, cs, at, buf, reg, spif, clean, faults, restarts, wire, executed>>
    BY DEF start, slave, line, history
  <1>2. TypeOK'
    BY <1>1 DEF IInv, TypeOK
  <1>3. Shape'
    <2>1. DataLen(o) \in {0, 4, 16}
      BY Lengths DEF DataLen
    <2>2. clk' =< (IF Write(ord) THEN 6 ELSE DataLen(ord) + 3)'
      BY <1>1, <2>1 DEF Write, DataLen
    <2>3. QED
      BY <1>1, <2>2 DEF IInv, Shape, Long
  <1>4. Syncing'
    BY <1>1 DEF Syncing
  <1>5. Between => Between'
    BY <1>1 DEF Between, Rest, Long, Value
  <1>6. Resting'
    BY <1>1, <1>5 DEF IInv, Resting
  <1>7. Exchanging'
    BY <1>1 DEF Exchanging, AnyRun, WriteRun, ReadRun, PlainRun, GetRun, Running
  <1>8. QED
    BY <1>2, <1>3, <1>4, <1>6, <1>7 DEF IInv

(* Wherever the slave is, SyncLen zeros are enough for it. *)
LEMMA StartSyncKeeps ==
    ASSUME IInv, StartSync, UNCHANGED <<Slave, ord, slave, line, faults, wire, executed>>,
           restarts' \in 0 .. MaxRestarts
    PROVE  IInv'
  <1>1. /\ mpc' = "sync" /\ clk' = 0 /\ rx' = <<>> /\ clean' = TRUE
        /\ UNCHANGED <<Slave, ord, phase, cs, at, buf, reg, spif, faults, wire, executed>>
    BY DEF StartSync, slave, line
  <1>2. TypeOK'
    BY <1>1 DEF IInv, TypeOK
  <1>3. Shape'
    BY <1>1 DEF IInv, Shape, Long, SyncLen, MAX_DATA_LENGTH
  <1>4. Syncing'
    BY <1>1 DEF IInv, TypeOK, Shape, Syncing, Rest, Most, Pending, Long
  <1>5. Resting' /\ Exchanging'
    BY <1>1 DEF Resting, Exchanging, AnyRun, WriteRun, ReadRun, PlainRun, GetRun, Running
  <1>6. QED
    BY <1>2, <1>3, <1>4, <1>5 DEF IInv

(* The three kinds of exchange that are complete, without a fault. *)
LEMMA CompleteWrite ==
    ASSUME IInv, clean, Complete, Write(ord)
    PROVE  Success /\ Between /\ (~spif => executed = ord)
  <1>1. /\ mpc = "run" /\ ord \in Orders[Slave] /\ Slave \in Slaves /\ clk \in Nat
        /\ spif \in BOOLEAN /\ clk = DataLen(ord) + 2
    BY DEF Complete, IInv, Shape, TypeOK
  <1>2. /\ DataLen(ord) = 4 /\ ord = [cmd |-> ord.cmd, data |-> ord.data]
        /\ cs_cmd(B(ord.cmd, ord.cmd)) = ord.cmd
    BY <1>1, OrderFacts, TxBytes
  <1>3. clk = 6 /\ Running
    BY <1>1, <1>2 DEF Running
  <1>4. /\ rx = <<ACK(Slave)>> /\ wire = ord
        /\ Fetched = 5 => phase = "ack" /\ buf = ord.data /\ cs = B(ord.cmd, ord.cmd)
        /\ Fetched = 6 => phase = "cmd" /\ executed = ord
    BY <1>3 DEF IInv, Exchanging, AnyRun, WriteRun
  <1>5. Success
    BY <1>4 DEF Success
  <1>6. CASE ~spif
    <2>1. Fetched = 6
      BY <1>3, <1>6 DEF Fetched, Pending
    <2>2. QED
      BY <1>4, <1>5, <1>6, <2>1 DEF Between
  <1>7. CASE spif
    <2>1. Fetched = 5
      BY <1>3, <1>7 DEF Fetched, Pending
    <2>2. phase = "ack" /\ cs_cmd(cs) = ord.cmd /\ buf = ord.data
      BY <1>2, <1>4, <2>1
    <2>3. Slave = "ctrl"
      BY Lengths DEF Write
    <2>4. Rest = 1
      BY <2>2, <2>3 DEF Rest, Long
    <2>5. [cmd |-> cs_cmd(cs), data |-> Value] = wire
      BY <1>2, <1>4, <2>2 DEF Value, Write
    <2>6. QED
      BY <1>5, <1>7, <2>2, <2>4, <2>5 DEF Between
  <1>8. QED
    BY <1>1, <1>6, <1>7

(* A clean exchange without data: the slave is back before a command. *)
LEMMA CompletePlain ==
    ASSUME IInv, clean, Complete, ~Write(ord), ~GetOrder
    PROVE  (Success \/ Unanswered) /\ Between /\ DataLen(ord) = 0 /\ executed = ord
  <1>1. /\ mpc = "run" /\ ord \in Orders[Slave] /\ Slave \in Slaves /\ clk \in Nat
        /\ spif \in BOOLEAN
        /\ (clk = 2 /\ rx[1] # ACK(Slave)) \/ clk = DataLen(ord) + 3
    BY DEF Complete, IInv, Shape, TypeOK
  <1>2. DataLen(ord) = 0
    BY Lengths DEF DataLen, Write, GetOrder
  <1>3. clk > 0 /\ Running
    BY <1>1, <1>2 DEF Running
  <1>4. clk >= 2 => rx[1] = ACK(Slave)
    BY <1>3 DEF IInv, Exchanging, ReadRun
  <1>5. clk = 3 /\ rx[1] = ACK(Slave)
    BY <1>1, <1>2, <1>4
  <1>6. /\ Fetched \in {2, 3} => phase = "cmd" /\ executed = ord
        /\ Slave = "sens" => rx[2] = Zero
        /\ spif => reg = TxByte(ord, clk)
    BY <1>3, <1>5 DEF IInv, Exchanging, PlainRun, AnyRun
  <1>7. phase = "cmd" /\ executed = ord
    BY <1>1, <1>5, <1>6 DEF Fetched, Pending
  <1>8. TxByte(ord, clk) = Zero
    BY <1>1, <1>5, TxBytes
  <1>9. Between
    BY <1>6, <1>7, <1>8, ZeroInvalid DEF Between
  <1>10. CASE Slave = "sens"
    <2>1. cs_sum(Zero) = {} /\ cs_cmd(Zero) = {}
      BY Bytes DEF Zero
    <2>2. cs_check(rx[2], Received, DataLen(ord))
      BY <1>2, <1>6, <1>10, <2>1, EvenSum DEF cs_check
    <2>3. QED
      BY <1>2, <1>5, <1>7, <1>9, <2>2 DEF Success
  <1>11. CASE Slave # "sens"
    <2>1. Slave = "ctrl"
      BY <1>1, <1>11, LinkAssumption
    <2>2. QED
      BY <1>2, <1>7, <1>9, <2>1 DEF Unanswered
  <1>12. QED
    BY <1>10, <1>11

(* A clean exchange that reads the sensors: they arrive unchanged. *)
LEMMA CompleteGet ==
    ASSUME IInv, clean, Complete, GetOrder
    PROVE  Success /\ Between /\ Received = Sensors /\ ~Write(ord) /\ DataLen(ord) # 0
  <1>1. DataLen(ord) = 16 /\ ~Write(ord)
    BY Lengths DEF DataLen, Write, GetOrder
  <1>2. /\ mpc = "run" /\ ord \in Orders[Slave] /\ Slave \in Slaves /\ clk \in Nat
        /\ spif \in BOOLEAN /\ rx \in Seq(Byte)
        /\ (clk = 2 /\ rx[1] # ACK(Slave)) \/ clk = 19
    BY <1>1 DEF Complete, IInv, Shape, TypeOK
  <1>3. Running
    BY <1>2 DEF Running
  <1>4. /\ clk >= 2 => rx[1] = ACK(Slave)
        /\ Len(rx) = (IF clk >= 2 THEN clk - 1 ELSE 0)
    BY <1>1, <1>3 DEF IInv, Exchanging, ReadRun
  <1>5. clk = 19 /\ rx[1] = ACK(Slave) /\ Len(rx) = 18
    BY <1>2, <1>4
  <1>6. /\ Fetched \in 3 .. 18 => phase = "ret" /\ at = Fetched - 3
        /\ Fetched = 19 => phase = "cmd"
        /\ rx[2] = B(GET, GET)
        /\ \A i \in 3 .. 18 : rx[i] = Sensors[i - 2]
    BY <1>3, <1>5 DEF IInv, Exchanging, GetRun
  <1>7. Between
    <2>1. CASE spif
      <3>1. phase = "ret" /\ at = 15
        BY <1>5, <1>6, <2>1 DEF Fetched, Pending
      <3>2. QED
        BY <2>1, <3>1 DEF Between, Rest
    <2>2. CASE ~spif
      <3>1. phase = "cmd"
        BY <1>5, <1>6, <2>2 DEF Fetched, Pending
      <3>2. QED
        BY <2>2, <3>1 DEF Between
    <2>3. QED
      BY <1>2, <2>1, <2>2
  <1>8. Received = Sensors
    <2>1. Received = SubSeq(rx, 3, 18)
      BY <1>1 DEF Received
    <2>2. /\ SubSeq(rx, 3, 18) \in Seq(Byte) /\ Len(SubSeq(rx, 3, 18)) = 16
          /\ \A i \in 1 .. 16 : SubSeq(rx, 3, 18)[i] = rx[3 + i - 1]
      <3>1. 3 \in 1 .. Len(rx) + 1 /\ 18 \in 3 - 1 .. Len(rx)
        BY <1>5
      <3>2. Len(SubSeq(rx, 3, 18)) = 18 - 3 + 1
        BY <1>2, <3>1, SubSeqProperties
      <3>3. QED
        BY <1>2, <3>1, <3>2, SubSeqProperties
    <2>3. Sensors \in Seq(Byte) /\ Len(Sensors) = 16
      BY LinkAssumption
    <2>4. \A i \in 1 .. 16 : SubSeq(rx, 3, 18)[i] = Sensors[i]
      BY <1>6, <2>2
    <2>5. QED
      BY <2>1, <2>2, <2>3, <2>4, SeqEqual
  <1>9. cs_check(rx[2], Received, 16)
    BY <1>6, Bytes, EvenSum DEF cs_check
  <1>10. QED
    BY <1>1, <1>5, <1>7, <1>8, <1>9 DEF Success

(* Every clean exchange ends with both ends before a command. *)
LEMMA CompleteClean ==
    ASSUME IInv, clean, Complete
    PROVE  CleanExchange /\ Between
  <1>1. DataLen(ord) > 0 /\ ~Write(ord) => GetOrder
    BY Lengths DEF DataLen, Write, GetOrder
  <1>2. CASE Write(ord)
    BY <1>2, CompleteWrite DEF CleanExchange
  <1>3. CASE GetOrder
    BY <1>3, CompleteGet DEF CleanExchange
  <1>4. CASE ~Write(ord) /\ ~GetOrder
    BY <1>1, <1>4, CompletePlain DEF CleanExchange
  <1>5. QED
    BY <1>2, <1>3, <1>4

(* The end of an exchange, *)
LEMMA FinishKeeps ==
    ASSUME IInv, finish, UNCHANGED Slave
    PROVE  IInv'
  <1>1. CASE ~Success
    BY <1>1, StartSyncKeeps DEF finish, IInv, TypeOK
  <1>2. CASE Success
    <2>1. /\ Complete /\ mpc' = "idle"
          /\ UNCHANGED <<Slave, clk, rx, clean, ord, phase, cs, at, buf, reg, spif, faults, restarts,
                         wire, executed>>
      BY <1>2 DEF finish, slave, line
    <2>2. TypeOK'
      BY <2>1 DEF IInv, TypeOK
    <2>3. Shape' /\ Syncing'
      BY <2>1 DEF IInv, Shape, Long, Syncing
    <2>4. Between => Between'
      BY <2>1 DEF Between, Rest, Long, Value
    <2>5. Resting'
      BY <2>1, <2>4, CompleteClean DEF Resting
    <2>6. Exchanging'
      BY <2>1 DEF Exchanging, AnyRun, WriteRun, ReadRun, PlainRun, GetRun, Running
    <2>7. QED
      BY <2>2, <2>3, <2>5, <2>6 DEF IInv
  <1>3. QED
    BY <1>1, <1>2

(* of spi_sync, *)
LEMMA SyncDoneKeeps ==
    ASSUME IInv, sync_done, UNCHANGED Slave
    PROVE  IInv'
  <1>1. /\ mpc = "sync" /\ clk = 18 /\ mpc' = "idle"
        /\ UNCHANGED <<Slave, clk, rx, clean, ord, phase, cs, at, buf, reg, spif, faults, restarts,
                       wire, executed>>
    BY DEF sync_done, slave, line, history, SyncLen, MAX_DATA_LENGTH
  <1>2. TypeOK'
    BY <1>1 DEF IInv, TypeOK
  <1>3. Shape' /\ Syncing'
    BY <1>1 DEF IInv, Shape, Long, Syncing
  <1>4. clean => Between
    <2> SUFFICES ASSUME clean PROVE Between
      OBVIOUS
    <2>1. /\ spif => reg = Zero
          /\ phase # "cmd" => Rest - Pending + 18 =< Most
      BY <1>1 DEF IInv, Syncing
    <2>2. /\ phase # "cmd" => Rest >= 1 /\ Rest \in Nat
          /\ phase = "ack" /\ ~Long => Rest = 1 /\ Most = 5
          /\ phase = "ack" /\ Long => Rest = 18 /\ Most = 18
          /\ Most =< 18 /\ Most \in Nat /\ Pending \in {0, 1} /\ (~spif => Pending = 0)
      BY DEF Rest, Most, Pending, IInv, TypeOK, Shape
    <2>3. ~spif => phase = "cmd"
      BY <2>1, <2>2
    <2>4. phase # "ack"
      BY <2>1, <2>2
    <2>5. phase # "cmd" => Rest = 1
      BY <2>1, <2>2
    <2>6. QED
      BY <2>1, <2>3, <2>4, <2>5, ZeroInvalid DEF Between
  <1>5. Between => Between'
    BY <1>1 DEF Between, Rest, Long, Value
  <1>6. Resting'
    BY <1>1, <1>4, <1>5 DEF Resting
  <1>7. Exchanging'
    BY <1>1 DEF Exchanging, AnyRun, WriteRun, ReadRun, PlainRun, GetRun, Running
  <1>8. QED
    BY <1>2, <1>3, <1>6, <1>7 DEF IInv

(* and a byte of it. *)
LEMMA SyncKeeps ==
    ASSUME IInv, spi_sync, UNCHANGED Slave
    PROVE  IInv'
  <1>1. /\ mpc = "sync" /\ clk < 18 /\ Exchange(Zero, FALSE)
        /\ UNCHANGED <<Slave, mpc, ord, wire>>
    <2>1. SyncLen = 18
      BY DEF SyncLen, MAX_DATA_LENGTH
    <2>2. QED
      BY <2>1, Zenon DEF spi_sync
  <1>2. /\ clk' = clk + 1 /\ spif' = TRUE /\ reg' \in Byte
        /\ rx' \in Seq(Byte) /\ Len(rx') =< clk + 1
        /\ clean' \in BOOLEAN /\ faults' \in 0 .. MaxFaults
        /\ UNCHANGED <<phase, cs, at, buf, restarts, executed>>
        /\ clean' => clean /\ ~spif /\ reg' = Zero
    BY <1>1, ExchangeResult, Bytes DEF IInv, slave
  <1>3. TypeOK'
    BY <1>1, <1>2 DEF IInv, TypeOK
  <1>4. Shape'
    <2>1. SyncLen = 18 /\ clk' =< 18
      <3>1. clk \in 0 .. 19
        BY DEF IInv, TypeOK
      <3>2. clk' =< 18
        BY <1>1, <1>2, <3>1
      <3>3. QED
        BY <3>2 DEF SyncLen, MAX_DATA_LENGTH
    <2>2. /\ phase = "data" => write(Slave, cs_cmd(cs)) /\ at =< 3
          /\ phase \in {"sum", "ret"} => Long
      BY DEF IInv, Shape
    <2>3. mpc' = "sync"
      BY <1>1
    <2>4. (SyncLen = 18)'
      BY <2>1 DEF SyncLen
    <2>5. QED
      BY <1>1, <1>2, <2>1, <2>2, <2>3, <2>4 DEF Shape, Long
  <1>5. Syncing'
    <2> SUFFICES ASSUME clean' PROVE (phase # "cmd" => Rest - Pending + clk =< Most)'
      BY <1>2 DEF Syncing
    <2>1. Rest' = Rest /\ Most' = Most /\ Pending = 0 /\ Pending' = 1
      BY <1>1, <1>2 DEF Rest, Most, Pending, Long
    <2>2. phase # "cmd" => Rest - Pending + clk =< Most
      BY <1>1, <1>2 DEF IInv, Syncing
    <2>3. Rest \in Int /\ Most \in Int /\ clk \in Int
      BY DEF Rest, Most, IInv, TypeOK
    <2>4. QED
      BY <1>2, <2>1, <2>2, <2>3
  <1>6. Resting' /\ Exchanging'
    BY <1>1 DEF Resting, Exchanging, AnyRun, WriteRun, ReadRun, PlainRun, GetRun, Running
  <1>7. QED
    BY <1>3, <1>4, <1>5, <1>6 DEF IInv

(* A byte of transmit or receive.  Without a fault the slave has fetched   *)
(* the byte before, so its register holds what the master is to get.       *)
LEMMA TranceiveShape ==
    ASSUME IInv, tranceive, UNCHANGED Slave
    PROVE  /\ TypeOK' /\ Shape'
           /\ mpc = "run" /\ UNCHANGED <<Slave, mpc, ord, phase, cs, at, buf, executed>>
           /\ clk \in Nat /\ clk' = clk + 1 /\ spif' = TRUE /\ wire' = ord
           /\ ord \in Orders[Slave] /\ Slave \in Slaves
           /\ clk < (IF Write(ord) THEN 6 ELSE DataLen(ord) + 3)
           /\ clean' => /\ clean /\ ~spif /\ reg' = TxByte(ord, clk + 1)
                        /\ rx' = (IF Keep(ord, clk + 1) THEN Append(rx, reg) ELSE rx)
  <1>1. /\ mpc = "run" /\ ~Complete /\ wire' = ord /\ UNCHANGED <<Slave, mpc, ord>>
        /\ Exchange(TxByte(ord, clk + 1), Keep(ord, clk + 1))
    BY DEF tranceive
  <1>2. /\ ord \in Orders[Slave] /\ Slave \in Slaves /\ clk \in Nat
        /\ clk =< (IF Write(ord) THEN 6 ELSE DataLen(ord) + 3)
    BY <1>1 DEF IInv, Shape, TypeOK
  <1>3. TxByte(ord, clk + 1) \in Byte
    BY <1>2, TxBytes
  <1>4. DataLen(ord) \in {0, 4, 16} /\ (Write(ord) => DataLen(ord) = 4)
    BY Lengths DEF DataLen, Write
  <1>5. Keep(ord, clk + 1) \in BOOLEAN
    BY <1>2, <1>4 DEF Keep
  <1>6. clk < (IF Write(ord) THEN 6 ELSE DataLen(ord) + 3)
    BY <1>1, <1>2, <1>4 DEF Complete
  <1>7. /\ clk' = clk + 1 /\ spif' = TRUE /\ reg' \in Byte
        /\ rx' \in Seq(Byte) /\ Len(rx') =< clk + 1
        /\ clean' \in BOOLEAN /\ faults' \in 0 .. MaxFaults
        /\ UNCHANGED <<phase, cs, at, buf, restarts, executed>>
        /\ clean' => /\ clean /\ ~spif /\ reg' = TxByte(ord, clk + 1)
                     /\ rx' = (IF Keep(ord, clk + 1) THEN Append(rx, reg) ELSE rx)
    BY <1>1, <1>3, <1>5, ExchangeResult DEF IInv, slave
  <1>8. clk' \in 0 .. 19 /\ clk' =< (IF Write(ord) THEN 6 ELSE DataLen(ord) + 3)
    <2>1. clk \in Nat /\ clk' = clk + 1
      BY <1>2, <1>7
    <2>2. CASE Write(ord)
      <3>1. clk < 6
        BY <1>6, <2>2
      <3>2. QED
        BY <2>1, <2>2, <3>1
    <2>3. CASE ~Write(ord)
      <3>1. clk < DataLen(ord) + 3
        BY <1>6, <2>3
      <3>2. DataLen(ord) \in {0, 4, 16}
        BY <1>4
      <3>3. QED
        BY <2>1, <2>3, <3>1, <3>2
    <2>4. QED
      BY <2>2, <2>3
  <1>9. TypeOK'
    BY <1>1, <1>2, <1>7, <1>8 DEF IInv, TypeOK
  <1>10. Write(ord)' = Write(ord) /\ DataLen(ord)' = DataLen(ord) /\ clk' # 0
    BY <1>1, <1>2, <1>7 DEF Write, DataLen
  <1>11. Shape'
    BY <1>1, <1>2, <1>7, <1>8, <1>10 DEF IInv, Shape, Long
  <1>12. QED
    BY <1>1, <1>2, <1>6, <1>7, <1>9, <1>11

(* The master clocks a byte of an exchange. *)
LEMMA TranceiveKeeps ==
    ASSUME IInv, tranceive, UNCHANGED Slave
    PROVE  IInv'
  <1>1. /\ TypeOK' /\ Shape'
        /\ mpc = "run" /\ UNCHANGED <<Slave, mpc, ord, phase, cs, at, buf, executed>>
        /\ clk \in Nat /\ clk' = clk + 1 /\ spif' = TRUE /\ wire' = ord
        /\ ord \in Orders[Slave] /\ Slave \in Slaves
        /\ clk < (IF Write(ord) THEN 6 ELSE DataLen(ord) + 3)
        /\ clean' => /\ clean /\ ~spif /\ reg' = TxByte(ord, clk + 1)
                     /\ rx' = (IF Keep(ord, clk + 1) THEN Append(rx, reg) ELSE rx)
    BY TranceiveShape
  <1>2. Syncing' /\ Resting'
    BY <1>1 DEF Syncing, Resting
  <1>3. ASSUME clean'
        PROVE  Exchanging'
    <2>1. /\ clean /\ ~spif /\ reg' = TxByte(ord, clk + 1)
          /\ rx' = (IF Keep(ord, clk + 1) THEN Append(rx, reg) ELSE rx)
      BY <1>1, <1>3
    <2>2. Fetched = clk /\ Fetched' = clk
      BY <1>1, <2>1 DEF Fetched, Pending
    <2>3. clk = 0 => phase = "cmd" /\ rx = <<>>
      BY <1>1, <2>1 DEF IInv, Shape, Resting, Between
    <2>4. clk > 0 => Running
      BY <1>1, <2>1 DEF Running
    <2>5. /\ DataLen(ord) \in {0, 4, 16} /\ (Write(ord) => DataLen(ord) = 4)
          /\ Write(ord)' = Write(ord) /\ GetOrder' = GetOrder /\ ACK(Slave)' = ACK(Slave)
          /\ (GetOrder => DataLen(ord) = 16 /\ ~Write(ord))
          /\ (~GetOrder /\ ~Write(ord) => DataLen(ord) = 0)
      BY <1>1, Lengths DEF DataLen, Write, GetOrder
    <2>6. rx \in Seq(Byte) /\ reg \in Byte
      BY DEF IInv, TypeOK
    <2>7. /\ Len(Append(rx, reg)) = Len(rx) + 1 /\ Len(rx) \in Nat
          /\ Append(rx, reg)[Len(rx) + 1] = reg
          /\ \A i \in 1 .. Len(rx) : Append(rx, reg)[i] = rx[i]
      BY <2>6, AppendProperties, LenProperties
    <2>8. AnyRun'
      <3>1. TxByte(ord, clk)' = TxByte(ord, clk + 1)
        BY <1>1 DEF TxByte, Write, DataLen
      <3>2. Fetched = 0 => phase = "cmd"
        BY <2>2, <2>3
      <3>3. QED
        BY <1>1, <2>1, <2>2, <3>1, <3>2 DEF AnyRun
    <2>9. WriteRun'
      <3> SUFFICES ASSUME Write(ord)
                   PROVE  /\ rx' = (IF clk' = 6 THEN <<ACK(Slave)>> ELSE <<>>)
                          /\ Fetched \in 1 .. 5 => cs = B(ord.cmd, ord.cmd)
                          /\ Fetched \in 1 .. 4 =>
                               /\ phase = "data" /\ at = Fetched - 1
                               /\ \A i \in 1 .. Fetched - 1 : buf[i] = ord.data[i]
                          /\ Fetched = 5 => phase = "ack" /\ buf = ord.data
                          /\ Fetched # 6
        BY <1>1, <2>2, <2>5 DEF WriteRun
      <3>1. clk > 0 =>
              /\ rx = <<>>
              /\ Fetched \in 1 .. 5 => cs = B(ord.cmd, ord.cmd)
              /\ Fetched \in 1 .. 4 => /\ phase = "data" /\ at = Fetched - 1
                                       /\ \A i \in 1 .. Fetched - 1 : buf[i] = ord.data[i]
              /\ Fetched = 5 => phase = "ack" /\ buf = ord.data /\ reg = ACK(Slave)
        BY <1>1, <2>1, <2>4 DEF IInv, Exchanging, WriteRun
      <3>2. rx = <<>>
        BY <1>1, <2>3, <3>1
      <3>3. Keep(ord, clk + 1) <=> clk = 5
        BY <1>1, <2>5 DEF Keep
      <3>4. rx' = (IF clk' = 6 THEN <<ACK(Slave)>> ELSE <<>>)
        BY <1>1, <2>1, <2>2, <3>1, <3>2, <3>3
      <3>5. QED
        BY <1>1, <2>2, <3>1, <3>4
    <2>10. ~Write(ord) => /\ Len(rx) = (IF clk >= 2 THEN clk - 1 ELSE 0)
                          /\ Len(rx') = (IF clk' >= 2 THEN clk' - 1 ELSE 0)
                          /\ clk >= 1 => rx' = Append(rx, reg)
      <3> SUFFICES ASSUME ~Write(ord)
                   PROVE  /\ Len(rx) = (IF clk >= 2 THEN clk - 1 ELSE 0)
                          /\ Len(rx') = (IF clk' >= 2 THEN clk' - 1 ELSE 0)
                          /\ clk >= 1 => rx' = Append(rx, reg)
        OBVIOUS
      <3>1. Len(rx) = (IF clk >= 2 THEN clk - 1 ELSE 0)
        BY <1>1, <2>3, <2>4 DEF IInv, Exchanging, ReadRun
      <3>2. Keep(ord, clk + 1) <=> clk >= 1
        BY <1>1 DEF Keep
      <3>3. QED
        BY <1>1, <2>1, <2>7, <3>1, <3>2
    <2>11. ReadRun'
      <3> SUFFICES ASSUME ~Write(ord)
                   PROVE  /\ Len(rx') = (IF clk' >= 2 THEN clk' - 1 ELSE 0)
                          /\ clk' >= 2 => rx'[1] = ACK(Slave)
                          /\ Fetched = 1 => phase = "ack" /\ cs = B(ord.cmd, ord.cmd)
        BY <1>1, <2>2, <2>5 DEF ReadRun
      <3>1. clk > 0 =>
              /\ clk >= 2 => rx[1] = ACK(Slave)
              /\ Fetched = 1 => phase = "ack" /\ cs = B(ord.cmd, ord.cmd) /\ reg = ACK(Slave)
        BY <2>1, <2>4 DEF IInv, Exchanging, ReadRun
      <3>2. clk' >= 2 => rx'[1] = ACK(Slave)
        BY <1>1, <2>2, <2>7, <2>10, <3>1
      <3>3. QED
        BY <1>1, <2>2, <2>10, <3>1, <3>2
    <2>12. PlainRun'
      <3> SUFFICES ASSUME ~Write(ord), ~GetOrder
                   PROVE  /\ Fetched \in {2, 3} => phase = "cmd" /\ executed = ord
                          /\ clk' >= 3 /\ Slave = "sens" => rx'[2] = Zero
        BY <1>1, <2>2, <2>5 DEF PlainRun
      <3>1. clk > 0 =>
              /\ Fetched \in {2, 3} => phase = "cmd" /\ executed = ord
              /\ Fetched = 2 /\ Slave = "sens" => reg = Zero
        BY <2>1, <2>4 DEF IInv, Exchanging, PlainRun
      <3>2. clk < 3
        BY <1>1, <2>5
      <3>3. clk' >= 3 => clk = 2 /\ Len(rx) = 1 /\ rx' = Append(rx, reg)
        <4>1. /\ Len(rx) = (IF clk >= 2 THEN clk - 1 ELSE 0)
              /\ clk >= 1 => rx' = Append(rx, reg)
          BY <2>10, Zenon
        <4>2. clk' = clk + 1 /\ clk \in Nat
          BY <1>1
        <4>3. QED
          BY <3>2, <4>1, <4>2
      <3>4. Fetched \in {2, 3} => phase = "cmd" /\ executed = ord
        BY <1>1, <2>2, <3>1
      <3>5. ASSUME clk' >= 3, Slave = "sens" PROVE rx'[2] = Zero
        <4>1. clk = 2 /\ Len(rx) = 1 /\ rx' = Append(rx, reg)
          BY <3>3, <3>5
        <4>2. reg = Zero
          BY <2>2, <3>1, <3>5, <4>1
        <4>3. QED
          BY <2>7, <4>1, <4>2
      <3>6. QED
        BY <3>4, <3>5
    <2>13. GetRun'
      <3> SUFFICES ASSUME GetOrder
                   PROVE  /\ Fetched \in 1 .. 18 => Long
                          /\ Fetched = 2 => phase = "sum"
                          /\ Fetched \in 3 .. 18 => phase = "ret" /\ at = Fetched - 3
                          /\ Fetched # 19
                          /\ clk' >= 3 => rx'[2] = B(GET, GET)
                          /\ \A i \in 3 .. clk' - 1 : rx'[i] = Sensors[i - 2]
        BY <1>1, <2>2, <2>5 DEF GetRun, Long
      <3>1. clk > 0 =>
              /\ Fetched \in 1 .. 18 => Long
              /\ Fetched = 2 => phase = "sum" /\ reg = B(GET, GET)
              /\ Fetched \in 3 .. 18 =>
                   phase = "ret" /\ at = Fetched - 3 /\ reg = Sensors[Fetched - 2]
              /\ clk >= 3 => rx[2] = B(GET, GET)
              /\ \A i \in 3 .. clk - 1 : rx[i] = Sensors[i - 2]
        BY <2>1, <2>4 DEF IInv, Exchanging, GetRun
      <3>2. clk < 19
        BY <1>1, <2>5
      <3>3. clk >= 2 => Len(rx) = clk - 1 /\ rx' = Append(rx, reg) /\ rx'[clk] = reg
        BY <1>1, <2>5, <2>7, <2>10
      <3>4. ASSUME clk' >= 3 PROVE rx'[2] = B(GET, GET)
        <4>1. clk \in Nat /\ clk >= 2
          BY <1>1, <3>4
        <4>2. CASE clk = 2
          BY <2>2, <3>1, <3>3, <4>2
        <4>3. CASE clk > 2
          <5>1. rx[2] = B(GET, GET) /\ Len(rx) = clk - 1 /\ rx' = Append(rx, reg)
            BY <3>1, <3>3, <4>1, <4>3
          <5>2. 2 \in 1 .. Len(rx)
            BY <4>1, <4>3, <5>1
          <5>3. QED
            BY <2>7, <5>1, <5>2
        <4>4. QED
          BY <4>1, <4>2, <4>3
      <3>5. ASSUME NEW i \in 3 .. clk' - 1 PROVE rx'[i] = Sensors[i - 2]
        <4>1. i = clk \/ i \in 3 .. clk - 1
          BY <1>1, <3>5
        <4>2. CASE i = clk
          BY <1>1, <2>2, <3>1, <3>2, <3>3, <4>2
        <4>3. CASE i \in 3 .. clk - 1
          <5>1. clk \in Nat /\ clk >= 2
            BY <1>1, <4>3
          <5>2. Len(rx) = clk - 1 /\ rx' = Append(rx, reg) /\ rx[i] = Sensors[i - 2]
            BY <3>1, <3>3, <4>3, <5>1
          <5>3. i \in 1 .. Len(rx)
            BY <4>3, <5>1, <5>2
          <5>4. Append(rx, reg)[i] = rx[i]
            BY <2>7, <5>3
          <5>5. QED
            BY <5>2, <5>4
        <4>4. QED
          BY <4>1, <4>2, <4>3
      <3>6. QED
        BY <1>1, <2>2, <3>1, <3>2, <3>4, <3>5
    <2>14. QED
      BY <2>8, <2>9, <2>11, <2>12, <2>13 DEF Exchanging
  <1>4. ~clean' => Exchanging'
    BY DEF Exchanging, AnyRun, WriteRun, ReadRun, PlainRun, GetRun, Running
  <1>5. QED
    BY <1>1, <1>2, <1>3, <1>4 DEF IInv

(***************************************************************************)
(* The slave.                                                              *)
(***************************************************************************)

(* Where the slave is in the exchange of ord after n bytes. *)
Place(n) ==
    \/ n = 0 /\ phase = "cmd"
    \/ /\ Write(ord) /\ n \in 1 .. 4
       /\ phase = "data" /\ at = n - 1 /\ cs = B(ord.cmd, ord.cmd)
       /\ \A i \in 1 .. n - 1 : buf[i] = ord.data[i]
    \/ /\ Write(ord) /\ n = 5
       /\ phase = "ack" /\ cs = B(ord.cmd, ord.cmd) /\ buf = ord.data
       /\ ~spif => reg = ACK(Slave)
    \/ Write(ord) /\ n = 6 /\ phase = "cmd" /\ executed = ord
    \/ /\ ~Write(ord) /\ n = 1
       /\ phase = "ack" /\ cs = B(ord.cmd, ord.cmd)
       /\ ~spif => reg = ACK(Slave)
    \/ /\ ~Write(ord) /\ ~GetOrder /\ n \in {2, 3}
       /\ phase = "cmd" /\ executed = ord
       /\ n = 2 /\ ~spif /\ Slave = "sens" => reg = Zero
    \/ /\ GetOrder /\ n = 2
       /\ phase = "sum" /\ Long
       /\ ~spif => reg = B(GET, GET)
    \/ /\ GetOrder /\ n \in 3 .. 18
       /\ phase = "ret" /\ Long /\ at = n - 3
       /\ ~spif => reg = Sensors[n - 2]
    \/ GetOrder /\ n = 19 /\ phase = "cmd"

(* The invariant knows the place before the slave fetches a byte, *)
LEMMA PlaceBefore ==
    ASSUME IInv, spif, Running
    PROVE  /\ Place(clk - 1) /\ clk \in 1 .. 19 /\ reg = TxByte(ord, clk) /\ wire = ord
           /\ ord \in Orders[Slave] /\ Slave \in Slaves
           /\ clk =< (IF Write(ord) THEN 6 ELSE DataLen(ord) + 3)
  <1>1. /\ mpc = "run" /\ clean /\ clk > 0 /\ clk \in 0 .. 19 /\ Slave \in Slaves
        /\ ord \in Orders[Slave] /\ clk =< (IF Write(ord) THEN 6 ELSE DataLen(ord) + 3)
    BY DEF Running, IInv, TypeOK, Shape
  <1>2. clk \in 1 .. 19 /\ Fetched = clk - 1
    BY <1>1 DEF Fetched, Pending
  <1>3. wire = ord /\ reg = TxByte(ord, clk) /\ (clk - 1 = 0 => phase = "cmd")
    BY <1>2 DEF IInv, Exchanging, AnyRun
  <1>4. /\ GetOrder => DataLen(ord) = 16 /\ ~Write(ord)
        /\ ~GetOrder /\ ~Write(ord) => DataLen(ord) = 0
    BY Lengths DEF DataLen, Write, GetOrder
  <1>5. ASSUME clk = 1 PROVE Place(clk - 1)
    BY <1>3, <1>5 DEF Place
  <1>6. ASSUME clk > 1 /\ Write(ord) PROVE Place(clk - 1)
    <2>1. /\ clk - 1 \in 1 .. 5 => cs = B(ord.cmd, ord.cmd)
          /\ clk - 1 \in 1 .. 4 => /\ phase = "data" /\ at = clk - 1 - 1
                                   /\ \A i \in 1 .. clk - 1 - 1 : buf[i] = ord.data[i]
          /\ clk - 1 = 5 => phase = "ack" /\ buf = ord.data
      BY <1>2, <1>6 DEF IInv, Exchanging, WriteRun
    <2>2. clk - 1 \in 1 .. 4 \/ clk - 1 = 5
      BY <1>1, <1>6
    <2>3. CASE clk - 1 \in 1 .. 4
      BY <1>6, <2>1, <2>3 DEF Place
    <2>4. CASE clk - 1 = 5
      BY <1>6, <2>1, <2>4 DEF Place
    <2>5. QED
      BY <2>2, <2>3, <2>4
  <1>7. ASSUME clk = 2 /\ ~Write(ord) PROVE Place(clk - 1)
    <2>1. phase = "ack" /\ cs = B(ord.cmd, ord.cmd)
      BY <1>2, <1>7 DEF IInv, Exchanging, ReadRun
    <2>2. QED
      BY <1>7, <2>1 DEF Place
  <1>8. ASSUME clk > 2 /\ ~Write(ord) /\ ~GetOrder PROVE Place(clk - 1)
    <2>1. clk = 3
      BY <1>1, <1>4, <1>8
    <2>2. phase = "cmd" /\ executed = ord
      BY <1>2, <1>8, <2>1 DEF IInv, Exchanging, PlainRun
    <2>3. QED
      BY <1>8, <2>1, <2>2 DEF Place
  <1>9. ASSUME clk > 2 /\ GetOrder PROVE Place(clk - 1)
    <2>1. /\ Long
          /\ clk - 1 = 2 => phase = "sum"
          /\ clk - 1 \in 3 .. 18 => phase = "ret" /\ at = clk - 1 - 3
      BY <1>2, <1>9 DEF IInv, Exchanging, GetRun
    <2>2. clk - 1 = 2 \/ clk - 1 \in 3 .. 18
      BY <1>2, <1>9
    <2>3. QED
      BY <1>9, <2>1, <2>2 DEF Place
  <1>10. Place(clk - 1)
    BY <1>2, <1>5, <1>6, <1>7, <1>8, <1>9
  <1>11. QED
    BY <1>1, <1>2, <1>3, <1>10

(* and holds again once the slave is at the place after it. *)
LEMMA PlaceAfter ==
    ASSUME IInv, spif, spif' = FALSE,
           UNCHANGED <<Slave, mpc, ord, clk, rx, clean, wire>>,
           Running => Place(clk)'
    PROVE  Exchanging'
  <1>1. CASE ~Running
    BY <1>1 DEF Running, Exchanging, AnyRun, WriteRun, ReadRun, PlainRun, GetRun
  <1>2. CASE Running
    <2>1. /\ Fetched' = clk /\ clk' = clk /\ clk \in 1 .. 19 /\ wire = ord
          /\ clk =< (IF Write(ord) THEN 6 ELSE DataLen(ord) + 3)
      BY <1>2, PlaceBefore DEF Fetched, Pending
    <2>2. /\ GetOrder => DataLen(ord) = 16 /\ ~Write(ord)
          /\ ~GetOrder /\ ~Write(ord) => DataLen(ord) = 0
          /\ GetOrder' = GetOrder /\ Write(ord)' = Write(ord) /\ ACK(Slave)' = ACK(Slave)
      BY Lengths DEF DataLen, Write, GetOrder
    <2>3. AnyRun'
      BY <2>1 DEF AnyRun
    <2>4. WriteRun'
      <3> SUFFICES ASSUME Write(ord) PROVE WriteRun'
        BY <2>2 DEF WriteRun
      <3>1. rx = (IF clk = 6 THEN <<ACK(Slave)>> ELSE <<>>)
        BY <1>2 DEF IInv, Exchanging, WriteRun
      <3>2. \/ /\ clk \in 1 .. 4 /\ phase' = "data" /\ at' = clk - 1 /\ cs' = B(ord.cmd, ord.cmd)
               /\ \A i \in 1 .. clk - 1 : buf'[i] = ord.data[i]
            \/ clk = 5 /\ phase' = "ack" /\ cs' = B(ord.cmd, ord.cmd) /\ buf' = ord.data
                       /\ reg' = ACK(Slave)
            \/ clk = 6 /\ phase' = "cmd" /\ executed' = ord
        BY <1>2, <2>1, <2>2 DEF Place
      <3>3. QED
        BY <2>1, <2>2, <3>1, <3>2 DEF WriteRun
    <2>5. ReadRun'
      <3> SUFFICES ASSUME ~Write(ord) PROVE ReadRun'
        BY <2>2 DEF ReadRun
      <3>1. Len(rx) = (IF clk >= 2 THEN clk - 1 ELSE 0) /\ (clk >= 2 => rx[1] = ACK(Slave))
        BY <1>2 DEF IInv, Exchanging, ReadRun
      <3>2. clk = 1 => phase' = "ack" /\ cs' = B(ord.cmd, ord.cmd) /\ reg' = ACK(Slave)
        BY <1>2, <2>1, <2>2 DEF Place
      <3>3. QED
        BY <2>1, <2>2, <3>1, <3>2 DEF ReadRun
    <2>6. PlainRun'
      <3> SUFFICES ASSUME ~Write(ord), ~GetOrder PROVE PlainRun'
        BY <2>2 DEF PlainRun
      <3>1. clk >= 3 /\ Slave = "sens" => rx[2] = Zero
        BY <1>2 DEF IInv, Exchanging, PlainRun
      <3>2. /\ clk \in {2, 3} => phase' = "cmd" /\ executed' = ord
            /\ clk = 2 /\ Slave = "sens" => reg' = Zero
        BY <1>2, <2>1, <2>2 DEF Place
      <3>3. QED
        BY <2>1, <3>1, <3>2 DEF PlainRun
    <2>7. GetRun'
      <3> SUFFICES ASSUME GetOrder PROVE GetRun'
        BY <2>2 DEF GetRun
      <3>1. /\ clk >= 3 => rx[2] = B(GET, GET)
            /\ \A i \in 3 .. clk - 1 : rx[i] = Sensors[i - 2]
        BY <1>2 DEF IInv, Exchanging, GetRun
      <3>2. \/ clk = 1 /\ cs' = B(ord.cmd, ord.cmd)
            \/ clk = 2 /\ phase' = "sum" /\ Long' /\ reg' = B(GET, GET)
            \/ clk \in 3 .. 18 /\ phase' = "ret" /\ Long' /\ at' = clk - 3 /\ reg' = Sensors[clk - 2]
            \/ clk = 19 /\ phase' = "cmd"
        BY <1>2, <2>1, <2>2 DEF Place
      <3>3. clk \in 1 .. 18 => Long'
        BY <3>2, Bytes DEF Long, GetOrder
      <3>4. QED
        BY <2>1, <3>1, <3>2, <3>3 DEF GetRun
    <2>8. QED
      BY <2>3, <2>4, <2>5, <2>6, <2>7 DEF Exchanging
  <1>3. QED
    BY <1>1, <1>2

(* A slave that waits for a command and a byte that is not fetched cannot  *)
(* be in the way of anything.                                              *)
LEMMA AwaitRests ==
    ASSUME IInv, spif, spif' = FALSE, phase' = "cmd",
           UNCHANGED <<Slave, mpc, ord, clk, rx, clean, wire>>
    PROVE  Shape' /\ Syncing' /\ Resting'
  <1>1. Shape'
    BY DEF IInv, Shape, Write, DataLen, SyncLen
  <1>2. Syncing'
    BY DEF Syncing
  <1>3. Between'
    BY DEF Between
  <1>4. QED
    BY <1>1, <1>2, <1>3 DEF Resting

(* What Await leaves in the register. *)
LEMMA AwaitByte ==
    ASSUME IInv, Await
    PROVE  /\ phase' = "cmd" /\ UNCHANGED <<cs, at>> /\ reg' \in Byte
           /\ Slave = "sens" => reg' = reg
  BY LinkAssumption DEF Await, IInv, TypeOK

(* spi_accept fetches the command byte. *)
LEMMA AcceptCmdKeeps ==
    ASSUME IInv, accept_cmd, UNCHANGED Slave
    PROVE  IInv'
  <1>1. /\ phase = "cmd" /\ spif /\ spif' = FALSE
        /\ UNCHANGED <<Slave, buf, mpc, ord, clk, rx, clean, faults, restarts, wire, executed>>
    BY DEF accept_cmd, Fetch, master, history
  <1>2. CASE ~valid(Slave, cs_cmd(reg))
    <2>1. Await
      BY <1>2 DEF accept_cmd
    <2>2. TypeOK'
      BY <1>1, <2>1, AwaitByte DEF IInv, TypeOK
    <2>3. Shape' /\ Syncing' /\ Resting'
      BY <1>1, <2>1, AwaitByte, AwaitRests
    <2>4. Running => Place(clk)'
      <3> SUFFICES ASSUME Running PROVE Place(clk)'
        OBVIOUS
      <3>1. /\ Place(clk - 1) /\ clk \in 1 .. 19 /\ reg = TxByte(ord, clk)
            /\ ord \in Orders[Slave] /\ Slave \in Slaves
            /\ clk =< (IF Write(ord) THEN 6 ELSE DataLen(ord) + 3)
        BY <1>1, PlaceBefore
      <3>2. clk # 1
        BY <1>2, <3>1, TxBytes, OrderFacts
      <3>3. /\ GetOrder => DataLen(ord) = 16 /\ ~Write(ord)
            /\ ~GetOrder /\ ~Write(ord) => DataLen(ord) = 0
        BY Lengths DEF DataLen, Write, GetOrder
      <3>4. clk = 3 /\ ~Write(ord) /\ ~GetOrder /\ executed = ord
        BY <1>1, <3>1, <3>2, <3>3 DEF Place
      <3>5. QED
        BY <1>1, <2>1, <3>4, AwaitByte DEF Place, Write, GetOrder
    <2>5. Exchanging'
      BY <1>1, <2>4, PlaceAfter
    <2>6. QED
      BY <2>2, <2>3, <2>5 DEF IInv
  <1>3. CASE valid(Slave, cs_cmd(reg))
    <2>1. /\ cs' = reg /\ at' = 0
          /\ IF write(Slave, cs_cmd(reg)) THEN phase' = "data" /\ reg' = buf[1]
             ELSE phase' = "ack" /\ reg' = ACK(Slave)
      BY <1>3 DEF accept_cmd
    <2>2. TypeOK'
      <3>1. buf[1] \in Byte
        BY ElementOfSeq DEF IInv, TypeOK
      <3>2. reg' \in Byte
        BY <2>1, <3>1, Bytes
      <3>3. phase' \in {"cmd", "data", "ack", "sum", "ret"}
        BY <2>1
      <3>4. cs' \in Byte /\ at' \in 0 .. 15
        BY <2>1 DEF IInv, TypeOK
      <3>5. QED
        BY <1>1, <3>2, <3>3, <3>4 DEF IInv, TypeOK
    <2>3. Shape'
      BY <1>1, <2>1 DEF IInv, Shape, Write, DataLen, SyncLen
    <2>4. Syncing'
      <3> SUFFICES ASSUME mpc = "sync", clean PROVE (Rest - Pending + clk =< Most)'
        BY <1>1 DEF Syncing
      <3>1. clk = 0
        BY <1>1, <1>3, ZeroInvalid DEF IInv, Syncing, TypeOK
      <3>2. Pending' = 0
        BY <1>1 DEF Pending
      <3>3. clk' = 0
        BY <1>1, <3>1
      <3>4. QED
        BY <2>1, <3>2, <3>3 DEF Rest, Most
    <2>5. Resting'
      BY <1>1, <1>3 DEF IInv, Resting, Between
    <2>6. Running => Place(clk)'
      <3> SUFFICES ASSUME Running PROVE Place(clk)'
        OBVIOUS
      <3>1. /\ Place(clk - 1) /\ clk \in 1 .. 19 /\ reg = TxByte(ord, clk)
            /\ ord \in Orders[Slave] /\ Slave \in Slaves
            /\ clk =< (IF Write(ord) THEN 6 ELSE DataLen(ord) + 3)
        BY <1>1, PlaceBefore
      <3>2. /\ GetOrder => DataLen(ord) = 16 /\ ~Write(ord)
            /\ ~GetOrder /\ ~Write(ord) => DataLen(ord) = 0
        BY Lengths DEF DataLen, Write, GetOrder
      <3>3. clk = 1 \/ (clk = 3 /\ ~Write(ord))
        BY <1>1, <3>1, <3>2 DEF Place
      <3>4. clk = 3 /\ ~Write(ord) => reg = Zero
        BY <3>1, TxBytes
      <3>5. clk = 1
        BY <1>3, <3>3, <3>4, ZeroInvalid
      <3>6. reg = B(ord.cmd, ord.cmd) /\ cs_cmd(reg) = ord.cmd
        BY <3>1, <3>5, TxBytes
      <3>7. CASE Write(ord)
        <4>1. phase' = "data" /\ at' = 0 /\ cs' = B(ord.cmd, ord.cmd)
          BY <2>1, <3>6, <3>7 DEF Write
        <4>2. QED
          BY <1>1, <3>5, <3>7, <4>1 DEF Place, Write
      <3>8. CASE ~Write(ord)
        <4>1. phase' = "ack" /\ reg' = ACK(Slave) /\ cs' = B(ord.cmd, ord.cmd)
          BY <2>1, <3>6, <3>8 DEF Write
        <4>2. QED
          BY <1>1, <3>5, <3>8, <4>1 DEF Place, Write
      <3>9. QED
        BY <3>7, <3>8
    <2>7. Exchanging'
      BY <1>1, <2>6, PlaceAfter
    <2>8. QED
      BY <2>2, <2>3, <2>4, <2>5, <2>7 DEF IInv
  <1>4. QED
    BY <1>2, <1>3

(* spi_accept fetches the byte that carried the ack. *)
LEMMA AcceptAckKeeps ==
    ASSUME IInv, accept_ack, UNCHANGED Slave
    PROVE  IInv'
  <1>1. /\ phase = "ack" /\ spif /\ spif' = FALSE
        /\ UNCHANGED <<Slave, buf, mpc, ord, clk, rx, clean, faults, restarts, wire>>
    BY DEF accept_ack, Fetch, master
  <1>2. /\ GetOrder => DataLen(ord) = 16 /\ ~Write(ord)
        /\ Write(ord) => Slave = "ctrl"
    BY Lengths DEF DataLen, Write, GetOrder
  <1>3. Running => /\ ord \in Orders[Slave] /\ Slave \in Slaves
                   /\ clk \in 1 .. 19 /\ reg = TxByte(ord, clk)
                   /\ cs_cmd(cs) = ord.cmd
                   /\ (clk = 6 /\ Write(ord) /\ buf = ord.data) \/ (clk = 2 /\ ~Write(ord))
    <2> SUFFICES ASSUME Running PROVE <1>3!2
      OBVIOUS
    <2>1. /\ Place(clk - 1) /\ clk \in 1 .. 19 /\ reg = TxByte(ord, clk)
          /\ ord \in Orders[Slave] /\ Slave \in Slaves
      BY <1>1, PlaceBefore
    <2>2. /\ cs = B(ord.cmd, ord.cmd)
          /\ (clk - 1 = 5 /\ Write(ord) /\ buf = ord.data) \/ (clk - 1 = 1 /\ ~Write(ord))
      BY <1>1, <2>1 DEF Place
    <2>3. QED
      BY <2>1, <2>2, Bytes
  <1>4. CASE Long
    <2>1. phase' = "sum" /\ reg' = B(GET, GET) /\ UNCHANGED <<cs, at, executed>>
      BY <1>4, EvenSum DEF accept_ack, Long
    <2>2. TypeOK'
      <3>1. reg' \in Byte
        BY <2>1, Bytes DEF GET, Nibble
      <3>2. QED
        BY <1>1, <2>1, <3>1 DEF IInv, TypeOK
    <2>3. Long'
      BY <1>1, <1>4, <2>1 DEF Long
    <2>4. Shape'
      BY <1>1, <2>1, <2>3 DEF IInv, Shape, Write, DataLen, SyncLen
    <2>5. Rest = 18 /\ Rest' = 17 /\ Most = 18 /\ Most' = 18 /\ Pending = 1 /\ Pending' = 0
      BY <1>1, <1>4, <2>1, <2>3 DEF Rest, Most, Pending
    <2>6. Syncing'
      <3> SUFFICES ASSUME mpc = "sync", clean PROVE (Rest - Pending + clk =< Most)'
        BY <1>1 DEF Syncing
      <3>1. Rest - Pending + clk =< Most
        BY <1>1 DEF IInv, Syncing
      <3>2. QED
        BY <1>1, <2>5, <3>1
    <2>7. Resting'
      BY <1>1, <2>5 DEF IInv, Resting, Between
    <2>8. Running => Place(clk)'
      <3> SUFFICES ASSUME Running PROVE Place(clk)'
        OBVIOUS
      <3>1. clk = 2 /\ GetOrder
        BY <1>2, <1>3, <1>4 DEF Long, GetOrder
      <3>2. QED
        BY <1>1, <2>1, <2>3, <3>1 DEF Place, GetOrder
    <2>9. Exchanging'
      BY <1>1, <2>8, PlaceAfter
    <2>10. QED
      BY <2>2, <2>4, <2>6, <2>7, <2>9 DEF IInv
  <1>5. CASE ~Long
    <2>1. Await /\ executed' = [cmd |-> cs_cmd(cs), data |-> Value]
      BY <1>5 DEF accept_ack, Long
    <2>2. executed' \in Order
      BY <2>1, Bytes DEF Order, Value, IInv, TypeOK
    <2>3. TypeOK'
      BY <1>1, <2>1, <2>2, AwaitByte DEF IInv, TypeOK
    <2>4. Shape' /\ Syncing' /\ Resting'
      BY <1>1, <2>1, AwaitByte, AwaitRests
    <2>5. Running => Place(clk)'
      <3> SUFFICES ASSUME Running PROVE Place(clk)'
        OBVIOUS
      <3>1. executed' = ord
        <4>1. Value = ord.data
          BY <1>3, OrderFacts DEF Value, Write
        <4>2. QED
          BY <1>3, <2>1, <4>1, OrderFacts
      <3>2. CASE clk = 6 /\ Write(ord)
        BY <1>1, <2>1, <3>2, <3>1, AwaitByte DEF Place, Write
      <3>3. CASE clk = 2 /\ ~Write(ord)
        <4>1. ~GetOrder
          BY <1>3, <1>5 DEF Long, GetOrder
        <4>2. reg = Zero
          BY <1>3, <3>3, TxBytes
        <4>3. QED
          BY <1>1, <2>1, <3>3, <3>1, <4>1, <4>2, AwaitByte DEF Place, Write, GetOrder
      <3>4. QED
        BY <1>3, <3>2, <3>3
    <2>6. Exchanging'
      BY <1>1, <2>5, PlaceAfter
    <2>7. QED
      BY <2>3, <2>4, <2>6 DEF IInv
  <1>6. QED
    BY <1>4, <1>5

(* spi_accept fetches a byte of data. *)
LEMMA AcceptDataKeeps ==
    ASSUME IInv, accept_data, UNCHANGED Slave
    PROVE  IInv'
  <1>1. /\ phase = "data" /\ spif /\ spif' = FALSE
        /\ buf' = [buf EXCEPT ![at + 1] = reg]
        /\ UNCHANGED <<Slave, mpc, ord, clk, rx, clean, faults, restarts, wire, executed>>
    BY DEF accept_data, Fetch, master, history
  <1>2. /\ write(Slave, cs_cmd(cs)) /\ at =< 3 /\ at \in 0 .. 15
        /\ length(Slave, cs_cmd(cs)) = 4 /\ Slave = "ctrl"
        /\ buf \in Seq(Byte) /\ Len(buf) = 4 /\ reg \in Byte
    BY <1>1, Lengths DEF IInv, TypeOK, Shape
  <1>3. /\ buf' \in Seq(Byte) /\ Len(buf') = 4
        /\ \A i \in 1 .. 4 : buf'[i] = IF i = at + 1 THEN reg ELSE buf[i]
    <2>1. at + 1 \in 1 .. Len(buf)
      BY <1>2
    <2>2. buf' \in Seq(Byte) /\ Len(buf') = Len(buf)
      <3>1. PICK k : k = at + 1
        OBVIOUS
      <3>2. /\ [buf EXCEPT ![k] = reg] \in Seq(Byte)
            /\ Len([buf EXCEPT ![k] = reg]) = Len(buf)
        BY <1>2, <2>1, <3>1, ExceptSeq
      <3>3. QED
        BY <1>1, <3>1, <3>2
    <2>3. \A i \in 1 .. Len(buf) : buf'[i] = IF i = at + 1 THEN reg ELSE buf[i]
      BY <1>1, <1>2, <2>1
    <2>4. QED
      BY <1>2, <2>2, <2>3
  <1>4. Running => /\ Write(ord) /\ clk \in 2 .. 5 /\ at = clk - 2 /\ cs = B(ord.cmd, ord.cmd)
                   /\ \A i \in 1 .. at : buf[i] = ord.data[i]
                   /\ reg = ord.data[at + 1]
                   /\ ord.data \in Seq(Byte) /\ Len(ord.data) = 4
    <2> SUFFICES ASSUME Running PROVE <1>4!2
      OBVIOUS
    <2>1. /\ Place(clk - 1) /\ clk \in 1 .. 19 /\ reg = TxByte(ord, clk)
          /\ ord \in Orders[Slave] /\ Slave \in Slaves
      BY <1>1, PlaceBefore
    <2>2. /\ Write(ord) /\ clk - 1 \in 1 .. 4 /\ at = clk - 1 - 1 /\ cs = B(ord.cmd, ord.cmd)
          /\ \A i \in 1 .. clk - 1 - 1 : buf[i] = ord.data[i]
      BY <1>1, <2>1 DEF Place
    <2>3. clk \in 2 .. 5 /\ at = clk - 2
      BY <2>1, <2>2
    <2>4. \A i \in 1 .. at : buf[i] = ord.data[i]
      BY <2>2
    <2>5. ord.data \in Seq(Byte) /\ Len(ord.data) = 4
      BY <2>1, <2>2, OrderFacts
    <2>6. TxByte(ord, clk) = ord.data[clk - 1]
      BY <2>1, <2>2, <2>3, TxBytes
    <2>7. reg = ord.data[at + 1]
      BY <2>1, <2>3, <2>6
    <2>8. QED
      BY <2>2, <2>3, <2>4, <2>5, <2>7
  <1>5. ~Long /\ ~Long' /\ ACK(Slave)' = ACK(Slave)
    BY <1>1, <1>2 DEF Long
  <1>6. Rest = 5 - at /\ Most = 5 /\ Pending = 1 /\ Pending' = 0
    BY <1>1, <1>5 DEF Rest, Most, Pending
  <1>7. Resting'
    <2>1. Rest # 1
      BY <1>2, <1>6
    <2>2. ~Between
      BY <1>1, <2>1 DEF Between
    <2>3. QED
      BY <1>1, <2>2 DEF IInv, Resting
  <1>8. CASE at + 1 < 4
    <2>1. phase' = "data" /\ at' = at + 1 /\ reg' = buf[at + 2] /\ cs' = cs
      BY <1>2, <1>8 DEF accept_data
    <2>2. at + 2 \in 1 .. Len(buf) /\ at' \in 0 .. 15 /\ at' =< 3
      BY <1>2, <1>8, <2>1
    <2>3. reg' \in Byte
      BY <1>2, <2>1, <2>2, ElementOfSeq
    <2>4. TypeOK'
      BY <1>1, <1>3, <2>1, <2>2, <2>3 DEF IInv, TypeOK
    <2>5. Shape'
      BY <1>1, <1>2, <2>1, <2>2 DEF IInv, Shape, Write, DataLen, SyncLen
    <2>6. Syncing'
      <3> SUFFICES ASSUME mpc = "sync", clean PROVE (Rest - Pending + clk =< Most)'
        BY <1>1 DEF Syncing
      <3>1. Rest - Pending + clk =< Most /\ clk \in Nat
        BY <1>1 DEF IInv, Syncing, TypeOK
      <3>2. Rest' = 5 - (at + 1) /\ Most' = 5
        BY <2>1 DEF Rest, Most
      <3>3. QED
        BY <1>1, <1>2, <1>6, <3>1, <3>2
    <2>7. Running => Place(clk)'
      <3> SUFFICES ASSUME Running PROVE Place(clk)'
        OBVIOUS
      <3>1. clk \in 1 .. 4 /\ at' = clk - 1
        BY <1>4, <1>8, <2>1
      <3>2. ASSUME NEW i \in 1 .. clk - 1 PROVE buf'[i] = ord.data[i]
        BY <1>2, <1>3, <1>4, <3>1
      <3>3. Write(ord)' /\ cs' = B(ord.cmd, ord.cmd)
        BY <1>1, <1>4, <2>1 DEF Write
      <3>4. QED
        BY <1>1, <2>1, <3>1, <3>2, <3>3 DEF Place
    <2>8. Exchanging'
      BY <1>1, <2>7, PlaceAfter
    <2>9. QED
      BY <1>7, <2>4, <2>5, <2>6, <2>8 DEF IInv
  <1>9. CASE ~(at + 1 < 4) /\ cs_check(cs, buf', 4)
    <2>1. phase' = "ack" /\ reg' = ACK(Slave) /\ UNCHANGED <<cs, at>> /\ at = 3
      BY <1>2, <1>9 DEF accept_data
    <2>2. reg' \in Byte
      BY <2>1, Bytes
    <2>3. TypeOK'
      BY <1>1, <1>3, <2>1, <2>2 DEF IInv, TypeOK
    <2>4. Shape'
      BY <1>1, <2>1 DEF IInv, Shape, Write, DataLen, SyncLen
    <2>5. Syncing'
      <3> SUFFICES ASSUME mpc = "sync", clean PROVE (Rest - Pending + clk =< Most)'
        BY <1>1 DEF Syncing
      <3>1. Rest - Pending + clk =< Most /\ clk \in Nat
        BY <1>1 DEF IInv, Syncing, TypeOK
      <3>2. Rest' = 1 /\ Most' = 5
        BY <1>5, <2>1 DEF Rest, Most
      <3>3. QED
        BY <1>1, <1>6, <2>1, <3>1, <3>2
    <2>6. Running => Place(clk)'
      <3> SUFFICES ASSUME Running PROVE Place(clk)'
        OBVIOUS
      <3>1. clk = 5
        BY <1>4, <2>1
      <3>2. \A i \in 1 .. 4 : buf'[i] = ord.data[i]
        BY <1>3, <1>4, <2>1
      <3>3. buf' = ord.data
        BY <1>3, <1>4, <3>2, SeqEqual
      <3>4. Write(ord)' /\ cs' = B(ord.cmd, ord.cmd)
        BY <1>1, <1>4, <2>1 DEF Write
      <3>5. QED
        BY <1>1, <1>5, <2>1, <3>1, <3>3, <3>4 DEF Place
    <2>7. Exchanging'
      BY <1>1, <2>6, PlaceAfter
    <2>8. QED
      BY <1>7, <2>3, <2>4, <2>5, <2>7 DEF IInv
  <1>10. CASE ~(at + 1 < 4) /\ ~cs_check(cs, buf', 4)
    <2>1. Await
      BY <1>2, <1>10 DEF accept_data
    <2>2. TypeOK'
      BY <1>1, <1>3, <2>1, AwaitByte DEF IInv, TypeOK
    <2>3. Shape' /\ Syncing' /\ Resting'
      BY <1>1, <2>1, AwaitByte, AwaitRests
    <2>4. ~Running
      <3>1. Running => cs = B(ord.cmd, ord.cmd)
        BY <1>4
      <3>2. calc_sum(ord.cmd, buf', 4) = ord.cmd
        BY EvenSum
      <3>3. QED
        BY <1>10, <3>1, <3>2, Bytes DEF cs_check
    <2>5. Exchanging'
      BY <1>1, <2>4, PlaceAfter
    <2>6. QED
      BY <2>2, <2>3, <2>5 DEF IInv
  <1>11. QED
    BY <1>8, <1>9, <1>10

(* spi_return has sent the checksum. *)
LEMMA ReturnSumKeeps ==
    ASSUME IInv, return_sum, UNCHANGED Slave
    PROVE  IInv'
  <1>1. /\ phase = "sum" /\ spif /\ spif' = FALSE
        /\ phase' = "ret" /\ at' = 0 /\ reg' = Sensors[1]
        /\ UNCHANGED <<Slave, cs, buf, mpc, ord, clk, rx, clean, faults, restarts, wire, executed>>
    BY DEF return_sum, Fetch, master, history
  <1>2. Long /\ Long'
    BY <1>1 DEF IInv, Shape, Long
  <1>3. reg' \in Byte
    <2>1. Sensors \in Seq(Byte) /\ 1 \in 1 .. Len(Sensors)
      BY LinkAssumption
    <2>2. QED
      BY <1>1, <2>1, ElementOfSeq
  <1>4. TypeOK'
    <2>1. at' \in 0 .. 15
      BY <1>1
    <2>2. QED
      BY <1>1, <1>3, <2>1 DEF IInv, TypeOK
  <1>5. Shape'
    BY <1>1, <1>2 DEF IInv, Shape, Write, DataLen, SyncLen
  <1>6. Rest = 17 /\ Rest' = 16 /\ Most = 18 /\ Most' = 18 /\ Pending = 1 /\ Pending' = 0
    BY <1>1 DEF Rest, Most, Pending
  <1>7. Syncing'
    <2> SUFFICES ASSUME mpc = "sync", clean PROVE (Rest - Pending + clk =< Most)'
      BY <1>1 DEF Syncing
    <2>1. Rest - Pending + clk =< Most
      BY <1>1 DEF IInv, Syncing
    <2>2. QED
      BY <1>1, <1>6, <2>1
  <1>8. Resting'
    BY <1>1, <1>6 DEF IInv, Resting, Between
  <1>9. Running => Place(clk)'
    <2> SUFFICES ASSUME Running PROVE Place(clk)'
      OBVIOUS
    <2>1. Place(clk - 1) /\ clk \in 1 .. 19
      BY <1>1, PlaceBefore
    <2>2. clk = 3 /\ GetOrder
      BY <1>1, <2>1 DEF Place
    <2>3. QED
      BY <1>1, <1>2, <2>2 DEF Place, GetOrder
  <1>10. Exchanging'
    BY <1>1, <1>9, PlaceAfter
  <1>11. QED
    BY <1>4, <1>5, <1>7, <1>8, <1>10 DEF IInv

(* spi_return has sent a byte of data. *)
LEMMA ReturnDataKeeps ==
    ASSUME IInv, return_data, UNCHANGED Slave
    PROVE  IInv'
  <1>1. /\ phase = "ret" /\ spif /\ spif' = FALSE
        /\ UNCHANGED <<Slave, buf, mpc, ord, clk, rx, clean, faults, restarts, wire, executed>>
    BY DEF return_data, Fetch, master, history
  <1>2. Long /\ at \in 0 .. 15 /\ Len(Sensors) = 16 /\ Sensors \in Seq(Byte)
    BY <1>1, LinkAssumption DEF IInv, Shape, TypeOK
  <1>3. Running => GetOrder /\ clk \in 4 .. 19 /\ at = clk - 4
    <2> SUFFICES ASSUME Running PROVE <1>3!2
      OBVIOUS
    <2>1. Place(clk - 1) /\ clk \in 1 .. 19
      BY <1>1, PlaceBefore
    <2>2. GetOrder /\ clk - 1 \in 3 .. 18 /\ at = clk - 1 - 3
      BY <1>1, <2>1 DEF Place
    <2>3. QED
      BY <2>1, <2>2
  <1>4. CASE at + 1 < 16
    <2>1. phase' = "ret" /\ at' = at + 1 /\ reg' = Sensors[at + 2] /\ cs' = cs
      BY <1>2, <1>4 DEF return_data
    <2>2. at + 2 \in 1 .. Len(Sensors) /\ at' \in 0 .. 15
      BY <1>2, <1>4, <2>1
    <2>3. reg' \in Byte
      BY <1>2, <2>1, <2>2, ElementOfSeq
    <2>4. TypeOK'
      BY <1>1, <2>1, <2>2, <2>3 DEF IInv, TypeOK
    <2>5. Long'
      BY <1>1, <1>2, <2>1 DEF Long
    <2>6. Shape'
      BY <1>1, <2>1, <2>5 DEF IInv, Shape, Write, DataLen, SyncLen
    <2>7. /\ Rest = 16 - at /\ Rest' = 16 - (at + 1) /\ Most = 18 /\ Most' = 18
          /\ Pending = 1 /\ Pending' = 0
      BY <1>1, <2>1 DEF Rest, Most, Pending
    <2>8. Syncing'
      <3> SUFFICES ASSUME mpc = "sync", clean PROVE (Rest - Pending + clk =< Most)'
        BY <1>1 DEF Syncing
      <3>1. Rest - Pending + clk =< Most /\ clk \in Nat
        BY <1>1 DEF IInv, Syncing, TypeOK
      <3>2. QED
        BY <1>1, <1>2, <2>7, <3>1
    <2>9. Resting'
      <3>1. Rest # 1
        BY <1>2, <1>4, <2>7
      <3>2. ~Between
        BY <1>1, <3>1 DEF Between
      <3>3. QED
        BY <1>1, <3>2 DEF IInv, Resting
    <2>10. Running => Place(clk)'
      <3> SUFFICES ASSUME Running PROVE Place(clk)'
        OBVIOUS
      <3>1. clk \in 3 .. 18 /\ at' = clk - 3 /\ reg' = Sensors[clk - 2]
        BY <1>3, <1>4, <2>1
      <3>2. GetOrder'
        BY <1>1, <1>3 DEF GetOrder
      <3>3. QED
        BY <1>1, <2>1, <2>5, <3>1, <3>2 DEF Place
    <2>11. Exchanging'
      BY <1>1, <2>10, PlaceAfter
    <2>12. QED
      BY <2>4, <2>6, <2>8, <2>9, <2>11 DEF IInv
  <1>5. CASE ~(at + 1 < 16)
    <2>1. Await
      BY <1>2, <1>5 DEF return_data
    <2>2. TypeOK'
      BY <1>1, <2>1, AwaitByte DEF IInv, TypeOK
    <2>3. Shape' /\ Syncing' /\ Resting'
      BY <1>1, <2>1, AwaitByte, AwaitRests
    <2>4. Running => Place(clk)'
      <3> SUFFICES ASSUME Running PROVE Place(clk)'
        OBVIOUS
      <3>1. clk = 19 /\ GetOrder
        BY <1>2, <1>3, <1>5
      <3>2. GetOrder'
        BY <1>1, <3>1 DEF GetOrder
      <3>3. QED
        BY <1>1, <2>1, <3>1, <3>2, AwaitByte DEF Place
    <2>5. Exchanging'
      BY <1>1, <2>4, PlaceAfter
    <2>6. QED
      BY <2>2, <2>3, <2>5 DEF IInv
  <1>6. QED
    BY <1>4, <1>5

(***************************************************************************)
(* The specification.                                                      *)
(***************************************************************************)

(* Every step of either side, and a restart, keeps the invariant. *)
LEMMA NextInvariant == IInv /\ [Next]_vars => IInv'
  <1> SUFFICES ASSUME IInv, [Next]_vars PROVE IInv'
    OBVIOUS
  <1>1. CASE Master
    BY <1>1, StartKeeps, TranceiveKeeps, FinishKeeps, SyncKeeps, SyncDoneKeeps
      DEF Master, MasterStep
  <1>2. CASE Device
    BY <1>2, AcceptCmdKeeps, AcceptDataKeeps, AcceptAckKeeps, ReturnSumKeeps, ReturnDataKeeps
      DEF Device, SlaveStep
  <1>3. CASE Restart
    <2>1. restarts' \in 0 .. MaxRestarts
      BY <1>3, LinkAssumption DEF Restart, restart, IInv, TypeOK
    <2>2. QED
      BY <1>3, <2>1, StartSyncKeeps DEF Restart, restart
  <1>4. CASE UNCHANGED vars
    <2>1. UNCHANGED <<Slave, mpc, ord, clk, rx, phase, cs, at, buf, reg, spif, clean, faults, restarts,
                      wire, executed>>
      BY <1>4 DEF vars, master, slave, line, history
    <2>2. TypeOK' /\ Shape' /\ Syncing'
      BY <2>1 DEF IInv, TypeOK, Shape, Syncing, Long, Rest, Most, Pending, SyncLen, Write, DataLen
    <2>3. Resting'
      BY <2>1 DEF IInv, Resting, Between, Rest, Long, Value
    <2>4. Exchanging'
      BY <2>1 DEF IInv, Exchanging, AnyRun, WriteRun, ReadRun, PlainRun, GetRun, Running, Fetched,
                  Pending, GetOrder, Long, Write, TxByte, DataLen
    <2>5. QED
      BY <2>2, <2>3, <2>4 DEF IInv
  <1>5. QED
    BY <1>1, <1>2, <1>3, <1>4 DEF Next

(* The slave executes in one place, and without a fault that is the order  *)
(* on the line: in an exchange because the invariant knows what it has     *)
(* fetched, between two of them because only the last byte is outstanding. *)
LEMMA CleanExecutes ==
    ASSUME IInv, [Next]_vars
    PROVE  executed' # executed /\ clean /\ mpc # "sync" => executed' = wire
  <1> SUFFICES ASSUME executed' # executed, clean, mpc # "sync" PROVE executed' = wire
    OBVIOUS
  <1>1. accept_ack
    BY DEF Next, Master, MasterStep, Device, SlaveStep, Restart, start, tranceive, finish, spi_sync,
           sync_done, restart, Exchange, accept_cmd, accept_data, return_sum, return_data, vars, history
  <1>2. /\ phase = "ack" /\ spif /\ executed' = [cmd |-> cs_cmd(cs), data |-> Value]
    BY <1>1 DEF accept_ack, Fetch
  <1>3. CASE Running
    <2>1. /\ Place(clk - 1) /\ clk \in 1 .. 19 /\ wire = ord
          /\ ord \in Orders[Slave] /\ Slave \in Slaves
      BY <1>2, <1>3, PlaceBefore
    <2>2. cs = B(ord.cmd, ord.cmd) /\ (Write(ord) => buf = ord.data)
      BY <1>2, <2>1 DEF Place
    <2>3. cs_cmd(cs) = ord.cmd
      BY <2>2, Bytes
    <2>4. Value = ord.data
      BY <2>1, <2>2, <2>3, OrderFacts DEF Value, Write
    <2>5. ord = [cmd |-> ord.cmd, data |-> ord.data]
      BY <2>1, OrderFacts
    <2>6. QED
      BY <1>2, <2>1, <2>3, <2>4, <2>5
  <1>4. CASE ~Running
    <2>1. mpc = "idle" \/ (mpc = "run" /\ clk = 0)
      BY <1>4 DEF Running, IInv, TypeOK
    <2>2. QED
      BY <1>2, <2>1 DEF IInv, Resting, Between
  <1>5. QED
    BY <1>3, <1>4

(* The inductive invariant, for any orders, sensor values, uninitialized   *)
(* bytes, faults and restarts.                                             *)
THEOREM LinkInvariant == Spec => []IInv
  BY InitInvariant, NextInvariant, PTL DEF Spec

(* Neither side leaves its buffer or its counter, whatever arrives. *)
THEOREM TypeCorrect == Spec => []TypeOK
  <1>1. IInv => TypeOK
    BY DEF IInv
  <1>2. QED
    BY <1>1, LinkInvariant, PTL

(* spi_sync brings the slave back to waiting for a command from wherever a *)
(* kill, a lost byte or a flipped bit has left it.                         *)
THEOREM Resynchronized == Spec => []InSync
  <1>1. IInv => InSync
    BY DEF IInv, Resting, Between, InSync
  <1>2. QED
    BY <1>1, LinkInvariant, PTL

(* Without a new fault no exchange fails, and what is read is what the     *)
(* sensor module has.                                                      *)
THEOREM ExchangesSucceed == Spec => []CleanExchange
  <1>1. IInv => CleanExchange
    BY CompleteClean DEF CleanExchange
  <1>2. QED
    BY <1>1, LinkInvariant, PTL

(* Without a new fault the slave executes exactly the order on the line. *)
THEOREM ExecutesOrders == Spec => CleanExecution
  <1>1. IInv /\ [Next]_vars => [executed' # executed /\ clean /\ mpc # "sync" => executed' = wire]_vars
    BY CleanExecutes
  <1>2. QED
    BY <1>1, LinkInvariant, PTL DEF Spec, CleanExecution

=============================================================================

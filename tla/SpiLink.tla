------------------------------ MODULE SpiLink ------------------------------
(***************************************************************************)
(* One SPI line, byte by byte: transmit, receive and spi_sync of the       *)
(* communication module (comm/bus.c, comm/spi.c) against spi_accept and    *)
(* spi_return of a slave (avr/bus.c) and the main program or interrupt     *)
(* routine that calls them (avr/ctrl.c, avr/sens.c).                       *)
(*                                                                         *)
(* The two sides share nothing but the line.  The master clocks a byte     *)
(* whenever it likes and both sides exchange the contents of their shift   *)
(* registers; the slave then has to fetch the byte and load its next one   *)
(* before the master clocks again.  A slave that is late loses the byte,   *)
(* and the master gets its own byte back.  Each side only counts bytes, so *)
(* the two may disagree on where they are in an exchange; spi_sync is to   *)
(* bring them together again.                                              *)
(***************************************************************************)
EXTENDS Protocol

CONSTANTS
    Slaves,       \* the slaves whose lines are looked at, one in each behaviour
    Orders,       \* for each slave, what the bus thread may be asked to exchange
    Sensors,      \* the bytes of the sensor module's struct sens_data
    Garbage,      \* what an uninitialized byte of the slave may hold
    MaxFaults,    \* bound: late slaves and flipped bits in a behaviour
    MaxRestarts,  \* bound: restarts of the communication module
    Late,         \* the slave may be late
    Flips         \* the line may flip a bit

Order == [cmd : Nibble, data : Seq(Byte)]
None == [cmd |-> BB_INVALID, data |-> <<>>]

ASSUME LinkAssumption ==
    /\ Slaves \subseteq {"sens", "ctrl"}
    /\ \A s \in Slaves : \A o \in Orders[s] :
         /\ o \in Order
         /\ valid(s, o.cmd)
         /\ Len(o.data) = (IF write(s, o.cmd) THEN length(s, o.cmd) ELSE 0)
    /\ Sensors \in Seq(Byte) /\ Len(Sensors) = 16
    /\ Garbage \subseteq Byte /\ Garbage # {}
    /\ MaxFaults \in Nat /\ MaxRestarts \in Nat
    /\ Late \in BOOLEAN /\ Flips \in BOOLEAN

VARIABLES
    Slave,     \* which slave the line leads to; it never changes
    mpc,       \* master: idle, in an exchange, or in spi_sync
    ord,       \* master: the order being exchanged
    clk,       \* master: how many bytes it has clocked in this exchange or sync
    rx,        \* master: the bytes it has kept of those it got
    phase,     \* slave: what its next byte is
    cs,        \* slave: the header of the command it is working on
    at,        \* slave: how many data bytes it has exchanged
    buf,       \* slave: value_retrieved of ctrl.c
    reg,       \* slave: its shift register
    spif,      \* slave: a byte has arrived and is not fetched yet
    clean,     \* history: no fault since the last spi_sync began
    faults,    \* history: faults so far
    restarts,  \* history: restarts so far
    wire,      \* history: the order last put on the line
    executed   \* history: the order the slave executed last

master == <<mpc, ord, clk, rx>>
slave == <<phase, cs, at, buf>>
line == <<reg, spif>>
history == <<clean, faults, restarts, wire, executed>>
vars == <<Slave, master, slave, line, history>>

Write(o) == write(Slave, o.cmd)
DataLen(o) == length(Slave, o.cmd)

(***************************************************************************)
(* The line.                                                               *)
(***************************************************************************)
Flipped(b) == {[b EXCEPT !.lo = xor(@, {i})] : i \in 0 .. 3}
              \union {[b EXCEPT !.hi = xor(@, {i})] : i \in 0 .. 3}

Arrives(b) == {b} \union (IF Flips THEN Flipped(b) ELSE {})

(* One byte each way: tx to the slave, its register to the master, which   *)
(* keeps it or not (spi_tranceive with or without a dst).  The slave's     *)
(* register now holds the byte that came in; a byte that had not been      *)
(* fetched yet is gone.                                                    *)
Exchange(tx, keep) ==
    \E down \in Arrives(tx), up \in (IF keep THEN Arrives(reg) ELSE {reg}) :
      LET bad == (IF spif THEN 1 ELSE 0) + (IF down # tx THEN 1 ELSE 0)
                                         + (IF up # reg THEN 1 ELSE 0)
      IN  /\ spif => Late
          /\ faults + bad =< MaxFaults
          /\ faults' = faults + bad
          /\ clean' = (clean /\ bad = 0)
          /\ clk' = clk + 1
          /\ rx' = (IF keep THEN Append(rx, up) ELSE rx)
          /\ reg' = down
          /\ spif' = TRUE
          /\ UNCHANGED <<slave, restarts, executed>>

(***************************************************************************)
(* The master: the bus thread in transmit, receive and spi_sync.           *)
(***************************************************************************)

(* The k-th byte it sends: the header, the data of a write, then zeros. *)
TxByte(o, k) ==
    IF k = 1 THEN (IF Write(o) THEN cs_create(o.cmd, o.data, DataLen(o))
                   ELSE cs_create(o.cmd, <<>>, 0))
    ELSE IF Write(o) /\ k =< 1 + DataLen(o) THEN o.data[k - 1]
    ELSE Zero

(* It keeps the ack and, when reading, all that follows. *)
Keep(o, k) == k >= 2 + (IF Write(o) THEN DataLen(o) ELSE 0)

(* transmit: header, data, ack.  receive: header and ack, and only if that *)
(* is right also sum and data.                                             *)
Complete ==
    /\ mpc = "run"
    /\ IF Write(ord) THEN clk = DataLen(ord) + 2
       ELSE \/ clk = 2 /\ rx[1] # ACK(Slave)
            \/ clk = DataLen(ord) + 3

(* What receive leaves in dst, and what both functions return. *)
Received == SubSeq(rx, 3, DataLen(ord) + 2)

Success ==
    /\ rx[1] = ACK(Slave)
    /\ Write(ord) \/ cs_check(rx[2], Received, DataLen(ord))

(* Mutants: the header or the ack forgotten; the length of a whole read,   *)
(* counted twice.                                                          *)
SyncLen_short == MAX_DATA_LENGTH + 1
SyncLen_twice == 2 * (MAX_DATA_LENGTH + 2)

(* How many zeros spi_sync is asked for. *)
SyncLen == MAX_DATA_LENGTH + 2

(* A new spi_sync; from here on the line counts as clean. *)
StartSync ==
    /\ mpc' = "sync"
    /\ clk' = 0
    /\ rx' = <<>>
    /\ clean' = TRUE

(* The bus thread takes an order of this slave. *)
start(o) ==
    /\ mpc = "idle"
    /\ mpc' = "run"
    /\ ord' = o
    /\ clk' = 0
    /\ rx' = <<>>
    /\ UNCHANGED <<slave, line, history>>

(* transmit and receive, one byte of them. *)
tranceive ==
    /\ mpc = "run" /\ ~Complete
    /\ Exchange(TxByte(ord, clk + 1), Keep(ord, clk + 1))
    /\ wire' = ord
    /\ UNCHANGED <<mpc, ord>>

(* The end of an exchange: a failed one is followed by spi_sync. *)
finish ==
    /\ Complete
    /\ IF Success THEN mpc' = "idle" /\ UNCHANGED <<clk, rx, clean>> ELSE StartSync
    /\ UNCHANGED <<ord, slave, line, faults, restarts, wire, executed>>

(* spi_sync, one byte of it. *)
spi_sync ==
    /\ mpc = "sync" /\ clk < SyncLen
    /\ Exchange(Zero, FALSE)
    /\ UNCHANGED <<mpc, ord, wire>>

sync_done ==
    /\ mpc = "sync" /\ clk = SyncLen
    /\ mpc' = "idle"
    /\ UNCHANGED <<ord, clk, rx, slave, line, history>>

(* The program is killed wherever it is and started again: bus_sync. *)
restart ==
    /\ restarts < MaxRestarts
    /\ restarts' = restarts + 1
    /\ StartSync
    /\ UNCHANGED <<ord, slave, line, faults, wire, executed>>

(***************************************************************************)
(* The slave.  Each step fetches the byte that has arrived, does what the  *)
(* program does until it next loads the register, and loads it.            *)
(***************************************************************************)
Fetch == spif /\ spif' = FALSE

(* Back to waiting for a command: ctrl.c calls spi_accept again, which     *)
(* loads an uninitialized byte; the interrupt routine of sens.c returns    *)
(* and leaves in the register what arrived last.                           *)
Await ==
    /\ phase' = "cmd"
    /\ reg' \in (IF Slave = "ctrl" THEN Garbage ELSE {reg})
    /\ UNCHANGED <<cs, at>>

(* Mutant: a command that is none is taken for a command without data. *)
accept_cmd_any ==
    /\ phase = "cmd" /\ Fetch
    /\ cs' = reg
    /\ at' = 0
    /\ IF write(Slave, cs_cmd(reg)) THEN phase' = "data" /\ reg' = buf[1]
       ELSE phase' = "ack" /\ reg' = ACK(Slave)
    /\ UNCHANGED <<buf, master, history>>

(* spi_accept up to its first byte of data, or its ack. *)
accept_cmd ==
    /\ phase = "cmd" /\ Fetch
    /\ IF ~valid(Slave, cs_cmd(reg)) THEN Await
       ELSE /\ cs' = reg
            /\ at' = 0
            /\ IF write(Slave, cs_cmd(reg)) THEN phase' = "data" /\ reg' = buf[1]
               ELSE phase' = "ack" /\ reg' = ACK(Slave)
    /\ UNCHANGED <<buf, master, history>>

(* A byte of data; after the last one the sum is checked. *)
accept_data ==
    LET len == length(Slave, cs_cmd(cs)) IN
    /\ phase = "data" /\ Fetch
    /\ buf' = [buf EXCEPT ![at + 1] = reg]
    /\ IF at + 1 < len
         THEN phase' = "data" /\ at' = at + 1 /\ reg' = buf[at + 2] /\ UNCHANGED cs
         ELSE IF cs_check(cs, buf', len)
         THEN phase' = "ack" /\ reg' = ACK(Slave) /\ UNCHANGED <<cs, at>>
         ELSE Await
    /\ UNCHANGED <<master, history>>

(* Mutant: the data of the command before. *)
Value_stale == executed.data

(* What the caller of spi_accept gets with the command. *)
Value == IF write(Slave, cs_cmd(cs)) THEN buf ELSE <<>>

(* The ack has been clocked out: spi_accept returns and its caller         *)
(* executes the command; GET goes on with spi_return.                      *)
accept_ack ==
    /\ phase = "ack" /\ Fetch
    /\ IF Slave = "sens" /\ cs_cmd(cs) = GET
         THEN /\ phase' = "sum"
              /\ reg' = cs_create(GET, Sensors, 16)
              /\ UNCHANGED <<cs, at, executed>>
         ELSE /\ executed' = [cmd |-> cs_cmd(cs), data |-> Value]
              /\ Await
    /\ UNCHANGED <<buf, master, clean, faults, restarts, wire>>

(* spi_return: the sum has been clocked out, then byte by byte the data. *)
return_sum ==
    /\ phase = "sum" /\ Fetch
    /\ phase' = "ret" /\ at' = 0 /\ reg' = Sensors[1]
    /\ UNCHANGED <<cs, buf, master, history>>

return_data ==
    /\ phase = "ret" /\ Fetch
    /\ IF at + 1 < Len(Sensors)
         THEN phase' = "ret" /\ at' = at + 1 /\ reg' = Sensors[at + 2] /\ UNCHANGED cs
         ELSE Await
    /\ UNCHANGED <<buf, master, history>>

(* The communication module starts with bus_sync; the slave has just been  *)
(* switched on.                                                            *)
Init ==
    /\ Slave \in Slaves
    /\ mpc = "sync" /\ ord = None /\ clk = 0 /\ rx = <<>>
    /\ phase = "cmd" /\ cs = Zero /\ at = 0
    /\ \E g \in Garbage : buf = <<g, g, g, g>>
    /\ reg \in (IF Slave = "ctrl" THEN Garbage ELSE {Zero})
    /\ spif = FALSE
    /\ clean = TRUE /\ faults = 0 /\ restarts = 0
    /\ wire = None /\ executed = None

(* The bus thread; and whichever part of the slave program is due. *)
MasterStep == (\E o \in Orders[Slave] : start(o)) \/ tranceive \/ finish \/ spi_sync \/ sync_done
SlaveStep == accept_cmd \/ accept_data \/ accept_ack \/ return_sum \/ return_data

(* The line stays what it is. *)
Master == MasterStep /\ UNCHANGED Slave
Device == SlaveStep /\ UNCHANGED Slave
Restart == restart /\ UNCHANGED Slave

Next == Master \/ Device \/ Restart

Spec == Init /\ [][Next]_vars

(* Both programs run; the main loop keeps scheduling, so the bus thread    *)
(* always finds an order.                                                  *)
FairSpec == Spec /\ WF_vars(Master) /\ WF_vars(Device)

(***************************************************************************)
(* Properties.                                                             *)
(***************************************************************************)
TypeOK ==
    /\ Slave \in Slaves
    /\ mpc \in {"idle", "run", "sync"}
    /\ ord \in Orders[Slave] \union {None}
    /\ clk \in 0 .. 19
    /\ rx \in Seq(Byte) /\ Len(rx) =< clk
    /\ phase \in {"cmd", "data", "ack", "sum", "ret"}
    /\ cs \in Byte
    /\ at \in 0 .. 15
    /\ buf \in Seq(Byte) /\ Len(buf) = 4
    /\ reg \in Byte
    /\ spif \in BOOLEAN
    /\ clean \in BOOLEAN
    /\ faults \in 0 .. MaxFaults
    /\ restarts \in 0 .. MaxRestarts
    /\ wire \in Orders[Slave] \union {None}
    /\ executed \in Order

(* "ensure modules are in sync": wherever the slave was in an exchange --  *)
(* the program was killed, a byte was lost, a header was misread -- once   *)
(* spi_sync is through, and no new fault has happened, it waits for a      *)
(* command whenever the bus thread is between two exchanges.               *)
InSync == clean /\ mpc = "idle" /\ ~spif => phase = "cmd"

(* A command that carries nothing is answered with an uninitialized byte,  *)
(* which receive takes for a sum (control module only).                    *)
Unanswered == Slave = "ctrl" /\ ~Write(ord)

(* Without a fault since the last spi_sync no exchange fails (a failure,   *)
(* hence a retry, needs a new fault), what is read is what the slave has,  *)
(* and once the slave has fetched the last byte it has executed the order: *)
(* that is what bus_thread takes an exchange to be.                        *)
CleanExchange ==
    clean /\ Complete =>
      /\ Success \/ Unanswered
      /\ ~Write(ord) /\ DataLen(ord) > 0 => Received = Sensors
      /\ ~spif /\ (Write(ord) \/ DataLen(ord) = 0) => executed = ord

(* Without a fault the slave executes exactly the order on the line.       *)
(* spi_sync itself is excepted: its zeros may complete an order that was   *)
(* cut short.                                                              *)
CleanExecution == [][executed' # executed /\ clean /\ mpc # "sync" => executed' = wire]_vars

(* "Kontrollsumman aer implementerad foer att undvika att felaktig data    *)
(* skickas eller tas emot": a write the slave executes carries the data    *)
(* the master put on the line.                                             *)
AcceptedIntact == [][executed' # executed /\ BF_WRITE \in executed'.cmd => executed' = wire]_vars

(* However the faults fall, once they end the bus thread gets orders       *)
(* through again -- unless all it is ever asked for is a command without   *)
(* data, whose answer is a matter of chance.                               *)
LinkRecovers == []<>(Complete /\ Success) \/ <>[]Unanswered
=============================================================================

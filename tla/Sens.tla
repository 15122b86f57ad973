-------------------------------- MODULE Sens --------------------------------
(***************************************************************************)
(* The sensor module, src/src/avr/sens.c: its main loop and the interrupt  *)
(* routines that share its variables with it -- an edge of either wheel    *)
(* sensor, the timer that measures the left wheel's period, and the SPI    *)
(* exchange, which runs to its end inside its routine.                     *)
(*                                                                         *)
(* The loop copies the counters and, later, the struct of results in       *)
(* several steps each, with interrupts off.  An interrupt that is raised   *)
(* meanwhile waits as a flag; a second one of its kind is lost.  Time is   *)
(* the timer's clock.  A velocity is the period it is computed from, and   *)
(* WT_TOP stands for velocity 0; a distance is a number of edges.          *)
(***************************************************************************)
EXTENDS Integers

CONSTANTS
    WT_TOP,    \* where the timer starts again: 65535 in the code
    Modulus,   \* 2^16, the range of a uint16_t
    MaxEdges   \* bound: edges in a behaviour

VARIABLES
    left, right,  \* wheel_left_count and wheel_right_count
    period,       \* wheel_left_period
    tcnt,         \* the left wheel's timer
    flags,        \* interrupts that wait to be served
    spi,          \* the command the SPI routine is working on, or "none"
    pc,           \* the main loop
    local,        \* the loop's wheel_count and wheel_period, then sens_local
    sensors,      \* the struct the SPI routine sends
    edges,        \* history: edges raised so far
    served,       \* history: edges counted so far
    age,          \* history: ticks since a left edge was counted, up to a cap
    snap,         \* history: the truth when the loop last read the counters
    saved         \* history: what a whole struct holds now

device == <<left, right, period, tcnt>>
loop == <<pc, local>>
truth == <<edges, served, age>>
vars == <<device, flags, spi, loop, sensors, truth, snap, saved>>

SENS_EMPTY == [count |-> 0, period |-> WT_TOP]
Data == [count : 0 .. Modulus - 1, period : 0 .. WT_TOP]
MaxAge == 2 * WT_TOP + 1

Init ==
    /\ left = 0 /\ right = 0 /\ period = WT_TOP /\ tcnt = 0
    /\ flags = {} /\ spi = "none"
    /\ pc = "count" /\ local = SENS_EMPTY /\ sensors = SENS_EMPTY
    /\ edges = 0 /\ served = 0 /\ age = 0
    /\ snap = SENS_EMPTY /\ saved = SENS_EMPTY

(***************************************************************************)
(* The hardware: edges, and the timer in CTC mode.                         *)
(***************************************************************************)
edge ==
    /\ edges < MaxEdges
    /\ edges' = edges + 1
    /\ \E w \in {"INT0", "INT1"} : flags' = flags \union {w}
    /\ UNCHANGED <<device, spi, loop, sensors, served, age, snap, saved>>

tick ==
    /\ tcnt' = (IF tcnt = WT_TOP THEN 0 ELSE tcnt + 1)
    /\ flags' = (IF tcnt = WT_TOP THEN flags \union {"TIMER1"} ELSE flags)
    /\ age' = (IF age < MaxAge THEN age + 1 ELSE age)
    /\ UNCHANGED <<left, right, period, spi, loop, sensors, edges, served, snap, saved>>

(* Mutant: no cli() around the copy of the counters. *)
Masked_read == {"velocity"}

(* The places between cli() and sei() in the main loop. *)
Masked == {"period", "velocity"}

InterruptsOn == spi = "none" /\ pc \notin Masked

(***************************************************************************)
(* Interrupt routines; the one with the lowest vector goes first.          *)
(***************************************************************************)

INT0 ==
    /\ InterruptsOn /\ "INT0" \in flags
    /\ flags' = flags \ {"INT0"}
    /\ left' = (left + 1) % Modulus
    /\ period' = tcnt
    /\ tcnt' = 0
    /\ served' = served + 1 /\ age' = 0
    /\ UNCHANGED <<right, spi, loop, sensors, edges, snap, saved>>

(* The right wheel's period is taken, but never used. *)
INT1 ==
    /\ InterruptsOn /\ "INT1" \in flags /\ "INT0" \notin flags
    /\ flags' = flags \ {"INT1"}
    /\ right' = (right + 1) % Modulus
    /\ served' = served + 1
    /\ UNCHANGED <<left, period, tcnt, spi, loop, sensors, edges, age, snap, saved>>

(* Mutant: the interrupt is enabled, its routine is empty. *)
TIMER1_empty ==
    /\ InterruptsOn /\ flags = {"TIMER1"}
    /\ flags' = {}
    /\ UNCHANGED <<device, spi, loop, sensors, truth, snap, saved>>

TIMER1 ==
    /\ InterruptsOn /\ flags = {"TIMER1"}
    /\ flags' = {}
    /\ period' = WT_TOP
    /\ UNCHANGED <<left, right, tcnt, spi, loop, sensors, truth, snap, saved>>

(* A byte arrives: the routine calls spi_accept, which waits for the       *)
(* master; the whole exchange takes place with interrupts off.             *)
spi_begin ==
    /\ InterruptsOn /\ flags = {}
    /\ spi' \in {"GET", "RST"}
    /\ UNCHANGED <<device, flags, loop, sensors, truth, snap, saved>>

(* GET has sent its copy of the struct, RST empties the struct.            *)
spi_end ==
    /\ spi # "none"
    /\ spi' = "none"
    /\ IF spi = "RST" THEN sensors' = SENS_EMPTY /\ saved' = SENS_EMPTY
       ELSE UNCHANGED <<sensors, saved>>
    /\ UNCHANGED <<device, flags, loop, truth, snap>>

(***************************************************************************)
(* The main loop; it runs while no routine does and none is due.           *)
(***************************************************************************)
Idle == spi = "none" /\ (InterruptsOn => flags = {})

Step(from, to) == Idle /\ pc = from /\ pc' = to

(* Mutant: the sum is wider than a uint16_t. *)
read_count_wide ==
    /\ Step("count", "period")
    /\ local' = [local EXCEPT !.count = left + right]
    /\ snap' = [count |-> served % Modulus, period |-> period]
    /\ UNCHANGED <<device, flags, spi, sensors, truth, saved>>

(* cli(), then the sum of both counters, a uint16_t. *)
read_count ==
    /\ Step("count", "period")
    /\ local' = [local EXCEPT !.count = (left + right) % Modulus]
    /\ snap' = [count |-> served % Modulus, period |-> period]
    /\ UNCHANGED <<device, flags, spi, sensors, truth, saved>>

(* The period, then sei() and the two conversions of adc_read. *)
read_period ==
    /\ Step("period", "distance")
    /\ local' = [local EXCEPT !.period = period]
    /\ UNCHANGED <<device, flags, spi, sensors, truth, snap, saved>>

(* cli(), and the struct is overwritten, distance before velocity; sei(). *)
save_distance ==
    /\ Step("distance", "velocity")
    /\ sensors' = [sensors EXCEPT !.count = local.count]
    /\ UNCHANGED <<device, flags, spi, local, truth, snap, saved>>

save_velocity ==
    /\ Step("velocity", "count")
    /\ sensors' = [sensors EXCEPT !.period = local.period]
    /\ saved' = snap
    /\ UNCHANGED <<device, flags, spi, local, truth, snap>>

Main == read_count \/ read_period \/ save_distance \/ save_velocity
Routines == INT0 \/ INT1 \/ TIMER1

Next == edge \/ tick \/ Main \/ Routines \/ spi_begin \/ spi_end

(***************************************************************************)
(* Time passes, routines that are due are run, the communication module    *)
(* finishes what it begins, and after a routine the AVR always executes an *)
(* instruction of the main program (hence SF: no flood of interrupts keeps *)
(* the loop from going on).                                                *)
(***************************************************************************)
Fairness == WF_vars(tick) /\ WF_vars(Routines) /\ WF_vars(spi_end) /\ SF_vars(Main)

(***************************************************************************)
(* Properties.                                                             *)
(***************************************************************************)
TypeOK ==
    /\ left \in 0 .. Modulus - 1 /\ right \in 0 .. Modulus - 1
    /\ period \in 0 .. WT_TOP /\ tcnt \in 0 .. WT_TOP
    /\ flags \subseteq {"INT0", "INT1", "TIMER1"}
    /\ spi \in {"none", "GET", "RST"}
    /\ pc \in {"count", "period", "distance", "velocity"}
    /\ local \in Data /\ sensors \in Data /\ snap \in Data /\ saved \in Data
    /\ edges \in 0 .. MaxEdges /\ served \in 0 .. edges /\ age \in 0 .. MaxAge

(* Whenever the SPI routine may run, the struct it sends is that of one    *)
(* instant of the wheels, or the empty one after a reset: its distance the *)
(* number of edges counted by then (modulo 2^16, although the two counters *)
(* wrap on their own), its velocity that of the same instant, whatever     *)
(* interrupts came while the loop read the counters or wrote the struct.   *)
StructWhole == InterruptsOn => sensors = saved

(* A velocity other than zero is that of a wheel which still turns: a left *)
(* edge has been counted within the timer's range, however often the timer *)
(* and the wheel have been at it together (the order of INT0 and TIMER1),  *)
(* once the timer's interrupt, if due, has been served.  How large it is   *)
(* is not said: the first edge after a longer gap is measured from where   *)
(* the timer started again, and reads too fast.                            *)
VelocityFresh == period # WT_TOP /\ "TIMER1" \notin flags => age =< WT_TOP

(* The wheels come to a stop in every behaviour (MaxEdges).  Then, again   *)
(* and again, the struct holds velocity 0 and the distance of all edges    *)
(* counted, although a reset may wipe it and the interrupts may interrupt  *)
(* the loop anywhere.                                                      *)
StandstillSeen ==
    []<>(sensors = [count |-> served % Modulus, period |-> WT_TOP])
=============================================================================

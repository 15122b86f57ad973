-------------------------------- MODULE Taxi --------------------------------
(***************************************************************************)
(* The program of the communication module, src/src/comm/main.c: the main  *)
(* loop, the server thread with the commands main registers, the bus       *)
(* thread with the handler bsh_sens_recv, and what the slaves make of the  *)
(* orders.                                                                 *)
(*                                                                         *)
(* The bus is its list of orders and its thread; that the thread always    *)
(* comes round to the list is shown in Bus.  What a thread does between    *)
(* lock and unlock of the shared data is one step, and what is local to it *)
(* goes with the step before.  A velocity is "go" (forward), "hold" (zero  *)
(* or backward) or "nan", which strtof makes of the remote's "nan"; a      *)
(* front distance is "near" (below 0.7 m) or "far"; steering values are    *)
(* all alike.  The sensor module answers what it likes, so its RST is left *)
(* out (see Sens).  Values are not damaged on the line (see SpiLink).      *)
(***************************************************************************)
EXTENDS OrderList

CONSTANTS
    MaxFaults,  \* bound: exchanges that fail in a behaviour
    Asked       \* velocities the remote asks for

Numbers == {"go", "hold"}
Velocities == Numbers \union {"nan"}

ASSUME TaxiAssumption == MaxFaults \in Nat /\ Asked \subseteq Velocities

VARIABLES
    mpc,      \* main: the next thing it does
    snap,     \* main: the front distance it works with in this turn
    vel,      \* main: ctrl.vel.value
    reg,      \* main: ctrl.rot.regulate
    quit,     \* set by the remote's shutdown
    active,   \* obj->active
    rc,       \* rc_data.vel
    val,      \* sens_data.val.dist_front; "none" is the zero it starts with
    spc,      \* server thread: running or gone
    sterm,    \* server thread: told to terminate
    queue,    \* bus->queue
    bterm,    \* bus->terminate
    order,    \* bus thread: the order it exchanges, or None
    bquit,    \* bus thread: its copy of terminate
    bpc,      \* bus thread: running or gone
    faults,   \* history: exchanges that failed so far
    motor,    \* control module: what the wheels do
    steer     \* control module: the kind of steering order executed last

main == <<mpc, snap, vel, reg>>
shared == <<quit, active, rc>>
server == <<spc, sterm>>
bus == <<queue, bterm, order, bquit, bpc, faults>>
ctrl == <<motor, steer>>
vars == <<main, shared, val, server, bus, ctrl>>

Distances == {"near", "far"}
NoData == "-"

Order == [bc : {"VEL"}, data : Velocities]
         \union [bc : {"GET", "RST", "ROT_VAL", "ROT_ERR"}, data : {NoData}]
None == [bc |-> "none", data |-> NoData]

TypeOK ==
    /\ mpc \in {"init", "reset", "top", "drive", "vel", "rot",
                "stop", "srv", "join", "bus", "wait", "done", "crashed"}
    /\ snap \in Distances \union {"none"} /\ val \in Distances \union {"none"}
    /\ vel \in Velocities /\ rc \in Velocities
    /\ reg \in BOOLEAN /\ quit \in BOOLEAN /\ active \in BOOLEAN
    /\ spc \in {"run", "done"} /\ bpc \in {"run", "done"}
    /\ sterm \in BOOLEAN /\ bterm \in BOOLEAN /\ bquit \in BOOLEAN
    /\ queue \in Seq(Order) /\ order \in Order \union {None}
    /\ faults \in 0 .. MaxFaults
    /\ motor \in Velocities /\ steer \in {"none", "ROT_VAL", "ROT_ERR"}

Init ==
    /\ mpc = "init" /\ snap = "none" /\ vel = "hold" /\ reg = FALSE
    /\ quit = FALSE /\ active = FALSE /\ rc = "hold" /\ val = "none"
    /\ spc = "done" /\ sterm = FALSE
    /\ queue = <<>> /\ bterm = FALSE /\ order = None /\ bquit = FALSE
    /\ bpc = "run" /\ faults = 0
    /\ motor = "hold" /\ steer = "none"

(***************************************************************************)
(* The bus.                                                                *)
(***************************************************************************)
bus_schedule(c, d) ==
    /\ queue' = order_queue(queue, [bc |-> c, data |-> d], FALSE)
    /\ UNCHANGED <<bterm, order, bquit, bpc, faults>>

(* An order is taken together with a copy of terminate. *)
fetch ==
    /\ bpc = "run" /\ order = None /\ ~bquit
    /\ queue # <<>> \/ bterm
    /\ IF queue = <<>> THEN UNCHANGED <<order, queue>>
       ELSE order' = Head(queue) /\ queue' = Tail(queue)
    /\ bquit' = bterm
    /\ UNCHANGED <<main, shared, val, server, bterm, bpc, faults, ctrl>>

(* Mutant: the velocity bit of a control command is not looked at. *)
Executes_any ==
    /\ motor' = (IF order.bc \in {"VEL", "ROT_VAL", "ROT_ERR"} THEN order.data ELSE motor)
    /\ UNCHANGED steer

(* What the control module does with an order that reaches it. *)
Executes ==
    /\ motor' = (CASE order.bc = "VEL" -> order.data
                   [] order.bc = "RST" -> "hold"
                   [] OTHER -> motor)
    /\ steer' = (CASE order.bc \in {"ROT_VAL", "ROT_ERR"} -> order.bc
                   [] order.bc = "RST" -> "none"
                   [] OTHER -> steer)

(* The handler of GET, called by the bus thread. *)
bsh_sens_recv == IF order.bc = "GET" THEN val' \in Distances ELSE UNCHANGED val

(* The order at hand got through; its handler is called. *)
exec_acked ==
    /\ order # None
    /\ Executes
    /\ bsh_sens_recv
    /\ order' = None
    /\ UNCHANGED <<main, shared, server, queue, bterm, bquit, bpc, faults>>

(* The exchange failed, before or after the slave executed the order: the  *)
(* order is put back.                                                      *)
exec_failed ==
    /\ order # None /\ faults < MaxFaults
    /\ faults' = faults + 1
    /\ Executes \/ UNCHANGED ctrl
    /\ queue' = order_queue(queue, order, TRUE)
    /\ order' = None
    /\ UNCHANGED <<main, shared, val, server, bterm, bquit, bpc>>

(* while (!quit) *)
bus_exit ==
    /\ bpc = "run" /\ order = None /\ bquit
    /\ bpc' = "done"
    /\ UNCHANGED <<main, shared, val, server, queue, bterm, order, bquit, faults, ctrl>>

BusThread == fetch \/ exec_acked \/ exec_failed \/ bus_exit

(***************************************************************************)
(* main.                                                                   *)
(***************************************************************************)
Goto(from, to) == mpc = from /\ mpc' = to

(* obj_create and srv_create: the server thread is started, or obj_create  *)
(* fails: goto fail, or srv_create fails, which then joins a thread that   *)
(* was never created: the program crashes, and the bus thread with it.     *)
create ==
    /\ \/ Goto("init", "reset") /\ spc' = "run" /\ UNCHANGED bpc
       \/ Goto("init", "srv") /\ UNCHANGED <<spc, bpc>>
       \/ Goto("init", "crashed") /\ bpc' = "done" /\ UNCHANGED spc
    /\ UNCHANGED <<snap, vel, reg, shared, val, sterm, queue, bterm, order, bquit, faults, ctrl>>

(* bus_sync, which moves no order, and the reset of the control module. *)
reset ==
    /\ Goto("reset", "top")
    /\ bus_schedule("RST", NoData)
    /\ UNCHANGED <<snap, vel, reg, shared, val, server, ctrl>>

(* while (!quit): copy the sensor values, ask for new ones. *)
turn ==
    /\ Goto("top", "drive") /\ ~quit
    /\ snap' = val
    /\ bus_schedule("GET", NoData)
    /\ UNCHANGED <<vel, reg, shared, val, server, ctrl>>

(* Mutants: only a distance that was measured counts; no brake. *)
Brake_known(v) == IF snap = "near" /\ v = "go" THEN "hold" ELSE v
Brake_none(v) == v

(* Anything closer than 0.7 m turns a forward velocity into minus the      *)
(* measured one; the zeros before the first answer count as close, too.    *)
(* NaN > 0 is false: NaN is not braked.                                    *)
Brake(v) == IF snap # "far" /\ v = "go" THEN "hold" ELSE v

(* obj_execute (Objective has its inside), and the brake. *)
drive_auto ==
    /\ Goto("drive", "vel") /\ active
    /\ \E v \in Numbers : vel' = Brake(v)
    /\ reg' = TRUE
    /\ snap' = "none"
    /\ UNCHANGED <<shared, val, server, bus, ctrl>>

(* The values of the remote, and the brake. *)
drive_manual ==
    /\ Goto("drive", "vel") /\ ~active
    /\ vel' = Brake(rc)
    /\ reg' = FALSE
    /\ snap' = "none"
    /\ UNCHANGED <<shared, val, server, bus, ctrl>>

send_vel ==
    /\ Goto("vel", "rot")
    /\ bus_schedule("VEL", vel)
    /\ vel' = "hold"
    /\ UNCHANGED <<snap, reg, shared, val, server, ctrl>>

(* Mutant: the regulator is used, whoever drives. *)
RotCmd_err == "ROT_ERR"

(* bcc_rot *)
RotCmd == IF reg THEN "ROT_ERR" ELSE "ROT_VAL"

send_rot ==
    /\ Goto("rot", "top")
    /\ bus_schedule(RotCmd, NoData)
    /\ reg' = FALSE
    /\ UNCHANGED <<snap, vel, shared, val, server, ctrl>>

(* After the loop: the reset is scheduled once more. *)
leave ==
    /\ Goto("top", "stop") /\ quit
    /\ UNCHANGED <<snap, vel, reg, shared, val, server, bus, ctrl>>

stop ==
    /\ Goto("stop", "srv")
    /\ bus_schedule("RST", NoData)
    /\ UNCHANGED <<snap, vel, reg, shared, val, server, ctrl>>

(* Mutant: the server is not joined. *)
srv_destroy_detached ==
    /\ Goto("srv", "bus")
    /\ sterm' = TRUE
    /\ UNCHANGED <<snap, vel, reg, shared, val, spc, bus, ctrl>>

(* The locks are destroyed, then srv_destroy: terminate is set. *)
srv_destroy ==
    /\ Goto("srv", "join")
    /\ sterm' = TRUE
    /\ UNCHANGED <<snap, vel, reg, shared, val, spc, bus, ctrl>>

(* The server thread is joined; obj_destroy. *)
srv_join ==
    /\ Goto("join", "bus")
    /\ spc = "done"
    /\ UNCHANGED <<snap, vel, reg, shared, val, server, bus, ctrl>>

(* bus_destroy: terminate is set, *)
bus_destroy ==
    /\ Goto("bus", "wait")
    /\ bterm' = TRUE
    /\ UNCHANGED <<snap, vel, reg, shared, val, server, queue, order, bquit, bpc, faults, ctrl>>

(* the bus thread is joined, and orders that are left are freed unsent. *)
bus_join ==
    /\ Goto("wait", "done")
    /\ bpc = "done"
    /\ queue' = <<>>
    /\ UNCHANGED <<snap, vel, reg, shared, val, server, bterm, order, bquit, bpc, faults, ctrl>>

Main ==
    \/ create \/ reset
    \/ turn \/ drive_auto \/ drive_manual \/ send_vel \/ send_rot
    \/ leave \/ stop \/ srv_destroy \/ srv_join \/ bus_destroy \/ bus_join

(***************************************************************************)
(* The server thread: the commands of main that change something here.     *)
(* sc_bus_send_float only adds one more caller of bus_schedule.            *)
(***************************************************************************)
Command == spc = "run" /\ UNCHANGED <<main, val, server, ctrl>>

sc_set_auto ==
    /\ Command
    /\ active' \in BOOLEAN
    /\ UNCHANGED <<quit, rc, bus>>

sc_set_float ==
    /\ Command
    /\ rc' \in Asked
    /\ UNCHANGED <<quit, active, bus>>

sc_shutdown ==
    /\ Command
    /\ quit' = TRUE
    /\ UNCHANGED <<active, rc, bus>>

(* Mutant: a thread that waits for its remote for ever. *)
server_exit_never == FALSE /\ UNCHANGED vars

(* The thread sees terminate after its select. *)
server_exit ==
    /\ spc = "run" /\ sterm
    /\ spc' = "done"
    /\ UNCHANGED <<main, shared, val, sterm, bus, ctrl>>

Server == sc_set_auto \/ sc_set_float \/ sc_shutdown \/ server_exit

(* main has returned or crashed, both threads are gone. *)
finished == mpc \in {"done", "crashed"} /\ UNCHANGED vars

Next == Main \/ Server \/ BusThread \/ finished

Spec == Init /\ [][Next]_vars

(***************************************************************************)
(* Fairness.  The threads run; the remote may do nothing.  The faults of   *)
(* the line are finitely many (MaxFaults).                                 *)
(***************************************************************************)
FairSpec == Spec /\ WF_vars(Main) /\ WF_vars(BusThread) /\ WF_vars(server_exit)

(***************************************************************************)
(* Properties.                                                             *)
(***************************************************************************)

(* What drives the wheels forward: the control module clamps NaN to its    *)
(* largest velocity (ServoRange in Ctrl).                                  *)
Forward == {"go", "nan"}

(* The wheels drive forward only once a sensor answer has arrived: until   *)
(* then the zeros main starts with make every forward velocity a braking   *)
(* one, whoever drives, however early the remote connects and whichever of *)
(* the first orders get lost.  The one exception is NaN, if the remote     *)
(* asks for it: main.c:250 does not brake it.                              *)
BlindStandstill == motor \in Forward /\ val = "none" => motor = "nan"

(* Nobody uses the bus once it is being destroyed (Bus assumes that of its *)
(* callers), and nobody is left to run a handler on main's stack when main *)
(* returns.                                                                *)
Lifetimes ==
    /\ bterm => spc = "done" /\ mpc \in {"wait", "done"}
    /\ mpc = "done" => bpc = "done"

(* main is in its loop. *)
Driving == mpc \in {"top", "drive", "vel", "rot"}

(* If the sensor module keeps reporting something in front of the taxi,    *)
(* the wheels are no longer driven forward, for good, although the brake   *)
(* works on an old snapshot, orders are put back and retried, and the      *)
(* remote may switch modes and ask for any velocity but NaN, which passes  *)
(* the brake of main.c:250.  Whether the wheels stand or go backward is    *)
(* not said: the brake orders minus a velocity measured without its sign.  *)
ObstacleStops ==
    <>[](val = "near" /\ Driving /\ rc # "nan") => <>[](motor \notin Forward)

(* Once the remote has taken over for good, the last steering order the    *)
(* control module executed is the remote's: a regulator order left in the  *)
(* list from autonomous driving does not have the last word.               *)
ManualSteers == <>[](~active /\ Driving) => <>[](steer = "ROT_VAL")

(* A shutdown asked for by the remote ends the program, with both threads  *)
(* joined.                                                                 *)
ShutdownEnds == quit ~> mpc = "done"

(* "Stanna taxin och staeng av kommunikationsmodulen": when the program    *)
(* has been shut down, the taxi stands still.                              *)
ShutdownStops == mpc = "done" => motor \notin Forward
=============================================================================

----------------------------- MODULE TaxiProofs -----------------------------
(***************************************************************************)
(* Proofs about the program of the communication module, for any number of *)
(* exchanges that fail.                                                    *)
(***************************************************************************)
EXTENDS Taxi, SequenceTheorems, TLAPS

(* Orders that make nothing drive forward. *)
Standing(q) == \A i \in DOMAIN q : q[i].data # "go"

(* While no sensor answer has arrived, nothing on the way to the wheels    *)
(* says "go": not main's velocity, which the snapshot brakes, not an order *)
(* that is queued or being exchanged, and not the wheels.                  *)
Blind ==
    val = "none" =>
      /\ snap = "none" /\ vel # "go" /\ motor # "go"
      /\ order.data # "go" /\ Standing(queue)

(* Where main is tells which threads there are: the server thread runs     *)
(* only between its creation and its join, the bus is told to terminate    *)
(* only after that, and its thread ends only when told to.                 *)
Threads ==
    /\ spc = "run" => mpc \notin {"init", "bus", "wait", "done", "crashed"}
    /\ bterm <=> mpc \in {"wait", "done"}
    /\ bquit => bterm
    /\ mpc = "init" => queue = <<>> /\ order = None
    /\ mpc = "done" => bpc = "done"
    /\ bpc = "done" => order = None

IInv == TypeOK /\ Blind /\ Threads

(***************************************************************************)
(* What order_queue does to the list.                                      *)
(***************************************************************************)

(* The place of an order found in the list is a place in the list. *)
LEMMA PlaceInList ==
    ASSUME NEW q \in Seq(Order), NEW c, Queued(q, c)
    PROVE  Place(q, c) \in DOMAIN q
  BY DEF Queued, Place

(* A list of orders stays one, and no forward velocity gets in but with    *)
(* the order queued.                                                       *)
LEMMA QueueKeeps ==
    ASSUME NEW q \in Seq(Order), NEW o \in Order, NEW requeue \in BOOLEAN
    PROVE  /\ order_queue(q, o, requeue) \in Seq(Order)
           /\ Standing(q) /\ o.data # "go" => Standing(order_queue(q, o, requeue))
  <1>1. CASE ~Queued(q, o.bc)
    <2>1. order_queue(q, o, requeue) = Append(q, o)
      BY <1>1 DEF order_queue
    <2>2. /\ Append(q, o) \in Seq(Order)
          /\ DOMAIN Append(q, o) = 1 .. Len(q) + 1 /\ DOMAIN q = 1 .. Len(q)
          /\ \A i \in 1 .. Len(q) : Append(q, o)[i] = q[i]
          /\ Append(q, o)[Len(q) + 1] = o
      BY AppendProperties, LenProperties
    <2>3. QED
      BY <2>1, <2>2, LenProperties DEF Standing
  <1>2. CASE Queued(q, o.bc) /\ requeue
    BY <1>2 DEF order_queue
  <1>3. CASE Queued(q, o.bc) /\ ~requeue
    <2>1. order_queue(q, o, requeue) = [q EXCEPT ![Place(q, o.bc)] = o]
      BY <1>3 DEF order_queue
    <2>2. Place(q, o.bc) \in DOMAIN q
      BY <1>3, PlaceInList
    <2>3. [q EXCEPT ![Place(q, o.bc)] = o] \in Seq(Order)
      BY <2>2, ExceptSeq
    <2>4. QED
      BY <2>1, <2>2, <2>3 DEF Standing
  <1>4. QED
    BY <1>1, <1>2, <1>3

(* The head and the rest of a list of orders. *)
LEMMA HeadKeeps ==
    ASSUME NEW q \in Seq(Order), q # <<>>
    PROVE  /\ Head(q) \in Order /\ Tail(q) \in Seq(Order)
           /\ Standing(q) => Head(q).data # "go" /\ Standing(Tail(q))
  <1>1. /\ Head(q) \in Order /\ Tail(q) \in Seq(Order) /\ Head(q) = q[1]
        /\ Len(Tail(q)) = Len(q) - 1 /\ \A i \in 1 .. Len(Tail(q)) : Tail(q)[i] = q[i + 1]
    BY HeadTailProperties
  <1>2. Len(q) \in Nat /\ Len(q) > 0 /\ DOMAIN q = 1 .. Len(q)
    BY EmptySeq, LenProperties
  <1>3. DOMAIN Tail(q) = 1 .. Len(Tail(q))
    BY <1>1, LenProperties
  <1>4. QED
    BY <1>1, <1>2, <1>3 DEF Standing

(* What main and the server thread schedule. *)
LEMMA Orders ==
    /\ \A c \in {"GET", "RST", "ROT_VAL", "ROT_ERR"} :
         [bc |-> c, data |-> NoData] \in Order /\ [bc |-> c, data |-> NoData].data # "go"
    /\ \A v \in Velocities : [bc |-> "VEL", data |-> v] \in Order
    /\ None.data # "go"
    /\ \A o \in Order : o.bc = "VEL" => o.data \in Velocities
    /\ \A o \in Order : o # None
  BY DEF Order, NoData, None, Velocities, Numbers

(***************************************************************************)
(* The inductive invariant.                                                *)
(***************************************************************************)

(* It holds when main begins. *)
LEMMA InitInvariant == Init => IInv
  <1> SUFFICES ASSUME Init PROVE IInv
    OBVIOUS
  <1>1. TypeOK
    <2>1. queue \in Seq(Order) /\ faults \in 0 .. MaxFaults
      BY TaxiAssumption DEF Init
    <2>2. QED
      BY <2>1, Zenon DEF Init, TypeOK, Velocities, Numbers
  <1>2. Blind
    BY Orders DEF Init, Blind, Standing
  <1>3. Threads
    BY DEF Init, Threads
  <1>4. QED
    BY <1>1, <1>2, <1>3 DEF IInv

(* Scheduling an order that does not say "go", or once sensor values are   *)
(* there, keeps the list right.                                            *)
LEMMA ScheduleKeeps ==
    ASSUME IInv, NEW c, NEW d, bus_schedule(c, d), [bc |-> c, data |-> d] \in Order,
           val = "none" => d # "go"
    PROVE  /\ queue' \in Seq(Order)
           /\ (val = "none" => Standing(queue'))
           /\ UNCHANGED <<bterm, order, bquit, bpc, faults>>
  <1>1. queue \in Seq(Order)
    BY DEF IInv, TypeOK
  <1>2. [bc |-> c, data |-> d].data = d
    OBVIOUS
  <1>3. /\ order_queue(queue, [bc |-> c, data |-> d], FALSE) \in Seq(Order)
        /\ Standing(queue) /\ d # "go"
             => Standing(order_queue(queue, [bc |-> c, data |-> d], FALSE))
    BY <1>1, <1>2, QueueKeeps
  <1>4. QED
    BY <1>3 DEF bus_schedule, IInv, Blind

(* The bus thread keeps it. *)
LEMMA BusThreadInvariant == IInv /\ BusThread => IInv'
  <1> SUFFICES ASSUME IInv, BusThread PROVE IInv'
    OBVIOUS
  <1> USE DEF IInv
  <1>1. CASE fetch
    <2>1. /\ queue' \in Seq(Order) /\ order' \in Order \union {None}
          /\ order.data # "go" /\ Standing(queue) => order'.data # "go" /\ Standing(queue')
      BY <1>1, HeadKeeps DEF fetch, TypeOK
    <2>2. TypeOK'
      BY <1>1, <2>1 DEF fetch, TypeOK, main, shared, server, ctrl
    <2>3. Blind'
      BY <1>1, <2>1 DEF fetch, Blind, main, ctrl
    <2>4. Threads'
      BY <1>1 DEF fetch, Threads, main, server, TypeOK
    <2>5. QED
      BY <2>2, <2>3, <2>4
  <1>2. ASSUME order \in Order, Executes
        PROVE  /\ motor' \in Velocities /\ steer' \in {"none", "ROT_VAL", "ROT_ERR"}
               /\ motor # "go" /\ order.data # "go" => motor' # "go"
    BY <1>2, Orders DEF Executes, TypeOK, Velocities, Numbers
  <1>3. CASE exec_acked
    <2>1. order \in Order /\ order' = None
      BY <1>3 DEF exec_acked, TypeOK
    <2>2. /\ motor' \in Velocities /\ steer' \in {"none", "ROT_VAL", "ROT_ERR"}
          /\ motor # "go" /\ order.data # "go" => motor' # "go"
      BY <1>2, <1>3, <2>1 DEF exec_acked
    <2>3. val' \in Distances \/ val' = val
      BY <1>3 DEF exec_acked, bsh_sens_recv
    <2>4. TypeOK'
      BY <1>3, <2>1, <2>2, <2>3 DEF exec_acked, TypeOK, main, shared, server
    <2>5. Blind'
      BY <1>3, <2>1, <2>2, <2>3, Orders DEF exec_acked, Blind, main, Distances
    <2>6. Threads'
      BY <1>3, <2>1 DEF exec_acked, Threads, main, server
    <2>7. QED
      BY <2>4, <2>5, <2>6
  <1>4. CASE exec_failed
    <2>1. order \in Order /\ order' = None /\ queue \in Seq(Order)
      BY <1>4 DEF exec_failed, TypeOK
    <2>2. /\ motor' \in Velocities /\ steer' \in {"none", "ROT_VAL", "ROT_ERR"}
          /\ motor # "go" /\ order.data # "go" => motor' # "go"
      BY <1>2, <1>4, <2>1 DEF exec_failed, ctrl, TypeOK
    <2>3. /\ queue' \in Seq(Order)
          /\ Standing(queue) /\ order.data # "go" => Standing(queue')
      BY <1>4, <2>1, QueueKeeps DEF exec_failed
    <2>4. faults' \in 0 .. MaxFaults
      BY <1>4, TaxiAssumption DEF exec_failed, TypeOK
    <2>5. UNCHANGED <<main, shared, val, server, bterm, bquit, bpc>>
      BY <1>4 DEF exec_failed
    <2>6. TypeOK'
      BY <2>1, <2>2, <2>3, <2>4, <2>5 DEF TypeOK, main, shared, server
    <2>7. Blind'
      BY <2>1, <2>2, <2>3, <2>5, Orders DEF Blind, main
    <2>8. Threads'
      BY <2>1, <2>5, Orders DEF Threads, main, server
    <2>9. QED
      BY <2>6, <2>7, <2>8
  <1>5. CASE bus_exit
    <2>1. TypeOK' /\ Blind'
      BY <1>5 DEF bus_exit, TypeOK, Blind, main, shared, server, ctrl
    <2>2. Threads'
      BY <1>5 DEF bus_exit, Threads, main, server
    <2>3. QED
      BY <2>1, <2>2
  <1>6. QED
    BY <1>1, <1>3, <1>4, <1>5 DEF BusThread

(* The commands of the server thread keep it. *)
LEMMA ServerInvariant == IInv /\ Server => IInv'
  <1> SUFFICES ASSUME IInv, Server PROVE IInv'
    OBVIOUS
  <1>1. UNCHANGED <<main, val, sterm, bus, ctrl>>
    BY DEF Server, Command, sc_set_auto, sc_set_float, sc_shutdown, server_exit, server
  <1>2. /\ spc' \in {spc, "done"}
        /\ quit' \in BOOLEAN /\ active' \in BOOLEAN /\ rc' \in Velocities
    BY TaxiAssumption
       DEF Server, Command, sc_set_auto, sc_set_float, sc_shutdown, server_exit, server, shared,
           IInv, TypeOK
  <1>3. TypeOK'
    BY <1>1, <1>2 DEF IInv, TypeOK, main, bus, ctrl
  <1>4. Blind'
    BY <1>1 DEF IInv, Blind, main, bus, ctrl
  <1>5. Threads'
    BY <1>1, <1>2 DEF IInv, Threads, main, bus
  <1>6. QED
    BY <1>3, <1>4, <1>5 DEF IInv

(* A step of main that leaves the list alone keeps it. *)
LEMMA QuietMain ==
    ASSUME IInv,
           UNCHANGED <<shared, val, sterm, queue, order, bquit, faults, ctrl>>,
           snap' \in {"none", snap}, vel' \in Velocities, val = "none" => vel' # "go",
           reg' \in BOOLEAN,
           spc' \in {"run", "done"}, bpc' \in {bpc, "done"}, bterm' \in BOOLEAN,
           mpc' \in {"reset", "vel", "stop", "srv", "join", "bus", "wait", "crashed"},
           Threads'
    PROVE  IInv'
  <1>1. TypeOK'
    BY DEF IInv, TypeOK, shared, ctrl
  <1>2. Blind'
    BY DEF IInv, Blind, ctrl
  <1>3. QED
    BY <1>1, <1>2 DEF IInv

(* main keeps it. *)
LEMMA MainInvariant == IInv /\ Main => IInv'
  <1> SUFFICES ASSUME IInv, Main PROVE IInv'
    OBVIOUS
  <1>1. CASE create
    <2>1. Threads'
      BY <1>1 DEF create, Goto, IInv, Threads, bus
    <2>2. QED
      BY <1>1, <2>1, QuietMain DEF create, Goto, bus, IInv, TypeOK, Blind
  <1>2. CASE reset \/ stop
    <2>1. bus_schedule("RST", NoData)
      BY <1>2 DEF reset, stop
    <2>2. /\ queue' \in Seq(Order) /\ (val = "none" => Standing(queue'))
          /\ UNCHANGED <<bterm, order, bquit, bpc, faults>>
      BY <2>1, ScheduleKeeps, Orders DEF NoData
    <2>3. /\ UNCHANGED <<snap, vel, reg, shared, val, server, ctrl>>
          /\ mpc \in {"reset", "stop"} /\ mpc' \in {"top", "srv"}
      BY <1>2 DEF reset, stop, Goto
    <2>4. TypeOK'
      BY <2>2, <2>3 DEF IInv, TypeOK, shared, server, ctrl
    <2>5. Blind' /\ Threads'
      BY <2>2, <2>3 DEF IInv, Blind, Threads, server, ctrl
    <2>6. QED
      BY <2>4, <2>5 DEF IInv
  <1>3. CASE turn
    <2>1. /\ queue' \in Seq(Order) /\ (val = "none" => Standing(queue'))
          /\ UNCHANGED <<bterm, order, bquit, bpc, faults>>
      BY <1>3, ScheduleKeeps, Orders DEF turn, NoData
    <2>2. /\ UNCHANGED <<vel, reg, shared, val, server, ctrl>>
          /\ mpc = "top" /\ mpc' = "drive" /\ snap' = val
      BY <1>3 DEF turn, Goto
    <2>3. TypeOK'
      BY <2>1, <2>2 DEF IInv, TypeOK, shared, server, ctrl
    <2>4. Blind' /\ Threads'
      BY <2>1, <2>2 DEF IInv, Blind, Threads, server, ctrl
    <2>5. QED
      BY <2>3, <2>4 DEF IInv
  <1>4. CASE drive_auto \/ drive_manual
    <2>1. \E v \in Velocities : vel' = Brake(v)
      BY <1>4 DEF drive_auto, drive_manual, IInv, TypeOK, Velocities
    <2>2. vel' \in Velocities /\ (val = "none" => vel' # "go")
      BY <2>1 DEF Brake, IInv, Blind, Velocities, Numbers
    <2>3. /\ UNCHANGED <<shared, val, server, bus, ctrl>>
          /\ mpc = "drive" /\ mpc' = "vel" /\ snap' = "none" /\ reg' \in BOOLEAN
      BY <1>4 DEF drive_auto, drive_manual, Goto
    <2>4. Threads'
      BY <2>3 DEF IInv, Threads, server, bus
    <2>5. QED
      BY <2>1, <2>2, <2>3, <2>4, QuietMain DEF server, bus, IInv, TypeOK
  <1>5. CASE send_vel
    <2>1. vel \in Velocities /\ (val = "none" => vel # "go")
      BY DEF IInv, TypeOK, Blind
    <2>2. /\ queue' \in Seq(Order) /\ (val = "none" => Standing(queue'))
          /\ UNCHANGED <<bterm, order, bquit, bpc, faults>>
      BY <1>5, <2>1, ScheduleKeeps, Orders DEF send_vel
    <2>3. /\ UNCHANGED <<snap, reg, shared, val, server, ctrl>>
          /\ mpc = "vel" /\ mpc' = "rot" /\ vel' = "hold"
      BY <1>5 DEF send_vel, Goto
    <2>4. TypeOK'
      BY <2>2, <2>3 DEF IInv, TypeOK, shared, server, ctrl, Velocities, Numbers
    <2>5. Blind' /\ Threads'
      BY <2>2, <2>3 DEF IInv, Blind, Threads, server, ctrl
    <2>6. QED
      BY <2>4, <2>5 DEF IInv
  <1>6. CASE send_rot
    <2>1. RotCmd \in {"ROT_VAL", "ROT_ERR"} /\ NoData # "go"
      BY DEF RotCmd, NoData
    <2>2. /\ queue' \in Seq(Order) /\ (val = "none" => Standing(queue'))
          /\ UNCHANGED <<bterm, order, bquit, bpc, faults>>
      BY <1>6, <2>1, ScheduleKeeps, Orders DEF send_rot
    <2>3. /\ UNCHANGED <<snap, vel, shared, val, server, ctrl>>
          /\ mpc = "rot" /\ mpc' = "top" /\ reg' = FALSE
      BY <1>6 DEF send_rot, Goto
    <2>4. TypeOK'
      BY <2>2, <2>3 DEF IInv, TypeOK, shared, server, ctrl
    <2>5. Blind' /\ Threads'
      BY <2>2, <2>3 DEF IInv, Blind, Threads, server, ctrl
    <2>6. QED
      BY <2>4, <2>5 DEF IInv
  <1>7. CASE leave \/ srv_destroy \/ srv_join \/ bus_destroy
    <2>1. /\ UNCHANGED <<snap, vel, reg, shared, val, spc, queue, order, bquit, bpc, faults, ctrl>>
          /\ sterm' \in BOOLEAN
          /\ \/ mpc = "top" /\ mpc' = "stop" /\ UNCHANGED bterm
             \/ mpc = "srv" /\ mpc' = "join" /\ UNCHANGED bterm
             \/ mpc = "join" /\ mpc' = "bus" /\ spc = "done" /\ UNCHANGED bterm
             \/ mpc = "bus" /\ mpc' = "wait" /\ bterm' = TRUE
      BY <1>7 DEF leave, srv_destroy, srv_join, bus_destroy, Goto, server, bus, IInv, TypeOK
    <2>2. Threads'
      BY <2>1 DEF IInv, Threads
    <2>3. Blind'
      BY <2>1 DEF IInv, Blind, ctrl
    <2>4. bterm' \in BOOLEAN
      BY <2>1, Zenon DEF IInv, TypeOK
    <2>5. TypeOK'
      BY <2>1, <2>4 DEF IInv, TypeOK, shared, ctrl
    <2>6. QED
      BY <2>2, <2>3, <2>5 DEF IInv
  <1>8. CASE bus_join
    <2>1. TypeOK'
      BY <1>8, EmptySeq DEF bus_join, Goto, IInv, TypeOK, shared, server, ctrl
    <2>2. Blind'
      BY <1>8 DEF bus_join, IInv, Blind, Standing, ctrl
    <2>3. Threads'
      BY <1>8 DEF bus_join, Goto, IInv, Threads, server
    <2>4. QED
      BY <2>1, <2>2, <2>3 DEF IInv
  <1>9. QED
    BY <1>1, <1>2, <1>3, <1>4, <1>5, <1>6, <1>7, <1>8 DEF Main

(* Every step keeps it. *)
LEMMA NextInvariant == IInv /\ [Next]_vars => IInv'
  <1>1. IInv /\ UNCHANGED vars => IInv'
    BY DEF IInv, TypeOK, Blind, Threads, vars, main, shared, server, bus, ctrl
  <1>2. QED
    BY <1>1, BusThreadInvariant, ServerInvariant, MainInvariant DEF Next, finished

(* The invariant holds in every behaviour of main, the server thread and   *)
(* the bus thread, whatever the sensors say and however exchanges end.     *)
THEOREM TaxiInvariant == Spec => []IInv
  BY InitInvariant, NextInvariant, PTL DEF Spec

(* main, the server thread, the bus thread and the control module keep     *)
(* their types, however many exchanges fail.                               *)
THEOREM TypeCorrect == Spec => []TypeOK
  <1>1. IInv => TypeOK
    BY DEF IInv
  <1>2. QED
    BY <1>1, TaxiInvariant, PTL

(* No number the remote or a mission asks for drives the wheels forward    *)
(* before the first sensor answer, however many exchanges fail and however *)
(* long the list of orders has become: the zeros main starts with brake    *)
(* it (Blind).  Only NaN, which main.c:250 lets through, may.              *)
THEOREM NeverBlind == Spec => []BlindStandstill
  <1>1. IInv => BlindStandstill
    BY DEF IInv, Blind, BlindStandstill, Forward
  <1>2. QED
    BY <1>1, TaxiInvariant, PTL

(* The bus outlives those who use it, and main's stack outlives the bus    *)
(* thread (Threads).                                                       *)
THEOREM BusOutlives == Spec => []Lifetimes
  <1>1. IInv => Lifetimes
    BY DEF IInv, TypeOK, Threads, Lifetimes
  <1>2. QED
    BY <1>1, TaxiInvariant, PTL

=============================================================================

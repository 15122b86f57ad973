-------------------------------- MODULE Bus --------------------------------
(***************************************************************************)
(* The bus handler of the communication module, src/src/comm/bus.c.        *)
(*                                                                         *)
(* Any thread of the program schedules orders (bus_schedule); one bus      *)
(* thread (bus_thread) takes them off a linked list in turn and executes   *)
(* them over SPI.  The list is protected by bus->lock, and what a thread   *)
(* does between lock and unlock is one step here: it touches nothing else  *)
(* that is shared.  Everything outside the lock is a step of its own, so   *)
(* the window between "the list is empty" and pthread_cond_timedwait, in   *)
(* which a signal wakes nobody, is explored.                               *)
(*                                                                         *)
(* One SPI exchange is one step whose outcome the environment picks: done  *)
(* and acknowledged, done but the acknowledgement was lost, or not done.   *)
(* SpiLink looks inside that step, byte by byte.                           *)
(***************************************************************************)
EXTENDS OrderList, FiniteSets

CONSTANTS
    Cmds,      \* bus commands: the rows of BCSS and BCCS
    Data,      \* what an order carries (src_dst)
    Clients,   \* threads that call bus_schedule
    None       \* NULL

ASSUME BusAssumption ==
    /\ None \notin Data
    /\ None \notin [bc : Cmds, data : Data]
    /\ IsFiniteSet(Cmds)

VARIABLES
    queue,      \* bus->queue, the list of orders from its head
    terminate,  \* bus->terminate
    order,      \* bus_thread: the order being executed, or None
    quit,       \* bus_thread: the copy of terminate taken with the order
    pc,         \* bus_thread: where it is
    cpc,        \* each client: idle, or about to signal wake_up
    dpc,        \* bus_destroy: how far its only caller is
    live,       \* orders allocated and not yet freed
    slave,      \* what the slave last executed for each command
    latest      \* history: what was last scheduled for each command

vars == <<queue, terminate, order, quit, pc, cpc, dpc, live, slave, latest>>

Order == [bc : Cmds, data : Data]
Places == {"fetch", "exec", "requeue", "sleep", "wait", "done"}

(***************************************************************************)
(* Callers.                                                                *)
(***************************************************************************)

(* bus_create *)
Init ==
    /\ queue = <<>>
    /\ terminate = FALSE
    /\ order = None
    /\ quit = FALSE
    /\ pc = "fetch"
    /\ cpc = [t \in Clients |-> "idle"]
    /\ dpc = "open"
    /\ live = 0
    /\ slave = [c \in Cmds |-> None]
    /\ latest = [c \in Cmds |-> None]

(* bus_schedule: allocate and fill an order, insert it under the lock. *)
bus_schedule(t, c, d) ==
    LET o == [bc |-> c, data |-> d] IN
    /\ dpc = "open"
    /\ cpc[t] = "idle"
    /\ queue' = order_queue(queue, o, FALSE)
    /\ live' = live + 1 - freed_by_queue(queue, o)
    /\ latest' = [latest EXCEPT ![c] = d]
    /\ cpc' = [cpc EXCEPT ![t] = "signal"]
    /\ UNCHANGED <<terminate, order, quit, pc, dpc, slave>>

(* Where bus_thread goes at the end of an iteration: while (!quit). *)
Loop == IF quit THEN "done" ELSE "fetch"

(* pthread_cond_signal: nothing happens unless the bus thread waits. *)
WakeUp == pc' = IF pc = "wait" THEN Loop ELSE pc

(* bus_schedule, its last line: the signal is sent outside every lock. *)
schedule_signal(t) ==
    /\ cpc[t] = "signal"
    /\ cpc' = [cpc EXCEPT ![t] = "idle"]
    /\ WakeUp
    /\ UNCHANGED <<queue, terminate, order, quit, dpc, live, slave, latest>>

(* bus_destroy: called once, when no other thread uses the bus. *)
destroy_terminate ==
    /\ dpc = "open"
    /\ \A t \in Clients : cpc[t] = "idle"
    /\ terminate' = TRUE
    /\ dpc' = "signal"
    /\ UNCHANGED <<queue, order, quit, pc, cpc, live, slave, latest>>

destroy_signal ==
    /\ dpc = "signal"
    /\ dpc' = "join"
    /\ WakeUp
    /\ UNCHANGED <<queue, terminate, order, quit, cpc, live, slave, latest>>

(* bus_destroy after pthread_join: free the orders that are left. *)
destroy_free ==
    /\ dpc = "join"
    /\ pc = "done"
    /\ dpc' = "gone"
    /\ queue' = <<>>
    /\ live' = live - Len(queue)
    /\ UNCHANGED <<terminate, order, quit, pc, cpc, slave, latest>>

(***************************************************************************)
(* bus_thread.                                                             *)
(***************************************************************************)

(* Under the lock: unlink the first order and copy terminate. *)
fetch ==
    /\ pc = "fetch"
    /\ IF queue = <<>>
         THEN pc' = "sleep" /\ UNCHANGED <<queue, order>>
         ELSE /\ pc' = "exec"
              /\ order' = Head(queue)
              /\ queue' = Tail(queue)
    /\ quit' = terminate
    /\ UNCHANGED <<terminate, cpc, dpc, live, slave, latest>>

(* transmit or receive succeeded: call the handler, free the order. *)
exec_acked ==
    /\ pc = "exec"
    /\ slave' = [slave EXCEPT ![order.bc] = order.data]
    /\ order' = None
    /\ live' = live - 1
    /\ pc' = Loop
    /\ UNCHANGED <<queue, terminate, quit, cpc, dpc, latest>>

(* The slave executed the order, but its answer did not come through. *)
exec_ack_lost ==
    /\ pc = "exec"
    /\ slave' = [slave EXCEPT ![order.bc] = order.data]
    /\ pc' = "requeue"
    /\ UNCHANGED <<queue, terminate, order, quit, cpc, dpc, live, latest>>

(* The slave did not execute the order. *)
exec_lost ==
    /\ pc = "exec"
    /\ pc' = "requeue"
    /\ UNCHANGED <<queue, terminate, order, quit, cpc, dpc, live, slave, latest>>

(* order_queue(bus, order, true), then spi_sync and the delay. *)
requeue ==
    /\ pc = "requeue"
    /\ queue' = order_queue(queue, order, TRUE)
    /\ live' = live - freed_by_queue(queue, order)
    /\ order' = None
    /\ pc' = Loop
    /\ UNCHANGED <<terminate, quit, cpc, dpc, slave, latest>>

(* From the unlock to pthread_cond_timedwait. *)
sleep ==
    /\ pc = "sleep"
    /\ pc' = "wait"
    /\ UNCHANGED <<queue, terminate, order, quit, cpc, dpc, live, slave, latest>>

(* Mutant of timeout: pthread_cond_wait, which only a signal ends. *)
timeout_never == FALSE /\ UNCHANGED vars

(* pthread_cond_timedwait returns by itself after WAIT_SLEEP. *)
timeout ==
    /\ pc = "wait"
    /\ pc' = Loop
    /\ UNCHANGED <<queue, terminate, order, quit, cpc, dpc, live, slave, latest>>

(* Everything is over: the bus is freed. *)
Finished == dpc = "gone" /\ UNCHANGED vars

BusThread ==
    \/ fetch \/ exec_acked \/ exec_ack_lost \/ exec_lost
    \/ requeue \/ sleep \/ timeout

Caller ==
    \/ \E t \in Clients, c \in Cmds, d \in Data : bus_schedule(t, c, d)
    \/ \E t \in Clients : schedule_signal(t)
    \/ destroy_terminate \/ destroy_signal \/ destroy_free

Next == BusThread \/ Caller \/ Finished

Spec == Init /\ [][Next]_vars

(***************************************************************************)
(* Fairness.  Threads are scheduled (weak fairness of the bus thread and   *)
(* of a caller that is inside bus_schedule or bus_destroy).  Nothing       *)
(* forces a caller to schedule or destroy, and nothing forces an exchange  *)
(* to succeed.                                                             *)
(***************************************************************************)
Fairness ==
    /\ WF_vars(BusThread)
    /\ \A t \in Clients : WF_vars(schedule_signal(t))
    /\ WF_vars(destroy_signal)
    /\ WF_vars(destroy_free)

FairSpec == Spec /\ Fairness

(***************************************************************************)
(* Safety.                                                                 *)
(***************************************************************************)
TypeOK ==
    /\ queue \in Seq(Order)
    /\ terminate \in BOOLEAN
    /\ order \in Order \union {None}
    /\ quit \in BOOLEAN
    /\ pc \in Places
    /\ cpc \in [Clients -> {"idle", "signal"}]
    /\ dpc \in {"open", "signal", "join", "gone"}
    /\ live \in Nat
    /\ slave \in [Cmds -> Data \union {None}]
    /\ latest \in [Cmds -> Data \union {None}]

(* However schedulings, failures and put-backs interleave, the list never  *)
(* holds two orders of one command (order_queue replaces, and drops a      *)
(* put-back order that was overtaken).  So the list is never longer than   *)
(* the command table, whatever rate the main loop schedules at.            *)
OneOrderPerCmd ==
    \A i, j \in DOMAIN queue : queue[i].bc = queue[j].bc => i = j

(* Whether the bus thread holds an order of command c. *)
Held(c) == order # None /\ order.bc = c

(* The data queued for command c, or None. *)
Pending(q, c) == IF Queued(q, c) THEN q[Place(q, c)].data ELSE None

(* What the slave has executed for c once the pending order of c, if any,  *)
(* has got through.                                                        *)
Outcome(c) ==
    IF Pending(queue, c) # None THEN Pending(queue, c)
    ELSE IF Held(c) THEN order.data
    ELSE slave[c]

(* While the bus exists the newest value scheduled for a command is never  *)
(* lost and never overwritten by an older one: it is queued, or held by    *)
(* the bus thread, or the slave has it.  A failed old order that is put    *)
(* back must not displace a newer one scheduled during the exchange.       *)
NewestNeverLost == dpc # "gone" => \A c \in Cmds : Outcome(c) = latest[c]

(* Every allocated order is in the list or in the bus thread's hands       *)
(* (order_destroy frees each exactly once), and none outlives the bus.     *)
MemoryAccounted ==
    /\ live = Len(queue) + (IF order = None THEN 0 ELSE 1)
    /\ dpc = "gone" => live = 0

(* A queued order is only ever moved towards the head: neither scheduling  *)
(* its command again nor putting back other orders sends it to the end.    *)
NoOvertaking ==
    [][\A c \in Cmds :
         Queued(queue, c) /\ Queued(queue', c) => Place(queue', c) =< Place(queue, c)]_vars

(* The bus implements one mail slot per command. *)
MB == INSTANCE Mailbox WITH
        mail <- [c \in Cmds |-> Pending(queue, c)],
        inhand <- order

(* Every behaviour of the list, the bus thread and its callers is one of   *)
(* the mail slots: the list, its order and the retries are invisible       *)
(* except for when an order is taken.                                      *)
RefinesMailbox == MB!Spec

(***************************************************************************)
(* Liveness.                                                               *)
(***************************************************************************)

(* A queued command is tried, even if the orders before it keep failing:   *)
(* a failed order goes to the end of the list.                             *)
Serviced == \A c \in Cmds : Queued(queue, c) ~> Held(c) \/ terminate

(* bus_destroy returns, although its only signal may fall in the window    *)
(* between the unlock and pthread_cond_timedwait of the bus thread.        *)
DestroyReturns == terminate ~> dpc = "gone"
=============================================================================

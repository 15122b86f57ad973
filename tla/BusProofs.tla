----------------------------- MODULE BusProofs -----------------------------
(***************************************************************************)
(* Proofs about the bus handler, for any number of commands, data and      *)
(* client threads.                                                         *)
(***************************************************************************)
EXTENDS Bus, FiniteSetTheorems, SequenceTheorems, TLAPS

(* The bus thread holds an order exactly while it executes or requeues it. *)
HeldWhileExecuting == (order # None) <=> (pc \in {"exec", "requeue"})

(* bus_destroy frees the bus only after the bus thread has ended. *)
GoneIsEmpty == dpc = "gone" => pc = "done" /\ queue = <<>>

(* The inductive invariant. *)
IInv ==
    /\ TypeOK
    /\ OneOrderPerCmd
    /\ NewestNeverLost
    /\ MemoryAccounted
    /\ HeldWhileExecuting
    /\ GoneIsEmpty

(***************************************************************************)
(* The list.                                                               *)
(***************************************************************************)
Distinct(q) == \A i, j \in DOMAIN q : q[i].bc = q[j].bc => i = j

(* Place finds the order of a queued command. *)
LEMMA PlaceFinds ==
    ASSUME NEW q \in Seq(Order), NEW c, Queued(q, c)
    PROVE  Place(q, c) \in DOMAIN q /\ q[Place(q, c)].bc = c
  BY DEF Queued, Place

(* In a list with one order per command Place is the only position. *)
LEMMA PlaceUnique ==
    ASSUME NEW q \in Seq(Order), Distinct(q), NEW i \in DOMAIN q, NEW c, q[i].bc = c
    PROVE  Queued(q, c) /\ Place(q, c) = i
  <1>1. Queued(q, c)
    BY DEF Queued
  <1>2. QED
    BY <1>1, PlaceFinds DEF Distinct

(* What is pending for a command is the data of its only order, *)
LEMMA PendingData ==
    ASSUME NEW q \in Seq(Order), Distinct(q), NEW i \in DOMAIN q
    PROVE  Pending(q, q[i].bc) = q[i].data
  BY PlaceUnique DEF Pending

(* and something is pending exactly for the queued commands. *)
LEMMA PendingQueued ==
    ASSUME NEW q \in Seq(Order), NEW c
    PROVE  /\ Queued(q, c) => Pending(q, c) \in Data /\ Pending(q, c) # None
           /\ ~Queued(q, c) => Pending(q, c) = None
  <1>1. ASSUME Queued(q, c) PROVE Pending(q, c) \in Data
    <2>1. Place(q, c) \in DOMAIN q
      BY <1>1, PlaceFinds
    <2>2. q[Place(q, c)] \in Order
      BY <2>1
    <2>3. QED
      BY <1>1, <2>2 DEF Pending, Order
  <1>2. QED
    BY <1>1, BusAssumption DEF Pending

(* Two lists with one order per command in which c has an order with the   *)
(* same data, or has none, have the same pending for c.                    *)
LEMMA SamePending ==
    ASSUME NEW q \in Seq(Order), Distinct(q), NEW r \in Seq(Order), Distinct(r), NEW c,
           \A i \in DOMAIN q : q[i].bc = c => \E j \in DOMAIN r : r[j] = q[i],
           \A j \in DOMAIN r : r[j].bc = c => \E i \in DOMAIN q : q[i] = r[j]
    PROVE  Pending(q, c) = Pending(r, c)
  <1>1. CASE Queued(q, c)
    <2>1. PICK i \in DOMAIN q : q[i].bc = c
      BY <1>1 DEF Queued
    <2>2. PICK j \in DOMAIN r : r[j] = q[i]
      BY <2>1
    <2>3. Pending(q, c) = q[i].data /\ Pending(r, c) = r[j].data
      BY <2>1, <2>2, PendingData
    <2>4. QED
      BY <2>2, <2>3
  <1>2. CASE ~Queued(q, c)
    <2>1. ~Queued(r, c)
      BY <1>2 DEF Queued
    <2>2. QED
      BY <1>2, <2>1 DEF Pending
  <1>3. QED
    BY <1>1, <1>2

(* Turning q into r changes what is pending for command c, and nothing else. *)
Changes(q, r, c, d) ==
    /\ r \in Seq(Order)
    /\ Distinct(r)
    /\ Pending(r, c) = d
    /\ \A e : e # c => Pending(r, e) = Pending(q, e)

(* Replacing the order of a queued command by another order of it. *)
Replaced(q, o) == [q EXCEPT ![Place(q, o.bc)] = o]

(* What replacing the order at some place does: the order is found there   *)
(* again, every other command stays as it was.                             *)
LEMMA ReplaceOrder ==
    ASSUME NEW q \in Seq(Order), Distinct(q), NEW o \in Order, Queued(q, o.bc)
    PROVE  Changes(q, Replaced(q, o), o.bc, o.data)
  <1> DEFINE p == Place(q, o.bc)
             r == Replaced(q, o)
  <1>1. p \in DOMAIN q /\ q[p].bc = o.bc
    BY PlaceFinds
  <1>2. r \in Seq(Order) /\ DOMAIN r = DOMAIN q /\ r[p] = o
    BY <1>1 DEF Replaced
  <1>3. \A i \in DOMAIN q : i # p => r[i] = q[i]
    BY <1>1 DEF Replaced
  <1> HIDE DEF p, r
  <1>4. \A i \in DOMAIN q : r[i].bc = q[i].bc
    BY <1>1, <1>2, <1>3
  <1>5. Distinct(r)
    BY <1>2, <1>4 DEF Distinct
  <1>6. Pending(r, o.bc) = o.data
    BY <1>1, <1>2, <1>5, PendingData
  <1>7. ASSUME NEW c, c # o.bc PROVE Pending(r, c) = Pending(q, c)
    <2>1. \A i \in DOMAIN q : q[i].bc = c => i \in DOMAIN r /\ r[i] = q[i]
      BY <1>1, <1>2, <1>3, <1>7
    <2>2. \A j \in DOMAIN r : r[j].bc = c => j \in DOMAIN q /\ q[j] = r[j]
      BY <1>2, <1>3, <1>7
    <2>3. QED
      BY <1>2, <1>5, <2>1, <2>2, SamePending
  <1>8. QED
    BY <1>2, <1>5, <1>6, <1>7 DEF Changes, r

(* Appending an order of a command that is not queued. *)
LEMMA AppendOrder ==
    ASSUME NEW q \in Seq(Order), Distinct(q), NEW o \in Order, ~Queued(q, o.bc)
    PROVE  Changes(q, Append(q, o), o.bc, o.data)
  <1> DEFINE r == Append(q, o)
  <1>1. r \in Seq(Order) /\ DOMAIN r = 1 .. Len(q) + 1 /\ DOMAIN q = 1 .. Len(q) /\ Len(q) \in Nat
    OBVIOUS
  <1>2. (\A i \in DOMAIN q : r[i] = q[i]) /\ r[Len(q) + 1] = o
    OBVIOUS
  <1> HIDE DEF r
  <1>3. \A i \in DOMAIN q : q[i].bc # o.bc
    BY DEF Queued
  <1>4. \A i \in DOMAIN r : i \in DOMAIN q \/ i = Len(q) + 1
    BY <1>1
  <1>5. (DOMAIN q) \subseteq (DOMAIN r) /\ Len(q) + 1 \in DOMAIN r
    BY <1>1
  <1>6. Distinct(r)
    <2> SUFFICES ASSUME NEW i \in DOMAIN r, NEW j \in DOMAIN r, r[i].bc = r[j].bc
                 PROVE  i = j
      BY DEF Distinct
    <2>1. CASE i \in DOMAIN q /\ j \in DOMAIN q
      BY <1>2, <2>1 DEF Distinct
    <2>2. CASE i \notin DOMAIN q \/ j \notin DOMAIN q
      BY <1>2, <1>3, <1>4, <2>2
    <2>3. QED
      BY <2>1, <2>2
  <1>7. Pending(r, o.bc) = o.data
    BY <1>1, <1>2, <1>5, <1>6, PendingData
  <1>8. ASSUME NEW c, c # o.bc PROVE Pending(r, c) = Pending(q, c)
    <2>1. \A i \in DOMAIN q : q[i].bc = c => i \in DOMAIN r /\ r[i] = q[i]
      BY <1>2, <1>5
    <2>2. \A j \in DOMAIN r : r[j].bc = c => j \in DOMAIN q /\ q[j] = r[j]
      BY <1>2, <1>4, <1>8
    <2>3. QED
      BY <1>1, <1>6, <2>1, <2>2, SamePending
  <1>9. QED
    BY <1>1, <1>6, <1>7, <1>8 DEF Changes, r

(* Unlinking the first order. *)
LEMMA UnlinkHead ==
    ASSUME NEW q \in Seq(Order), Distinct(q), q # <<>>
    PROVE  /\ Head(q) \in Order
           /\ Pending(q, Head(q).bc) = Head(q).data
           /\ Changes(q, Tail(q), Head(q).bc, None)
  <1> DEFINE r == Tail(q)
             h == Head(q)
  <1>1. /\ r \in Seq(Order) /\ DOMAIN r = 1 .. Len(q) - 1
        /\ Len(q) \in Nat \ {0} /\ DOMAIN q = 1 .. Len(q) /\ h = q[1] /\ h \in Order
    OBVIOUS
  <1>2. \A i \in DOMAIN r : i + 1 \in DOMAIN q /\ i + 1 # 1 /\ r[i] = q[i + 1]
    BY <1>1
  <1>3. \A i \in DOMAIN q : i # 1 => i - 1 \in DOMAIN r /\ r[i - 1] = q[i]
    BY <1>1
  <1> HIDE DEF r, h
  <1>4. 1 \in DOMAIN q
    BY <1>1
  <1>5. Distinct(r)
    <2> SUFFICES ASSUME NEW i \in DOMAIN r, NEW j \in DOMAIN r, r[i].bc = r[j].bc
                 PROVE  i = j
      BY DEF Distinct
    <2>1. i + 1 = j + 1
      BY <1>2 DEF Distinct
    <2>2. QED
      BY <1>1, <2>1
  <1>6. Pending(q, h.bc) = h.data
    BY <1>1, <1>4, PendingData
  <1>7. \A j \in DOMAIN r : r[j].bc # h.bc
    BY <1>1, <1>2, <1>4 DEF Distinct
  <1>8. Pending(r, h.bc) = None
    BY <1>7 DEF Pending, Queued
  <1>9. ASSUME NEW c, c # h.bc PROVE Pending(r, c) = Pending(q, c)
    <2>1. \A i \in DOMAIN q : q[i].bc = c => i - 1 \in DOMAIN r /\ r[i - 1] = q[i]
      BY <1>1, <1>3, <1>9
    <2>2. \A j \in DOMAIN r : r[j].bc = c => j + 1 \in DOMAIN q /\ q[j + 1] = r[j]
      BY <1>2
    <2>3. QED
      BY <1>1, <1>5, <2>1, <2>2, SamePending
  <1>10. QED
    BY <1>1, <1>5, <1>6, <1>8, <1>9 DEF Changes, r, h

(* order_queue frees one order exactly when the list does not grow. *)
LEMMA QueueLength ==
    ASSUME NEW q \in Seq(Order), NEW o \in Order, NEW rq \in {TRUE, FALSE}
    PROVE  /\ freed_by_queue(q, o) \in Nat
           /\ Len(order_queue(q, o, rq)) = Len(q) + 1 - freed_by_queue(q, o)
  <1>1. Len(q) \in Nat
    OBVIOUS
  <1>2. CASE ~Queued(q, o.bc)
    <2>1. order_queue(q, o, rq) = Append(q, o) /\ freed_by_queue(q, o) = 0
      BY <1>2 DEF order_queue, freed_by_queue
    <2>2. Len(Append(q, o)) = Len(q) + 1
      OBVIOUS
    <2>3. QED
      BY <1>1, <2>1, <2>2
  <1>3. CASE Queued(q, o.bc)
    <2>1. Place(q, o.bc) \in DOMAIN q
      BY <1>3, PlaceFinds
    <2>2. Len([q EXCEPT ![Place(q, o.bc)] = o]) = Len(q)
      BY <2>1
    <2>3. order_queue(q, o, rq) \in {q, [q EXCEPT ![Place(q, o.bc)] = o]}
      BY <1>3 DEF order_queue
    <2>4. freed_by_queue(q, o) = 1
      BY <1>3 DEF freed_by_queue
    <2>5. QED
      BY <1>1, <2>2, <2>3, <2>4
  <1>4. QED
    BY <1>2, <1>3

(* What order_queue does to a list with one order per command: it keeps it *)
(* so and touches no other command.  A new order wins over the queued one  *)
(* of its command ...                                                      *)
LEMMA QueueNew ==
    ASSUME NEW q \in Seq(Order), Distinct(q), NEW o \in Order
    PROVE  Changes(q, order_queue(q, o, FALSE), o.bc, o.data)
  <1>1. CASE ~Queued(q, o.bc)
    <2>1. order_queue(q, o, FALSE) = Append(q, o)
      BY <1>1 DEF order_queue
    <2>2. QED
      BY <1>1, <2>1, AppendOrder
  <1>2. CASE Queued(q, o.bc)
    <2>1. order_queue(q, o, FALSE) = Replaced(q, o)
      BY <1>2 DEF order_queue, Replaced
    <2>2. QED
      BY <1>2, <2>1, ReplaceOrder
  <1>3. QED
    BY <1>1, <1>2

(* ... and a put-back order yields to it. *)
LEMMA QueueBack ==
    ASSUME NEW q \in Seq(Order), Distinct(q), NEW o \in Order
    PROVE  Changes(q, order_queue(q, o, TRUE), o.bc,
                   IF Pending(q, o.bc) = None THEN o.data ELSE Pending(q, o.bc))
  <1>1. CASE ~Queued(q, o.bc)
    <2>1. order_queue(q, o, TRUE) = Append(q, o)
      BY <1>1 DEF order_queue
    <2>2. Pending(q, o.bc) = None
      BY <1>1 DEF Pending
    <2>3. QED
      BY <1>1, <2>1, <2>2, AppendOrder
  <1>2. CASE Queued(q, o.bc)
    <2>1. order_queue(q, o, TRUE) = q
      BY <1>2 DEF order_queue
    <2>2. Pending(q, o.bc) # None
      BY <1>2, PendingQueued
    <2>3. QED
      BY <2>1, <2>2 DEF Changes
  <1>3. QED
    BY <1>1, <1>2

(***************************************************************************)
(* The invariant.                                                          *)
(***************************************************************************)
LEMMA InitInvariant == Init => IInv
  <1> SUFFICES ASSUME Init PROVE IInv
    OBVIOUS
  <1>1. queue = <<>> /\ DOMAIN queue = {} /\ order = None
    BY DEF Init
  <1>2. TypeOK
    <2>1. slave \in [Cmds -> Data \union {None}] /\ latest \in [Cmds -> Data \union {None}]
      BY DEF Init
    <2>2. cpc \in [Clients -> {"idle", "signal"}] /\ queue \in Seq(Order)
      BY DEF Init
    <2>3. QED
      BY <2>1, <2>2 DEF Init, TypeOK, Places
  <1>3. NewestNeverLost
    BY <1>1 DEF Init, NewestNeverLost, Outcome, Pending, Queued, Held
  <1>4. QED
    BY <1>1, <1>2, <1>3
       DEF Init, IInv, OneOrderPerCmd, MemoryAccounted, HeldWhileExecuting, GoneIsEmpty

(* A step that leaves the list, the order at hand and the histories alone. *)
LEMMA QuietStep ==
    ASSUME IInv, UNCHANGED <<queue, order, live, slave, latest>>, TypeOK',
           HeldWhileExecuting', GoneIsEmpty', dpc' = "gone" <=> dpc = "gone"
    PROVE  IInv'
  BY DEF IInv, OneOrderPerCmd, NewestNeverLost, Outcome, Held, MemoryAccounted

(* A caller inserts an order. *)
LEMMA ScheduleInvariant ==
    ASSUME IInv, NEW t \in Clients, NEW c \in Cmds, NEW d \in Data, bus_schedule(t, c, d)
    PROVE  IInv'
  <1> DEFINE o == [bc |-> c, data |-> d]
  <1>1. o \in Order /\ o.bc = c /\ o.data = d
    BY DEF Order
  <1>2. queue \in Seq(Order) /\ Distinct(queue)
    BY DEF IInv, TypeOK, OneOrderPerCmd, Distinct
  <1>3. queue' = order_queue(queue, o, FALSE)
    BY DEF bus_schedule
  <1> HIDE DEF o
  <1>4. /\ queue' \in Seq(Order) /\ Distinct(queue')
        /\ Pending(queue', c) = d
        /\ \A e : e # c => Pending(queue', e) = Pending(queue, e)
    BY <1>1, <1>2, <1>3, QueueNew DEF Changes
  <1>5. MemoryAccounted' /\ live' \in Nat
    <2>1. live' = live + 1 - freed_by_queue(queue, o)
      BY DEF bus_schedule, o
    <2>2. Len(queue') = Len(queue) + 1 - freed_by_queue(queue, o) /\ freed_by_queue(queue, o) \in Nat
      BY <1>1, <1>2, <1>3, QueueLength
    <2>3. dpc' = "open" /\ order' = order
      BY DEF bus_schedule
    <2>4. Len(queue) \in Nat /\ Len(queue') \in Nat
      BY <1>2, <1>4
    <2>5. live' = Len(queue') + (IF order' = None THEN 0 ELSE 1)
      BY <2>1, <2>2, <2>3, <2>4 DEF IInv, MemoryAccounted
    <2>6. QED
      BY <2>3, <2>4, <2>5 DEF MemoryAccounted
  <1>6. TypeOK'
    BY <1>2, <1>4, <1>5 DEF IInv, TypeOK, bus_schedule
  <1>7. NewestNeverLost'
    <2> SUFFICES ASSUME NEW e \in Cmds PROVE Outcome(e)' = latest'[e]
      BY DEF NewestNeverLost
    <2>1. dpc # "gone" /\ latest' = [latest EXCEPT ![c] = d] /\ order' = order /\ slave' = slave
      BY DEF bus_schedule
    <2>2. Outcome(e) = latest[e] /\ latest \in [Cmds -> Data \union {None}]
      BY <2>1 DEF IInv, NewestNeverLost, TypeOK
    <2>3. CASE e = c
      BY <1>1, <1>4, <2>1, <2>2, <2>3, BusAssumption DEF Outcome
    <2>4. CASE e # c
      BY <1>4, <2>1, <2>2, <2>4 DEF Outcome, Held
    <2>5. QED
      BY <2>3, <2>4
  <1>8. QED
    BY <1>2, <1>4, <1>5, <1>6, <1>7
       DEF IInv, bus_schedule, OneOrderPerCmd, Distinct, HeldWhileExecuting, GoneIsEmpty

(* The bus thread unlinks the first order, or finds none. *)
LEMMA FetchInvariant ==
    ASSUME IInv, fetch
    PROVE  IInv'
  <1>1. queue \in Seq(Order) /\ Distinct(queue) /\ order = None /\ pc = "fetch" /\ dpc # "gone"
    BY DEF IInv, TypeOK, OneOrderPerCmd, Distinct, HeldWhileExecuting, GoneIsEmpty, fetch
  <1>2. CASE queue = <<>>
    <2>1. UNCHANGED <<queue, order, live, slave, latest, dpc>> /\ pc' = "sleep"
      BY <1>2 DEF fetch
    <2>2. TypeOK'
      BY <2>1 DEF IInv, TypeOK, fetch, Places
    <2>3. QED
      BY <1>1, <2>1, <2>2, QuietStep DEF HeldWhileExecuting, GoneIsEmpty
  <1>3. CASE queue # <<>>
    <2>1. /\ pc' = "exec" /\ order' = Head(queue) /\ queue' = Tail(queue) /\ quit' = terminate
          /\ UNCHANGED <<terminate, cpc, dpc, live, slave, latest>>
      BY <1>3 DEF fetch
    <2>2. /\ order' \in Order /\ queue' \in Seq(Order)
          /\ Distinct(queue')
          /\ Pending(queue, order'.bc) = order'.data /\ Pending(queue', order'.bc) = None
          /\ \A c : c # order'.bc => Pending(queue', c) = Pending(queue, c)
      BY <1>1, <1>3, <2>1, UnlinkHead DEF Changes
    <2>3. order' # None
      BY <2>2, BusAssumption DEF Order
    <2>4. TypeOK'
      BY <2>1, <2>2 DEF IInv, TypeOK, Places
    <2>5. NewestNeverLost'
      <3> SUFFICES ASSUME NEW c \in Cmds PROVE Outcome(c)' = latest'[c]
        BY DEF NewestNeverLost
      <3>1. Outcome(c) = latest[c]
        BY <1>1 DEF IInv, NewestNeverLost
      <3>2. CASE c = order'.bc
        <4>1. order'.data # None
          BY <2>2, BusAssumption DEF Order
        <4>2. QED
          BY <2>1, <2>2, <2>3, <3>1, <3>2, <4>1 DEF Outcome, Held
      <3>3. CASE c # order'.bc
        BY <1>1, <2>1, <2>2, <3>1, <3>3 DEF Outcome, Held
      <3>4. QED
        BY <3>2, <3>3
    <2>6. MemoryAccounted'
      <3>1. Len(queue') = Len(queue) - 1 /\ Len(queue) \in Nat
        BY <1>1, <1>3, <2>1
      <3>2. QED
        BY <1>1, <2>1, <2>3, <3>1 DEF IInv, MemoryAccounted
    <2>7. QED
      BY <1>1, <2>1, <2>2, <2>3, <2>4, <2>5, <2>6
         DEF IInv, OneOrderPerCmd, Distinct, HeldWhileExecuting, GoneIsEmpty
  <1>4. QED
    BY <1>2, <1>3

(* A failed order is put back, or dropped because a newer one is queued. *)
LEMMA RequeueInvariant ==
    ASSUME IInv, requeue
    PROVE  IInv'
  <1>1. /\ queue \in Seq(Order) /\ Distinct(queue) /\ order \in Order /\ order # None
        /\ pc = "requeue" /\ dpc # "gone" /\ order.bc \in Cmds
    BY DEF IInv, TypeOK, OneOrderPerCmd, Distinct, HeldWhileExecuting, GoneIsEmpty, requeue, Order
  <1>2. /\ queue' = order_queue(queue, order, TRUE) /\ order' = None
        /\ live' = live - freed_by_queue(queue, order)
        /\ pc' \in {"done", "fetch"}
        /\ UNCHANGED <<terminate, quit, cpc, dpc, slave, latest>>
    BY DEF requeue, Loop
  <1>3. /\ queue' \in Seq(Order) /\ Distinct(queue')
        /\ Pending(queue', order.bc)
             = IF Pending(queue, order.bc) = None THEN order.data ELSE Pending(queue, order.bc)
        /\ \A e : e # order.bc => Pending(queue', e) = Pending(queue, e)
    BY <1>1, <1>2, QueueBack DEF Changes
  <1>4. MemoryAccounted' /\ live' \in Nat
    <2>1. /\ Len(queue') = Len(queue) + 1 - freed_by_queue(queue, order)
          /\ freed_by_queue(queue, order) \in Nat
      BY <1>1, <1>2, QueueLength
    <2>2. Len(queue) \in Nat /\ Len(queue') \in Nat
      BY <1>1, <1>3
    <2>3. live = Len(queue) + 1
      BY <1>1 DEF IInv, MemoryAccounted
    <2>4. live' = live - freed_by_queue(queue, order)
      BY <1>2
    <2>5. live' = Len(queue')
      BY <2>1, <2>2, <2>3, <2>4
    <2>6. order' = None /\ dpc' # "gone"
      BY <1>1, <1>2
    <2>7. QED
      BY <2>2, <2>5, <2>6 DEF MemoryAccounted
  <1>6. TypeOK'
    BY <1>2, <1>3, <1>4 DEF IInv, TypeOK, Places
  <1>7. NewestNeverLost'
    <2> SUFFICES ASSUME NEW e \in Cmds PROVE Outcome(e)' = latest'[e]
      BY DEF NewestNeverLost
    <2>1. Outcome(e) = latest[e]
      BY <1>1 DEF IInv, NewestNeverLost
    <2>2. CASE e = order.bc
      <3>1. order.data # None
        BY <1>1, BusAssumption DEF Order
      <3>2. QED
        BY <1>1, <1>2, <1>3, <2>1, <2>2, <3>1 DEF Outcome, Held
    <2>3. CASE e # order.bc
      BY <1>1, <1>2, <1>3, <2>1, <2>3 DEF Outcome, Held
    <2>4. QED
      BY <2>2, <2>3
  <1>8. QED
    BY <1>1, <1>2, <1>3, <1>4, <1>6, <1>7
       DEF IInv, OneOrderPerCmd, Distinct, HeldWhileExecuting, GoneIsEmpty

(* The slave executes the order at hand, whether or not the master learns. *)
LEMMA ExecuteInvariant ==
    ASSUME IInv, exec_acked \/ exec_ack_lost
    PROVE  IInv'
  <1>1. /\ order \in Order /\ order # None /\ pc = "exec" /\ dpc # "gone"
        /\ order.bc \in Cmds /\ order.data \in Data /\ queue \in Seq(Order)
    BY DEF IInv, TypeOK, HeldWhileExecuting, GoneIsEmpty, exec_acked, exec_ack_lost, Order
  <1>2. /\ slave' = [slave EXCEPT ![order.bc] = order.data]
        /\ UNCHANGED <<queue, terminate, quit, cpc, dpc, latest>>
        /\ \/ order' = None /\ live' = live - 1 /\ pc' \in {"done", "fetch"}
           \/ order' = order /\ live' = live /\ pc' = "requeue"
    BY DEF exec_acked, exec_ack_lost, Loop
  <1>3. MemoryAccounted'
    BY <1>1, <1>2 DEF IInv, MemoryAccounted
  <1>4. live' \in Nat
    BY <1>1, <1>2, <1>3 DEF MemoryAccounted
  <1>5. TypeOK'
    BY <1>1, <1>2, <1>4 DEF IInv, TypeOK, Places
  <1>6. NewestNeverLost'
    <2> SUFFICES ASSUME NEW c \in Cmds PROVE Outcome(c)' = latest'[c]
      BY DEF NewestNeverLost
    <2>1. Outcome(c) = latest[c] /\ slave \in [Cmds -> Data \union {None}]
      BY <1>1 DEF IInv, NewestNeverLost, TypeOK
    <2>2. QED
      BY <1>1, <1>2, <2>1 DEF Outcome, Held
  <1>7. QED
    BY <1>1, <1>2, <1>3, <1>5, <1>6 DEF IInv, OneOrderPerCmd, HeldWhileExecuting, GoneIsEmpty

(* bus_destroy frees what is left once the bus thread has ended. *)
LEMMA FreeInvariant ==
    ASSUME IInv, destroy_free
    PROVE  IInv'
  <1>1. order = None /\ pc = "done" /\ live = Len(queue) /\ queue \in Seq(Order)
    BY DEF IInv, TypeOK, HeldWhileExecuting, MemoryAccounted, destroy_free
  <1>2. /\ queue' = <<>> /\ live' = 0 /\ dpc' = "gone" /\ Len(queue') = 0 /\ DOMAIN queue' = {}
        /\ UNCHANGED <<terminate, order, quit, pc, cpc, slave, latest>>
    BY <1>1 DEF destroy_free
  <1>3. TypeOK'
    BY <1>2 DEF IInv, TypeOK
  <1>4. QED
    BY <1>1, <1>2, <1>3
       DEF IInv, OneOrderPerCmd, NewestNeverLost, MemoryAccounted, HeldWhileExecuting, GoneIsEmpty

(* Every step keeps the invariant. *)
LEMMA NextInvariant == IInv /\ [Next]_vars => IInv'
  <1> SUFFICES ASSUME IInv, [Next]_vars PROVE IInv'
    OBVIOUS
  <1>1. ASSUME NEW t \in Clients, NEW c \in Cmds, NEW d \in Data, bus_schedule(t, c, d)
        PROVE  IInv'
    BY <1>1, ScheduleInvariant
  <1>2. CASE fetch
    BY <1>2, FetchInvariant
  <1>3. CASE exec_acked \/ exec_ack_lost
    BY <1>3, ExecuteInvariant
  <1>4. CASE requeue
    BY <1>4, RequeueInvariant
  <1>5. CASE destroy_free
    BY <1>5, FreeInvariant
  <1>6. ASSUME \/ \E t \in Clients : schedule_signal(t)
               \/ destroy_terminate \/ destroy_signal \/ exec_lost \/ sleep \/ timeout
        PROVE  IInv'
    <2>1. UNCHANGED <<queue, order, live, slave, latest>>
      BY <1>6 DEF schedule_signal, destroy_terminate, destroy_signal, exec_lost, sleep, timeout
    <2>2. TypeOK' /\ HeldWhileExecuting' /\ GoneIsEmpty' /\ (dpc' = "gone" <=> dpc = "gone")
      BY <1>6 DEF IInv, TypeOK, HeldWhileExecuting, GoneIsEmpty, Places, Loop, WakeUp,
                  schedule_signal, destroy_terminate, destroy_signal, exec_lost, sleep, timeout
    <2>3. QED
      BY <2>1, <2>2, QuietStep
  <1>7. CASE UNCHANGED vars
    BY <1>7 DEF vars, IInv, TypeOK, OneOrderPerCmd, NewestNeverLost, Outcome, Held,
                MemoryAccounted, HeldWhileExecuting, GoneIsEmpty
  <1>8. QED
    BY <1>1, <1>2, <1>3, <1>4, <1>5, <1>6, <1>7 DEF Next, BusThread, Caller, Finished

(* The invariant holds in every reachable state. *)
THEOREM BusInvariant == Spec => []IInv
  BY InitInvariant, NextInvariant, PTL DEF Spec

(* Type correctness. *)
THEOREM TypeCorrect == Spec => []TypeOK
  BY BusInvariant, PTL DEF IInv

(* No interleaving of schedulings, failures and put-backs gets two orders  *)
(* of one command into the list.                                           *)
THEOREM NoDuplicates == Spec => []OneOrderPerCmd
  BY BusInvariant, PTL DEF IInv

(* The newest value scheduled is never lost while the bus exists. *)
THEOREM NothingLost == Spec => []NewestNeverLost
  BY BusInvariant, PTL DEF IInv

(* No order leaks and none is freed twice. *)
THEOREM NoLeak == Spec => []MemoryAccounted
  BY BusInvariant, PTL DEF IInv

(***************************************************************************)
(* The list is bounded by the command table.                               *)
(***************************************************************************)
QueueBounded == Len(queue) =< Cardinality(Cmds)

(* One order per command: the positions inject into the commands. *)
LEMMA BoundedByCommands == TypeOK /\ OneOrderPerCmd => QueueBounded
  <1> SUFFICES ASSUME TypeOK, OneOrderPerCmd PROVE QueueBounded
    OBVIOUS
  <1> DEFINE f == [i \in 1 .. Len(queue) |-> queue[i].bc]
  <1>1. queue \in Seq(Order) /\ Len(queue) \in Nat /\ DOMAIN queue = 1 .. Len(queue)
    BY DEF TypeOK
  <1>2. \A i \in 1 .. Len(queue) : queue[i] \in Order
    BY <1>1
  <1>3. f \in [1 .. Len(queue) -> Cmds]
    BY <1>2 DEF Order
  <1>4. \A i, j \in 1 .. Len(queue) : f[i] = f[j] => i = j
    BY <1>1 DEF OneOrderPerCmd
  <1>5. f \in Injection(1 .. Len(queue), Cmds)
    BY <1>3, <1>4 DEF Injection, IsInjective
  <1>6. IsFiniteSet(1 .. Len(queue)) /\ Cardinality(1 .. Len(queue)) = Len(queue)
    <2>1. Cardinality(1 .. Len(queue)) = IF 1 > Len(queue) THEN 0 ELSE Len(queue) - 1 + 1
      BY <1>1, FS_Interval
    <2>2. IsFiniteSet(1 .. Len(queue))
      BY <1>1, FS_Interval
    <2>3. QED
      BY <1>1, <2>1, <2>2
  <1>7. Cardinality(1 .. Len(queue)) =< Cardinality(Cmds)
    BY <1>5, <1>6, BusAssumption, FS_Injection
  <1>8. QED
    BY <1>6, <1>7 DEF QueueBounded

(* However fast the main loop schedules and however long exchanges fail,   *)
(* the list is never longer than the command table.                        *)
THEOREM ListBounded == Spec => []QueueBounded
  BY NoDuplicates, TypeCorrect, BoundedByCommands, PTL

(***************************************************************************)
(* No order is overtaken.                                                  *)
(***************************************************************************)

(* order_queue leaves every queued order where it is. *)
LEMMA PlaceKept ==
    ASSUME NEW q \in Seq(Order), Distinct(q), NEW o \in Order, NEW rq \in {TRUE, FALSE},
           NEW c, Queued(q, c)
    PROVE  Place(order_queue(q, o, rq), c) = Place(q, c)
  <1> DEFINE r == order_queue(q, o, rq)
             p == Place(q, c)
  <1>1. p \in DOMAIN q /\ q[p].bc = c
    BY PlaceFinds
  <1>2. CASE ~Queued(q, o.bc)
    <2>1. r = Append(q, o)
      BY <1>2 DEF order_queue
    <2>2. r \in Seq(Order) /\ Distinct(r)
      BY <1>2, <2>1, AppendOrder DEF Changes
    <2>3. p \in DOMAIN r /\ r[p] = q[p]
      BY <1>1, <2>1
    <2>4. QED
      BY <1>1, <2>2, <2>3, PlaceUnique
  <1>3. CASE Queued(q, o.bc) /\ r = Replaced(q, o)
    <2>1. r \in Seq(Order) /\ Distinct(r)
      BY <1>3, ReplaceOrder DEF Changes
    <2>2. Place(q, o.bc) \in DOMAIN q /\ q[Place(q, o.bc)].bc = o.bc
      BY <1>3, PlaceFinds
    <2>3. p \in DOMAIN r /\ r[p].bc = q[p].bc
      BY <1>1, <1>3, <2>2 DEF Replaced
    <2>4. QED
      BY <1>1, <2>1, <2>3, PlaceUnique
  <1>4. CASE r = q
    BY <1>4
  <1>5. QED
    BY <1>2, <1>3, <1>4 DEF order_queue, Replaced

(* Unlinking the head moves every other order one place forward. *)
LEMMA PlaceForward ==
    ASSUME NEW q \in Seq(Order), Distinct(q), q # <<>>, NEW c, Queued(Tail(q), c), Queued(q, c)
    PROVE  Place(Tail(q), c) =< Place(q, c)
  <1> DEFINE r == Tail(q)
             p == Place(r, c)
  <1>1. r \in Seq(Order) /\ DOMAIN r = 1 .. Len(q) - 1 /\ Len(q) \in Nat /\ DOMAIN q = 1 .. Len(q)
    OBVIOUS
  <1>2. p \in DOMAIN r /\ r[p].bc = c
    BY <1>1, PlaceFinds
  <1>3. p + 1 \in DOMAIN q /\ r[p] = q[p + 1] /\ p \in Nat
    BY <1>1, <1>2
  <1>4. Place(q, c) = p + 1
    BY <1>2, <1>3, PlaceUnique
  <1>5. QED
    BY <1>3, <1>4

(* NoOvertaking of a single step. *)
NoOvertakingStep ==
    \A c \in Cmds : Queued(queue, c) /\ Queued(queue', c) => Place(queue', c) =< Place(queue, c)

(* No step of the bus moves a queued order away from the head. *)
LEMMA NextKeepsTurn == IInv /\ [Next]_vars => [NoOvertakingStep]_vars
  <1> SUFFICES ASSUME IInv, [Next]_vars, NEW c \in Cmds, Queued(queue, c), Queued(queue', c)
               PROVE  Place(queue', c) =< Place(queue, c)
    BY DEF NoOvertakingStep
  <1>1. queue \in Seq(Order) /\ Distinct(queue)
    BY DEF IInv, TypeOK, OneOrderPerCmd, Distinct
  <1>2. Place(queue, c) \in Nat
    BY <1>1, PlaceFinds
  <1>3. CASE queue' = queue
    BY <1>2, <1>3
  <1>4. ASSUME NEW t \in Clients, NEW e \in Cmds, NEW d \in Data, bus_schedule(t, e, d)
        PROVE  Place(queue', c) =< Place(queue, c)
    <2>1. queue' = order_queue(queue, [bc |-> e, data |-> d], FALSE)
      BY <1>4 DEF bus_schedule
    <2>2. [bc |-> e, data |-> d] \in Order
      BY DEF Order
    <2>3. Place(queue', c) = Place(queue, c)
      BY <1>1, <2>1, <2>2, PlaceKept, Zenon
    <2>4. QED
      BY <1>2, <2>3
  <1>5. CASE requeue
    <2>1. queue' = order_queue(queue, order, TRUE) /\ order \in Order
      BY <1>5 DEF requeue, IInv, TypeOK, HeldWhileExecuting
    <2>2. Place(queue', c) = Place(queue, c)
      BY <1>1, <2>1, PlaceKept, Zenon
    <2>3. QED
      BY <1>2, <2>2
  <1>6. CASE fetch /\ queue # <<>>
    <2>1. queue' = Tail(queue)
      BY <1>6 DEF fetch
    <2>2. QED
      BY <1>1, <1>6, <2>1, PlaceForward
  <1>7. CASE destroy_free
    <2>1. queue' = <<>>
      BY <1>7 DEF destroy_free
    <2>2. QED
      BY <2>1 DEF Queued
  <1>8. QED
    BY <1>3, <1>4, <1>5, <1>6, <1>7
       DEF Next, BusThread, Caller, Finished, vars, schedule_signal, destroy_terminate,
           destroy_signal, fetch, exec_acked, exec_ack_lost, exec_lost, sleep, timeout

(* A queued order never moves away from the head of the list. *)
THEOREM NeverOvertaken == Spec => NoOvertaking
  BY BusInvariant, NextKeepsTurn, PTL DEF Spec, NoOvertaking, NoOvertakingStep

(***************************************************************************)
(* The bus implements the mailbox.                                         *)
(***************************************************************************)
Mail == [c \in Cmds |-> Pending(queue, c)]

(* bus_create leaves empty mail slots. *)
LEMMA InitRefines == Init => MB!Init
  BY DEF Init, MB!Init, Pending, Queued

(* Every step of the bus is a step of the mail slots, or leaves them       *)
(* alone.                                                                  *)
LEMMA NextRefines == IInv /\ [Next]_vars => [MB!Next]_MB!mvars
  <1> SUFFICES ASSUME IInv, [Next]_vars PROVE [MB!Next]_MB!mvars
    OBVIOUS
  <1>1. queue \in Seq(Order) /\ Distinct(queue)
    BY DEF IInv, TypeOK, OneOrderPerCmd, Distinct
  <1>2. ASSUME NEW t \in Clients, NEW c \in Cmds, NEW d \in Data, bus_schedule(t, c, d)
        PROVE  MB!Next
    <2> DEFINE o == [bc |-> c, data |-> d]
    <2>1. queue' = order_queue(queue, o, FALSE)
      BY <1>2 DEF bus_schedule
    <2>2. o \in Order /\ o.bc = c /\ o.data = d
      BY DEF Order
    <2> HIDE DEF o
    <2>3. Pending(queue', c) = d /\ \A e : e # c => Pending(queue', e) = Pending(queue, e)
      BY <1>1, <2>1, <2>2, QueueNew DEF Changes
    <2>4. Mail' = [Mail EXCEPT ![c] = d]
      BY <2>3 DEF Mail
    <2>5. MB!Post(c, d)
      BY <1>2, <2>4 DEF MB!Post, bus_schedule, Mail
    <2>6. QED
      BY <2>5 DEF MB!Next
  <1>3. CASE fetch /\ queue # <<>>
    <2> DEFINE h == Head(queue)
    <2>1. order = None /\ order' = h /\ queue' = Tail(queue) /\ UNCHANGED <<slave, latest>>
      BY <1>3 DEF fetch, IInv, HeldWhileExecuting
    <2>2. /\ h \in Order /\ Pending(queue, h.bc) = h.data /\ Pending(queue', h.bc) = None
          /\ \A e : e # h.bc => Pending(queue', e) = Pending(queue, e)
      BY <1>1, <1>3, <2>1, UnlinkHead DEF Changes
    <2>3. h.bc \in Cmds /\ h.data \in Data /\ h = [bc |-> h.bc, data |-> h.data]
      BY <2>2 DEF Order
    <2> HIDE DEF h
    <2>4. Mail' = [Mail EXCEPT ![h.bc] = None]
      BY <2>2, <2>3 DEF Mail
    <2>5. Mail[h.bc] = h.data /\ h.data # None
      BY <2>2, <2>3, BusAssumption DEF Mail
    <2>6. MB!Take(h.bc)
      BY <2>1, <2>3, <2>4, <2>5 DEF MB!Take, Mail
    <2>7. QED
      BY <2>3, <2>6 DEF MB!Next
  <1>4. CASE exec_acked
    <2>1. MB!Hand(TRUE)
      BY <1>4 DEF MB!Hand, exec_acked, IInv, HeldWhileExecuting
    <2>2. QED
      BY <2>1 DEF MB!Next
  <1>5. CASE exec_ack_lost
    <2>1. MB!Hand(FALSE)
      BY <1>5 DEF MB!Hand, exec_ack_lost, IInv, HeldWhileExecuting
    <2>2. QED
      BY <2>1 DEF MB!Next
  <1>6. CASE requeue
    <2>1. /\ queue' = order_queue(queue, order, TRUE) /\ order \in Order /\ order # None
          /\ order' = None /\ UNCHANGED <<slave, latest>>
      BY <1>6 DEF requeue, IInv, TypeOK, HeldWhileExecuting
    <2>2. /\ Pending(queue', order.bc)
               = IF Pending(queue, order.bc) = None THEN order.data ELSE Pending(queue, order.bc)
          /\ \A e : e # order.bc => Pending(queue', e) = Pending(queue, e)
      BY <1>1, <2>1, QueueBack DEF Changes
    <2>3. order.bc \in Cmds
      BY <2>1 DEF Order
    <2>4. Mail' = [Mail EXCEPT ![order.bc] = IF @ = None THEN order.data ELSE @]
      BY <2>2, <2>3 DEF Mail
    <2>5. MB!PutBack
      BY <2>1, <2>4 DEF MB!PutBack, Mail
    <2>6. QED
      BY <2>5 DEF MB!Next
  <1>7. CASE destroy_free
    <2>1. order = None /\ queue' = <<>> /\ UNCHANGED <<order, slave, latest>>
      BY <1>7 DEF destroy_free, IInv, HeldWhileExecuting
    <2>2. Mail' = [c \in Cmds |-> None]
      BY <2>1 DEF Mail, Pending, Queued
    <2>3. MB!ThrowAway
      BY <2>1, <2>2 DEF MB!ThrowAway, Mail
    <2>4. QED
      BY <2>3 DEF MB!Next
  <1>8. CASE UNCHANGED <<queue, order, slave, latest>>
    BY <1>8 DEF MB!mvars
  <1>9. QED
    BY <1>2, <1>3, <1>4, <1>5, <1>6, <1>7, <1>8
       DEF Next, BusThread, Caller, Finished, vars, schedule_signal, destroy_terminate,
           destroy_signal, fetch, exec_lost, sleep, timeout

(* Seen from its callers the bus is one mail slot per command. *)
THEOREM ImplementsMailbox == Spec => RefinesMailbox
  BY BusInvariant, InitRefines, NextRefines, PTL DEF Spec, RefinesMailbox, MB!Spec
=============================================================================

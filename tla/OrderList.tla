----------------------------- MODULE OrderList -----------------------------
(***************************************************************************)
(* The list of orders of the bus handler, src/src/comm/bus.c, as a         *)
(* sequence from its head.  An order is a record of its command bc and its *)
(* data.                                                                   *)
(***************************************************************************)
EXTENDS Integers, Sequences

Queued(q, c) == \E i \in DOMAIN q : q[i].bc = c

Place(q, c) == CHOOSE i \in DOMAIN q : q[i].bc = c

(* Mutants of order_queue: the requeue flag is forgotten, so an old order  *)
(* that failed replaces a newer one; nothing is ever replaced; an order    *)
(* that failed is put back at the head.                                    *)
order_queue_no_flag(q, o, requeue) ==
    IF ~Queued(q, o.bc) THEN Append(q, o) ELSE [q EXCEPT ![Place(q, o.bc)] = o]

order_queue_append(q, o, requeue) == Append(q, o)

order_queue_head(q, o, requeue) ==
    IF ~Queued(q, o.bc) THEN (IF requeue THEN <<o>> \o q ELSE Append(q, o))
    ELSE IF requeue THEN q
    ELSE [q EXCEPT ![Place(q, o.bc)] = o]

(* order_queue: a new order takes the place of the queued order of its     *)
(* command, and is appended when there is none; an order that is put back  *)
(* is dropped when its command is queued again, and appended otherwise.    *)
order_queue(q, o, requeue) ==
    IF ~Queued(q, o.bc) THEN Append(q, o)
    ELSE IF requeue THEN q
    ELSE [q EXCEPT ![Place(q, o.bc)] = o]

(* Mutants of freed_by_queue: the replaced order leaks; the order at hand  *)
(* is freed although it was inserted.                                      *)
freed_never(q, o) == 0
freed_always(q, o) == 1

(* order_destroy inside order_queue: one order is freed iff the command    *)
(* was queued already, be it the old order or the one put back.            *)
freed_by_queue(q, o) == IF Queued(q, o.bc) THEN 1 ELSE 0
=============================================================================

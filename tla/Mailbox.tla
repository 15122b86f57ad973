------------------------------ MODULE Mailbox ------------------------------
(***************************************************************************)
(* What the bus of the communication module promises its callers           *)
(* (src/src/comm/bus.h): every bus command owns one mail slot.  Scheduling *)
(* a command overwrites the slot, so only the newest request of a command  *)
(* is kept.  A single carrier takes one letter at a time, tries to hand it *)
(* to the slave, and puts it back when the attempt failed -- unless a      *)
(* newer letter of the same command has arrived in the meantime.           *)
(* Nothing is said here about lists, locks, threads or wake-ups.           *)
(***************************************************************************)
CONSTANTS
    Cmds,     \* bus commands: the rows of BCSS and BCCS
    Data,     \* what an order carries
    None      \* "no letter": NULL in the code

VARIABLES
    mail,     \* the newest request of each command nobody has taken yet
    inhand,   \* the letter the carrier holds, or None
    slave,    \* what the slave last executed for each command
    latest    \* history: what was last requested for each command

mvars == <<mail, inhand, slave, latest>>

Letter == [bc : Cmds, data : Data]
MaybeData == Data \union {None}

Init ==
    /\ mail = [c \in Cmds |-> None]
    /\ inhand = None
    /\ slave = [c \in Cmds |-> None]
    /\ latest = [c \in Cmds |-> None]

(* A caller requests c with data d; an older request of c is forgotten. *)
Post(c, d) ==
    /\ mail' = [mail EXCEPT ![c] = d]
    /\ latest' = [latest EXCEPT ![c] = d]
    /\ UNCHANGED <<inhand, slave>>

(* The carrier takes the pending request of c. *)
Take(c) ==
    /\ inhand = None
    /\ mail[c] # None
    /\ inhand' = [bc |-> c, data |-> mail[c]]
    /\ mail' = [mail EXCEPT ![c] = None]
    /\ UNCHANGED <<slave, latest>>

(* The slave executes the letter; the carrier may or may not learn of it. *)
Hand(known) ==
    /\ inhand # None
    /\ slave' = [slave EXCEPT ![inhand.bc] = inhand.data]
    /\ inhand' = IF known THEN None ELSE inhand
    /\ UNCHANGED <<mail, latest>>

(* A failed letter goes back to its slot; a newer one there wins. *)
PutBack ==
    /\ inhand # None
    /\ mail' = [mail EXCEPT ![inhand.bc] = IF @ = None THEN inhand.data ELSE @]
    /\ inhand' = None
    /\ UNCHANGED <<slave, latest>>

(* The bus is destroyed: whatever was not taken is thrown away. *)
ThrowAway ==
    /\ inhand = None
    /\ mail' = [c \in Cmds |-> None]
    /\ UNCHANGED <<inhand, slave, latest>>

Next ==
    \/ \E c \in Cmds, d \in Data : Post(c, d)
    \/ \E c \in Cmds : Take(c)
    \/ \E known \in BOOLEAN : Hand(known)
    \/ PutBack
    \/ ThrowAway

Spec == Init /\ [][Next]_mvars

=============================================================================

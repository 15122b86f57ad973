------------------------------- MODULE Server -------------------------------
(***************************************************************************)
(* The server thread of the communication module, src/src/comm/server.c,   *)
(* and the TCP connections it shares with the remote (module Remote).      *)
(*                                                                         *)
(* TCP carries bytes, not messages, and neither side marks where a message *)
(* ends: whatever has arrived when a side reads is one message to it.  So  *)
(* the server reads any number of the requests sent, and may stop in the   *)
(* middle of one, which is rare, requests being short.  It keeps one       *)
(* connection; a new one replaces it, and what was unread on the old one   *)
(* is gone.                                                                *)
(***************************************************************************)
EXTENDS Integers, Sequences

CONSTANTS
    Requests,  \* the requests whose executions are counted
    MaxConns,  \* bound: connections in a behaviour
    MaxOdd     \* bound: interrupted selects and torn requests in a behaviour

Conns == 1 .. MaxConns

VARIABLES
    backlog,   \* connections waiting to be accepted
    c2s,       \* of each connection: requests not read yet
    s2c,       \* of each connection: answers not read yet
    hungup,    \* connections the remote has closed
    reset,     \* those of them on which something arrived too late: a reset is on its way
    torn,      \* connections on which a read ended inside a request
    spc,       \* server thread: in its loop, gone, or killed by SIGPIPE
    conn_fd,   \* the connection it serves, 0 for none
    open,      \* connections accepted and not closed by the server
    terminate, \* srv->terminate
    odd,       \* history: interrupted selects and torn requests so far
    runs       \* history: how often each request has been executed

network == <<backlog, c2s, s2c, hungup, reset, torn>>
thread == <<spc, conn_fd, open, terminate, odd, runs>>

(* An answer is written as the set of requests, read as one message, that  *)
(* it answers; the heartbeat answers none.                                 *)
HEARTBEAT == {}

ServerInit ==
    /\ backlog = <<>>
    /\ c2s = [c \in Conns |-> <<>>] /\ s2c = [c \in Conns |-> <<>>]
    /\ hungup = {} /\ reset = {} /\ torn = {}
    /\ spc = "loop" /\ conn_fd = 0 /\ open = {}
    /\ terminate = FALSE /\ odd = 0 /\ runs = [r \in Requests |-> 0]

(* The end of a turn of the loop, with the connection the turn leaves:     *)
(* terminate is read under the lock, and on exit the connection is closed. *)
Turn(fd, fds) ==
    /\ spc' = (IF terminate THEN "done" ELSE "loop")
    /\ conn_fd' = (IF terminate THEN 0 ELSE fd)
    /\ open' = (IF terminate THEN fds \ {fd} ELSE fds)

(* Mutant: the connection served so far is not closed. *)
accept_conn_leak ==
    /\ spc = "loop" /\ backlog # <<>>
    /\ backlog' = Tail(backlog)
    /\ Turn(Head(backlog), open \union {Head(backlog)})
    /\ UNCHANGED <<c2s, s2c, hungup, reset, torn, terminate, odd, runs>>

(* accept comes first; the connection served so far is closed, and what    *)
(* was not read on it is gone.                                             *)
accept_conn ==
    /\ spc = "loop" /\ backlog # <<>>
    /\ backlog' = Tail(backlog)
    /\ c2s' = [c \in Conns |-> IF c = conn_fd THEN <<>> ELSE c2s[c]]
    /\ reset' = reset \ {conn_fd}
    /\ Turn(Head(backlog), (open \ {conn_fd}) \union {Head(backlog)})
    /\ UNCHANGED <<s2c, hungup, torn, terminate, odd, runs>>

(* parse_cmd and execute_cmd.  Several requests run together are read as   *)
(* the first one with a mangled argument, which may or may not be taken;   *)
(* "check", which has no delimiter, becomes an unknown command.            *)
execute_cmd(reqs) ==
    \/ /\ Len(reqs) = 1 \/ reqs[1].cmd # "check"
       /\ runs' = (IF reqs[1] \in Requests THEN [runs EXCEPT ![reqs[1]] = @ + 1] ELSE runs)
    \/ /\ Len(reqs) > 1
       /\ UNCHANGED runs

(* send without MSG_NOSIGNAL.  The first answer to a connection the remote *)
(* has closed gets lost and draws a reset; once the reset has arrived, the *)
(* next one raises SIGPIPE, which nobody handles: the program ends.        *)
Send(answer) ==
    IF conn_fd \notin hungup
      THEN /\ s2c' = [s2c EXCEPT ![conn_fd] = Append(@, answer)]
           /\ Turn(conn_fd, open)
           /\ UNCHANGED reset
      ELSE /\ reset' = reset \union {conn_fd}
           /\ \/ Turn(conn_fd, open)
              \/ conn_fd \in reset /\ spc' = "killed" /\ conn_fd' = 0 /\ open' = {}
           /\ UNCHANGED s2c

(* receive, execute, answer. *)
serve ==
    /\ spc = "loop" /\ backlog = <<>> /\ conn_fd # 0
    /\ \E k \in 1 .. Len(c2s[conn_fd]) :
         LET reqs == SubSeq(c2s[conn_fd], 1, k) IN
         /\ c2s' = [c2s EXCEPT ![conn_fd] = SubSeq(@, k + 1, Len(@))]
         /\ execute_cmd(reqs)
         /\ Send({reqs[i] : i \in 1 .. k})
    /\ UNCHANGED <<backlog, hungup, torn, terminate, odd>>

(* What is left of a request: no command, when it is read in its turn. *)
Rest(req) == [req EXCEPT !.cmd = "rest"]

(* The same, but the read ends inside request k.  Its beginning alone is a *)
(* command with a shorter argument, or none.                               *)
serve_torn ==
    /\ spc = "loop" /\ backlog = <<>> /\ conn_fd # 0
    /\ odd < MaxOdd
    /\ odd' = odd + 1
    /\ torn' = torn \union {conn_fd}
    /\ \E k \in 1 .. Len(c2s[conn_fd]) :
         LET reqs == SubSeq(c2s[conn_fd], 1, k) IN
         /\ c2s' = [c2s EXCEPT ![conn_fd] = <<Rest(reqs[k])>> \o SubSeq(@, k + 1, Len(@))]
         /\ execute_cmd(reqs) \/ UNCHANGED runs
         /\ Send({reqs[i] : i \in 1 .. k})
    /\ UNCHANGED <<backlog, hungup, terminate>>

(* select was interrupted, so its set still holds the listening socket,    *)
(* and there is nothing to accept or to read: the only way to the          *)
(* heartbeat.  A connection is closed if sending fails.                    *)
heartbeat ==
    /\ spc = "loop" /\ backlog = <<>> /\ odd < MaxOdd
    /\ odd' = odd + 1
    /\ IF conn_fd # 0 /\ conn_fd \notin hungup
         THEN s2c' = [s2c EXCEPT ![conn_fd] = Append(@, HEARTBEAT)] /\ UNCHANGED reset
         ELSE reset' = reset \union ({conn_fd} \ {0}) /\ UNCHANGED s2c
    /\ \/ Turn(conn_fd, open)
       \/ conn_fd \in reset /\ Turn(0, open \ {conn_fd})
    /\ UNCHANGED <<backlog, c2s, hungup, torn, terminate, runs>>

(* Mutant: a select without timeout. *)
timeout_none == FALSE /\ UNCHANGED <<network, thread>>

(* select times out after WAITTIME and nothing has arrived: the turn only  *)
(* looks at terminate, and changes nothing before terminate is set.        *)
timeout ==
    /\ spc = "loop" /\ terminate /\ backlog = <<>>
    /\ Turn(conn_fd, open)
    /\ UNCHANGED <<network, terminate, odd, runs>>

(* srv_destroy, called by main: terminate is set, then the thread joined.  *)
srv_destroy ==
    /\ ~terminate
    /\ terminate' = TRUE
    /\ UNCHANGED <<network, spc, conn_fd, open, odd, runs>>
=============================================================================

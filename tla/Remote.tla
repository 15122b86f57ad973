------------------------------- MODULE Remote -------------------------------
(***************************************************************************)
(* The remote's worker thread and its connection to the taxi,              *)
(* src/src/remote/worker.py, tasks.py and remote.py, against the server    *)
(* thread of module Server.                                                *)
(*                                                                         *)
(* The GUI pushes tasks on a stack; the worker pops one, sends its         *)
(* commands one after the other and waits for each answer, at most         *)
(* TIMEOUT.  After a failure it opens a new connection, checks it, and     *)
(* sends the command once more.  A task carries the time it was pushed at. *)
(***************************************************************************)
EXTENDS Server

CONSTANT MaxTasks  \* bound: tasks the GUI pushes after the first, a connect

ASSUME RemoteAssumption ==
    /\ MaxConns \in Nat \ {0} /\ MaxOdd \in Nat /\ MaxTasks \in Nat
    /\ Requests = [task : 1 .. MaxTasks, cmd : {"set_vel", "set_rot", "app_miss"}]

VARIABLES
    stack,      \* tasks.tasks, the LIFO queue
    pushed,     \* how many tasks the GUI has pushed: the clock
    wpc,        \* worker: where it is
    task,       \* worker: the task it is at
    todo,       \* worker: commands of the task still to be sent, the current one first
    retried,    \* worker: the current command is sent a second time
    move_time,  \* worker: the time of the newest move
    socket,     \* client.socket: a connection, NONE, or UNCONNECTED
    conns,      \* connections opened so far
    muddled,    \* history: the socket was kept although an answer was still due on it
    got         \* history: the answer taken last on a socket that was in order

worker == <<wpc, task, todo, retried, move_time, socket, conns>>
history == <<muddled, got>>
vars == <<network, thread, stack, pushed, worker, history>>

NONE == 0
UNCONNECTED == -1

Kinds == {"connect", "move", "mission", "kill"}
Tasks == [kind : Kinds, time : 0 .. MaxTasks]

Commands(kind) ==
    CASE kind = "move" -> <<"set_vel", "set_rot">>
      [] kind = "mission" -> <<"app_miss">>
      [] OTHER -> <<>>

Request(cmd) == [task |-> task.time, cmd |-> cmd]
Check == Request("check")

(* The requests and answers on the socket cannot have got mixed up. *)
Unmixed == ~muddled /\ socket \notin torn

Waiting == wpc \in {"waiting", "checking"}

Init ==
    /\ ServerInit
    /\ stack = <<[kind |-> "connect", time |-> 0]>> /\ pushed = 0
    /\ wpc = "idle" /\ task = [kind |-> "connect", time |-> 0] /\ todo = <<>>
    /\ retried = FALSE /\ move_time = 0 /\ socket = NONE /\ conns = 0
    /\ muddled = FALSE
    /\ got = [answer |-> {Check}, to |-> Check, again |-> FALSE]

(***************************************************************************)
(* The GUI: TaskQueue.put.                                                 *)
(***************************************************************************)
put ==
    /\ pushed < MaxTasks
    /\ pushed' = pushed + 1
    /\ \E k \in Kinds : stack' = <<[kind |-> k, time |-> pushed + 1]>> \o stack
    /\ UNCHANGED <<network, thread, worker, history>>

(***************************************************************************)
(* The worker.                                                             *)
(***************************************************************************)

(* Mutant: an old move is carried out like a new one. *)
TooOld_never(t) == FALSE

(* task_move: a move older than the newest one is dropped. *)
TooOld(t) == t.kind = "move" /\ t.time =< move_time

(* run: pop a task and begin its action.  Before the first connect, send   *)
(* does nothing.                                                           *)
get ==
    LET t == Head(stack) IN
    /\ wpc = "idle" /\ stack # <<>>
    /\ stack' = Tail(stack)
    /\ task' = t
    /\ move_time' = (IF t.kind = "move" /\ ~TooOld(t) THEN t.time ELSE move_time)
    /\ todo' = (IF TooOld(t) \/ socket = NONE THEN <<>> ELSE Commands(t.kind))
    /\ wpc' = (CASE t.kind = "connect" -> "connect"
                 [] t.kind = "kill" -> "dead"
                 [] todo' = <<>> -> "idle"
                 [] OTHER -> "send")
    /\ UNCHANGED <<network, thread, pushed, retried, socket, conns, history>>

(* clear_socket drops what has arrived. *)
clear_socket ==
    \E k \in 0 .. Len(s2c[socket]) : s2c' = [s2c EXCEPT ![socket] = SubSeq(@, k + 1, Len(@))]

(* Then the request is sent.  A broken pipe, after the server has closed   *)
(* the connection, shows here or in eof, to the same effect.               *)
Transmit(req, to) ==
    /\ clear_socket
    /\ c2s' = [c2s EXCEPT ![socket] = Append(@, req)]
    /\ wpc' = to
    /\ UNCHANGED <<backlog, hungup, reset, torn, thread, stack, pushed, task, todo, retried,
                   move_time, socket, conns, history>>

send_cmd == wpc = "send" /\ socket # UNCONNECTED /\ Transmit(Request(Head(todo)), "waiting")
send_check == wpc = "check" /\ Transmit(Check, "checking")

(* The command is over, answered or given up: the next one. *)
NextCommand ==
    /\ todo' = (IF todo = <<>> THEN <<>> ELSE Tail(todo))
    /\ wpc' = (IF Len(todo) > 1 THEN "send" ELSE "idle")
    /\ retried' = FALSE

(* sendall raises another error, a reset or a timeout, which send_cmd does *)
(* not catch.  For the check, connect does, and the command is given up;   *)
(* for a command nobody does, and the thread ends in the middle of it.     *)
send_raises ==
    /\ wpc \in {"send", "check"} /\ socket # UNCONNECTED
    /\ clear_socket
    /\ IF wpc = "check" THEN NextCommand
       ELSE wpc' = "crashed" /\ todo' = <<>> /\ retried' = FALSE
    /\ UNCHANGED <<backlog, c2s, hungup, reset, torn, thread, stack, pushed, task, move_time,
                   socket, conns, history>>

(* Mutant: it is tried again and again. *)
Failed_again ==
    IF wpc \in {"waiting", "send"} THEN wpc' = "connect" /\ UNCHANGED <<todo, retried, muddled>>
    ELSE NextCommand /\ muddled' = TRUE

(* Mutant: the second try uses the connection of the first. *)
Failed_keeps ==
    IF wpc \in {"waiting", "send"} /\ ~retried
      THEN wpc' = "send" /\ retried' = TRUE /\ UNCHANGED <<todo, muddled>>
    ELSE NextCommand /\ muddled' = TRUE

(* send_cmd returned None.  If the first try of a command fails, connect   *)
(* is next; if the second one or the check of the new connection does, the *)
(* command is given up and the connection kept.                            *)
Failed ==
    IF wpc \in {"waiting", "send"} /\ ~retried
      THEN wpc' = "connect" /\ UNCHANGED <<todo, retried, muddled>>
    ELSE NextCommand /\ muddled' = TRUE

(* What the worker waits to be answered. *)
Asked == IF wpc = "checking" THEN Check ELSE Request(Head(todo))

(* Of what has arrived, an answer, and the first one. *)
IsAnswer(i) == s2c[socket][i] # HEARTBEAT
IsFirst(i) == IsAnswer(i) /\ \A j \in 1 .. i - 1 : ~IsAnswer(j)

(* receive: what has arrived, read up to the first delimiter.  A command   *)
(* so answered is over, whether the answer says success or not; a check    *)
(* must be answered by "success": not if the read begins with a heartbeat, *)
(* perhaps not if a request was torn.                                      *)
answered ==
    /\ Waiting
    /\ \E k \in 1 .. Len(s2c[socket]) :
         /\ s2c' = [s2c EXCEPT ![socket] = SubSeq(@, k + 1, Len(@))]
         /\ \/ /\ \A i \in 1 .. k : ~IsAnswer(i)
               /\ Failed
               /\ UNCHANGED got
            \/ /\ \E i \in 1 .. k :
                    /\ IsFirst(i)
                    /\ got' = (IF ~Unmixed THEN got
                               ELSE [answer |-> s2c[socket][i], again |-> retried, to |-> Asked])
               /\ \/ /\ wpc = "checking" /\ todo # <<>> /\ IsAnswer(1)
                     /\ wpc' = "send" /\ retried' = TRUE /\ UNCHANGED todo
                  \/ /\ wpc = "checking" => todo = <<>> \/ ~IsAnswer(1) \/ socket \in torn
                     /\ NextCommand
               /\ UNCHANGED muddled
    /\ UNCHANGED <<backlog, c2s, hungup, reset, torn, thread, stack, pushed, task, move_time,
                   socket, conns>>

(* The server has closed the connection, or is gone: an empty answer. *)
eof ==
    /\ Waiting /\ s2c[socket] = <<>>
    /\ spc # "loop" \/ (socket \notin open /\ \A i \in DOMAIN backlog : backlog[i] # socket)
    /\ Failed
    /\ UNCHANGED <<network, thread, stack, pushed, task, move_time, socket, conns, got>>

(* Mutant: a socket without timeout. *)
give_up_never == FALSE /\ UNCHANGED vars

(* TIMEOUT: the answer does not come in time, but it may come still. *)
give_up ==
    /\ Waiting
    /\ Failed
    /\ UNCHANGED <<network, thread, stack, pushed, task, move_time, socket, conns, got>>

(* A command on a socket that is not connected: a broken pipe. *)
send_unconnected ==
    /\ wpc = "send" /\ socket = UNCONNECTED
    /\ Failed
    /\ UNCHANGED <<network, thread, stack, pushed, task, move_time, socket, conns, got>>

(* connect: the old socket is closed, with what has not been read on it, *)
Hangup ==
    /\ hungup' = hungup \union ({socket} \intersect Conns)
    /\ reset' = (IF socket = conn_fd /\ conn_fd # 0 /\ s2c[socket] # <<>>
                 THEN reset \union {socket} ELSE reset)
    /\ s2c' = [c \in Conns |-> IF c = socket THEN <<>> ELSE s2c[c]]
    /\ muddled' = FALSE

(* and a new connection is opened, *)
connect ==
    /\ wpc = "connect" /\ spc # "killed" /\ conns < MaxConns
    /\ Hangup
    /\ conns' = conns + 1
    /\ socket' = conns + 1
    /\ backlog' = Append(backlog, conns + 1)
    /\ wpc' = "check"
    /\ UNCHANGED <<c2s, torn, thread, stack, pushed, task, todo, retried, move_time, got>>

(* or refused on every port, or the taxi is out of reach. *)
connect_failed ==
    /\ wpc = "connect"
    /\ Hangup
    /\ socket' = UNCONNECTED
    /\ NextCommand
    /\ UNCHANGED <<backlog, c2s, torn, thread, stack, pushed, task, move_time, conns, got>>

Worker ==
    \/ get \/ send_cmd \/ send_check \/ send_raises \/ answered \/ eof \/ give_up \/ send_unconnected
    \/ connect \/ connect_failed

Serve == (serve \/ serve_torn \/ heartbeat) /\ UNCHANGED <<stack, pushed, worker, history>>
Turns == (accept_conn \/ timeout) /\ UNCHANGED <<stack, pushed, worker, history>>

Destroy == srv_destroy /\ UNCHANGED <<stack, pushed, worker, history>>

Next == put \/ Worker \/ Serve \/ Turns \/ Destroy

Spec == Init /\ [][Next]_vars

(* The threads are scheduled, and the worker's wait and the server's       *)
(* select end by timeout if by nothing else.  Nothing is assumed of the    *)
(* network: a request or an answer may be on its way for ever.             *)
FairSpec == Spec /\ WF_vars(Worker) /\ WF_vars(Turns)

-----------------------------------------------------------------------------
(***************************************************************************)
(* Properties                                                              *)
(***************************************************************************)

AllRequests == Requests \union [task : 0 .. MaxTasks, cmd : {"check", "rest"}]

(* Type invariant; a new connection replaces the one the server thread     *)
(* serves, so it never holds a second one open, and holds none once it has *)
(* ended (srv_thread's conn_fd).                                           *)
TypeOK ==
    /\ \A c \in Conns :
         /\ \A i \in DOMAIN c2s[c] : c2s[c][i] \in AllRequests
         /\ \A i \in DOMAIN s2c[c] : s2c[c][i] \in SUBSET AllRequests
    /\ \A i \in DOMAIN backlog : backlog[i] \in Conns
    /\ reset \subseteq hungup /\ hungup \subseteq Conns /\ torn \subseteq Conns
    /\ spc \in {"loop", "done", "killed"} /\ conn_fd \in {0} \union Conns
    /\ open = {conn_fd} \ {0} /\ (spc # "loop" => open = {})
    /\ runs \in [Requests -> Nat] /\ terminate \in BOOLEAN
    /\ \A i \in DOMAIN stack : stack[i] \in Tasks
    /\ wpc \in {"idle", "send", "waiting", "connect", "check", "checking", "dead", "crashed"}
    /\ socket \in {NONE, UNCONNECTED} \union Conns /\ task \in Tasks
    /\ todo \in {Commands(k) : k \in Kinds} \union {<<"set_rot">>}

(* An answer the worker takes on a connection on which no earlier answer   *)
(* is due and no request was torn is the answer to its own request alone,  *)
(* and a command so answered has been executed (clear_socket, the new      *)
(* connection before a second try) -- though the worker takes an answer    *)
(* that follows a heartbeat for one of failure.                            *)
AnswersOwn ==
    /\ got.answer = {got.to}
    /\ got.to \in Requests => runs[got.to] > 0

(* No command, and so no app_miss, is executed more than twice, and one    *)
(* answered at its first try is executed once: a second try is made only   *)
(* after a failure and only once (send_cmd_retry).                         *)
AtMostTwice ==
    /\ \A r \in Requests : runs[r] =< 2
    /\ ~got.again /\ got.to \in Requests => runs[got.to] = 1

(* Although tasks are taken last in, first out, and commands are sent      *)
(* again on other connections, the taxi never executes a move after a      *)
(* later one (task_move's schedule_time).                                  *)
NoStaleMove ==
    [][\A r, s \in Requests :
         (r.cmd = s.cmd /\ r.cmd \in {"set_vel", "set_rot"} /\ r.task < s.task /\ runs[s] > 0)
           => runs'[r] = runs[r]]_vars

(* Whatever the server and the network do, the worker does not hang in its *)
(* task: it gets through with it, or an error that send_cmd does not catch *)
(* ends the thread in the middle of it (TIMEOUT in Client, send_raises).   *)
Resting == wpc \in {"idle", "dead", "crashed"}
TaskEnds == ~Resting ~> Resting

(* The server thread ends after srv_destroy, with or without a remote, so  *)
(* that main's pthread_join returns (WAITTIME in srv_thread).              *)
ServerStops == terminate ~> spc # "loop"
=============================================================================

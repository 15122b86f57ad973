---------------------------- MODULE RemoteProofs ----------------------------
(***************************************************************************)
(* Proofs about the remote's worker and the server thread, for any number  *)
(* of tasks, connections, interrupted selects and torn requests.           *)
(***************************************************************************)
EXTENDS Remote, FiniteSetTheorems, SequenceTheorems, TLAPS

(***************************************************************************)
(* The inductive invariant.                                                *)
(***************************************************************************)

(* What the variables hold: the sequences and counters, *)
Shape ==
    /\ c2s \in [Conns -> Seq(AllRequests)] /\ s2c \in [Conns -> Seq(SUBSET AllRequests)]
    /\ backlog \in Seq(Conns) /\ stack \in Seq(Tasks)
    /\ pushed \in 0 .. MaxTasks /\ conns \in 0 .. MaxConns /\ move_time \in 0 .. MaxTasks
    /\ retried \in BOOLEAN /\ muddled \in BOOLEAN

(* the server thread, *)
ServerType ==
    /\ reset \subseteq hungup /\ hungup \subseteq Conns /\ torn \subseteq Conns
    /\ spc \in {"loop", "done", "killed"} /\ conn_fd \in {0} \union Conns
    /\ open = {conn_fd} \ {0} /\ (spc # "loop" => open = {})
    /\ runs \in [Requests -> Nat] /\ terminate \in BOOLEAN

(* and the worker. *)
Todos == {<<>>, <<"set_vel", "set_rot">>, <<"set_rot">>, <<"app_miss">>}

WorkerType ==
    /\ wpc \in {"idle", "send", "waiting", "connect", "check", "checking", "dead", "crashed"}
    /\ socket \in {NONE, UNCONNECTED} \union Conns /\ task \in Tasks
    /\ todo \in Todos

(* Connections not opened yet are unused. *)
Unused ==
    /\ conn_fd =< conns /\ socket =< conns
    /\ \A i \in DOMAIN backlog : backlog[i] =< conns
    /\ \A c \in Conns : c > conns => c2s[c] = <<>> /\ s2c[c] = <<>>

(* The stack, and where the worker is in its task. *)
Times == {stack[i].time : i \in DOMAIN stack}

Working ==
    /\ \A i \in DOMAIN stack : /\ stack[i].time =< pushed
                               /\ stack[i].time = 0 => stack[i].kind = "connect"
    /\ \A i, j \in DOMAIN stack : i # j => stack[i].time # stack[j].time
    /\ wpc \in {"send", "waiting"} => todo # <<>> /\ socket # NONE
    /\ wpc \in {"idle", "dead", "crashed"} => todo = <<>>
    /\ wpc \in {"waiting", "check", "checking"} => socket \in Conns
    /\ retried => wpc \in {"send", "waiting"}
    /\ todo # <<>> => task.time \in 1 .. pushed /\ task.time \notin Times

(* The connections on which a request is on its way, each at most once. *)
Where(r) == {c \in Conns : \E i \in DOMAIN c2s[c] : c2s[c][i] = r}

SentOnce ==
    \A c \in Conns : \A i, j \in DOMAIN c2s[c] :
      i # j /\ c2s[c][i] \in Requests => c2s[c][i] # c2s[c][j]

(* How often a request has been, or may yet be, executed: not at all       *)
(* before it is sent, once before the second try.                          *)
Copies(r) == runs[r] + Cardinality(Where(r))

IsCurrent(r) == todo # <<>> /\ r = Request(Head(todo))

Unsent(r) ==
    \/ r.task > pushed \/ r.task \in Times
    \/ IsCurrent(r) /\ wpc = "send" /\ ~retried
    \/ r.task = task.time /\ \E i \in 2 .. Len(todo) : todo[i] = r.cmd

Counted ==
    \A r \in Requests :
      /\ Copies(r) =< 2
      /\ IsCurrent(r) /\ ~(wpc = "waiting" /\ retried) => Copies(r) =< 1
      /\ Unsent(r) => Copies(r) = 0

(* The second try is on a connection without the first one. *)
Afresh ==
    todo # <<>> /\ (wpc \in {"check", "checking"} \/ (wpc = "send" /\ retried))
      => socket \notin Where(Request(Head(todo)))

(* On a connection that is neither muddled nor torn nothing is on its way  *)
(* but what the worker waits for.                                          *)
Quiet == c2s[socket] = <<>> /\ \A i \in DOMAIN s2c[socket] : ~IsAnswer(i)

Asking == c2s[socket] = <<Asked>> /\ \A i \in DOMAIN s2c[socket] : ~IsAnswer(i)

Answering ==
    /\ c2s[socket] = <<>>
    /\ \A i \in DOMAIN s2c[socket] :
         IsAnswer(i) => /\ s2c[socket][i] = {Asked}
                        /\ Asked \in Requests => runs[Asked] > 0
    /\ \A i, j \in DOMAIN s2c[socket] : IsAnswer(i) /\ IsAnswer(j) => i = j

Tidy ==
    socket \in Conns /\ Unmixed /\ wpc # "connect" =>
      /\ Waiting => Asking \/ Answering
      /\ ~Waiting => Quiet

(* A request that has been answered is not sent again. *)
Answered ==
    /\ got.answer = {got.to}
    /\ got.to \in Requests =>
         /\ runs[got.to] > 0 /\ ~Unsent(got.to) /\ ~IsCurrent(got.to)
         /\ ~got.again => Copies(got.to) =< 1

(* Moves leave the worker and reach the server in the order of time. *)
MoveCmds == {"set_vel", "set_rot"}
Live == {conn_fd} \union {backlog[i] : i \in DOMAIN backlog}

Newest ==
    \A s \in Requests : s.cmd \in MoveCmds /\ (runs[s] > 0 \/ Where(s) # {}) => s.task =< move_time

Planned == \A i \in DOMAIN todo : todo[i] \in MoveCmds => task.time = move_time

InOrder ==
    \A c \in Conns : \A i, j \in DOMAIN c2s[c] :
      i < j /\ c2s[c][i].cmd \in MoveCmds /\ c2s[c][i].cmd = c2s[c][j].cmd
        => c2s[c][i].task =< c2s[c][j].task

NoneOlder ==
    \A c \in Conns \intersect Live : \A i \in DOMAIN c2s[c] : \A s \in Requests :
      s.cmd \in MoveCmds /\ runs[s] > 0 /\ c2s[c][i].cmd = s.cmd => s.task =< c2s[c][i].task

Ordered == Newest /\ Planned /\ InOrder /\ NoneOlder

IInv ==
    /\ Shape /\ ServerType /\ WorkerType /\ Unused /\ Working
    /\ SentOnce /\ Counted /\ Afresh /\ Tidy /\ Answered /\ Ordered

(***************************************************************************)
(* Connections, commands and requests.                                     *)
(***************************************************************************)
LEMMA ConnFacts ==
    /\ Conns \subseteq Nat /\ 0 \notin Conns /\ NONE \notin Conns /\ UNCONNECTED \notin Conns
    /\ MaxConns \in Nat /\ MaxTasks \in Nat
  BY RemoteAssumption DEF Conns, NONE, UNCONNECTED

(* A set of connections can be counted. *)
LEMMA Countable ==
    ASSUME NEW S, S \subseteq Conns
    PROVE  IsFiniteSet(S) /\ Cardinality(S) \in Nat
  <1>1. IsFiniteSet(Conns)
    BY ConnFacts, FS_Interval DEF Conns
  <1>2. IsFiniteSet(S)
    BY <1>1, FS_Subset
  <1>3. QED
    BY <1>2, FS_CardinalityType

(* Taking away does not count more, and a connection less counts less. *)
LEMMA CountLess ==
    ASSUME NEW S, NEW T, S \subseteq Conns, T \subseteq S
    PROVE  /\ Cardinality(T) =< Cardinality(S)
           /\ \A c \in S : c \notin T => Cardinality(T) =< Cardinality(S) - 1
  <1>1. IsFiniteSet(S) /\ IsFiniteSet(T) /\ Cardinality(S) \in Nat /\ Cardinality(T) \in Nat
    BY Countable
  <1>2. Cardinality(T) =< Cardinality(S)
    BY <1>1, FS_Subset
  <1>3. ASSUME NEW c \in S, c \notin T PROVE Cardinality(T) =< Cardinality(S) - 1
    <2>1. T # S
      BY <1>3
    <2>2. Cardinality(T) # Cardinality(S)
      BY <1>1, <2>1, FS_Subset
    <2>3. QED
      BY <1>1, <1>2, <2>2
  <1>4. QED
    BY <1>2, <1>3

(* One more connection counts at most one more. *)
LEMMA CountMore ==
    ASSUME NEW S, NEW T, NEW c, S \subseteq Conns, T \subseteq S \union {c}, c \in Conns
    PROVE  Cardinality(T) =< Cardinality(S) + 1
  <1>1. IsFiniteSet(S) /\ Cardinality(S) \in Nat
    BY Countable
  <1>2. /\ IsFiniteSet(S \union {c}) /\ Cardinality(S \union {c}) \in Nat /\ S \union {c} \subseteq Conns
    BY Countable
  <1>3. Cardinality(S \union {c}) =< Cardinality(S) + 1
    <2>1. CASE c \in S
      <3>1. S \union {c} = S
        BY <2>1
      <3>2. QED
        BY <1>1, <3>1
    <2>2. CASE c \notin S
      <3>1. Cardinality(S \union {c}) = Cardinality(S) + 1
        BY <1>1, <2>2, FS_AddElement
      <3>2. QED
        BY <1>1, <3>1
    <2>3. QED
      BY <2>1, <2>2
  <1>4. Cardinality(T) =< Cardinality(S \union {c}) /\ Cardinality(T) \in Nat
    BY <1>2, CountLess, Countable
  <1>5. QED
    BY <1>1, <1>2, <1>3, <1>4

(* What may still be to be sent, listed. *)
LEMMA TodoSet == {Commands(k) : k \in Kinds} \union {<<"set_rot">>} = Todos
  <1>1. /\ Commands("move") = <<"set_vel", "set_rot">> /\ Commands("mission") = <<"app_miss">>
        /\ Commands("connect") = <<>> /\ Commands("kill") = <<>>
    BY DEF Commands
  <1>2. {Commands(k) : k \in Kinds} = {Commands("connect"), Commands("move"), Commands("mission"),
                                        Commands("kill")}
    BY DEF Kinds
  <1>3. QED
    BY <1>1, <1>2 DEF Todos

(* The commands of a task are few and different. *)
LEMMA TodoFacts ==
    ASSUME NEW t \in Todos
    PROVE  /\ Len(t) \in 0 .. 2 /\ (t = <<>> <=> Len(t) = 0) /\ DOMAIN t = 1 .. Len(t)
           /\ t # <<>> => Head(t) = t[1] /\ Tail(t) \in Todos /\ Len(Tail(t)) = Len(t) - 1
           /\ \A i \in DOMAIN t : t[i] \in {"set_vel", "set_rot", "app_miss"}
           /\ Len(t) > 1 => t[2] # t[1] /\ Tail(t)[1] = t[2] /\ Head(Tail(t)) = t[2]
  <1>1. CASE t = <<>>
    BY <1>1
  <1>2. CASE t = <<"set_vel", "set_rot">>
    <2>1. Len(t) = 2 /\ DOMAIN t = 1 .. 2 /\ t[1] = "set_vel" /\ t[2] = "set_rot" /\ t # <<>>
      BY <1>2
    <2>2. Head(t) = "set_vel" /\ Tail(t) = <<"set_rot">>
      BY <1>2
    <2>3. QED
      BY <2>1, <2>2 DEF Todos
  <1>3. CASE t = <<"set_rot">>
    <2>1. Head(t) = "set_rot" /\ Tail(t) = <<>>
      BY <1>3
    <2>2. QED
      BY <1>3, <2>1 DEF Todos
  <1>4. CASE t = <<"app_miss">>
    <2>1. Head(t) = "app_miss" /\ Tail(t) = <<>>
      BY <1>4
    <2>2. QED
      BY <1>4, <2>1 DEF Todos
  <1>5. QED
    BY <1>1, <1>2, <1>3, <1>4 DEF Todos

(* A check is no command, nor is the rest of a torn request. *)
LEMMA RequestFacts ==
    /\ \A r \in Requests : /\ r.task \in 1 .. MaxTasks /\ r.cmd \in {"set_vel", "set_rot", "app_miss"}
                            /\ r \in AllRequests
    /\ \A n \in 1 .. MaxTasks : \A c \in {"set_vel", "set_rot", "app_miss"} :
         [task |-> n, cmd |-> c] \in Requests
    /\ \A n : [task |-> n, cmd |-> "check"] \notin Requests
    /\ \A n \in 0 .. MaxTasks : [task |-> n, cmd |-> "check"] \in AllRequests
    /\ \A r \in AllRequests : Rest(r) \in AllRequests /\ Rest(r).cmd = "rest"
  <1>1. ASSUME NEW r \in AllRequests PROVE Rest(r) \in AllRequests /\ Rest(r).cmd = "rest"
    <2>1. r \in [task : 0 .. MaxTasks, cmd : {"set_vel", "set_rot", "app_miss", "check", "rest"}]
      BY RemoteAssumption DEF AllRequests
    <2>2. Rest(r) \in [task : 0 .. MaxTasks, cmd : {"check", "rest"}] /\ Rest(r).cmd = "rest"
      BY <2>1 DEF Rest
    <2>3. QED
      BY <2>2 DEF AllRequests
  <1>2. QED
    BY <1>1, RemoteAssumption DEF AllRequests

(* What the worker is at is a request. *)
LEMMA CurrentRequest ==
    ASSUME Shape, WorkerType, Working, todo # <<>>
    PROVE  /\ Request(Head(todo)) \in Requests /\ Request(Head(todo)) \in AllRequests
           /\ Request(Head(todo)).task = task.time /\ Request(Head(todo)).cmd = Head(todo)
           /\ Head(todo) = todo[1] /\ 1 \in DOMAIN todo
  <1>1. Head(todo) \in {"set_vel", "set_rot", "app_miss"} /\ Head(todo) = todo[1] /\ 1 \in DOMAIN todo
    <2>1. todo \in Todos
      BY DEF WorkerType
    <2>2. /\ Len(todo) \in 0 .. 2 /\ Len(todo) # 0 /\ DOMAIN todo = 1 .. Len(todo)
          /\ Head(todo) = todo[1]
          /\ \A i \in DOMAIN todo : todo[i] \in {"set_vel", "set_rot", "app_miss"}
      BY <2>1, TodoFacts
    <2>3. 1 \in DOMAIN todo
      BY <2>2
    <2>4. QED
      BY <2>2, <2>3
  <1>2. task.time \in 1 .. MaxTasks
    BY ConnFacts DEF Shape, Working
  <1>3. QED
    BY <1>1, <1>2, RequestFacts DEF Request

(* In the beginning nothing has been sent. *)
LEMMA InitInvariant == Init => IInv
  <1> SUFFICES ASSUME Init PROVE IInv
    OBVIOUS
  <1>1. \A c \in Conns : c2s[c] = <<>> /\ s2c[c] = <<>>
    BY DEF Init, ServerInit
  <1>2. Shape
    <2>1. [kind |-> "connect", time |-> 0] \in Tasks
      BY ConnFacts DEF Tasks, Kinds
    <2>2. stack \in Seq(Tasks) /\ backlog \in Seq(Conns)
      BY <2>1 DEF Init, ServerInit
    <2>3. c2s \in [Conns -> Seq(AllRequests)] /\ s2c \in [Conns -> Seq(SUBSET AllRequests)]
      BY EmptySeq DEF Init, ServerInit
    <2>4. pushed \in 0 .. MaxTasks /\ conns \in 0 .. MaxConns /\ move_time \in 0 .. MaxTasks
      BY ConnFacts DEF Init
    <2>5. QED
      BY <2>2, <2>3, <2>4 DEF Shape, Init
  <1>3. Unused
    BY <1>1 DEF Unused, NONE, Init, ServerInit
  <1>4. ServerType
    BY DEF ServerType, Init, ServerInit
  <1>5. WorkerType
    BY ConnFacts DEF WorkerType, Todos, Tasks, Kinds, Init
  <1>6. Working
    BY DEF Working, Init
  <1>7. \A r : Where(r) = {}
    BY <1>1 DEF Where
  <1>8. SentOnce
    BY <1>1 DEF SentOnce
  <1>9. \A r \in Requests : runs[r] = 0
    BY DEF Init, ServerInit
  <1>10. Ordered
    BY <1>1, <1>7, <1>9 DEF Ordered, Newest, Planned, InOrder, NoneOlder, Init
  <1>11. Counted
    <2> SUFFICES ASSUME NEW r \in Requests PROVE Copies(r) = 0
      <3>1. 0 =< 2 /\ 0 =< 1
        OBVIOUS
      <3>2. QED
        BY <3>1, Zenon DEF Counted
    <2>1. Cardinality(Where(r)) = 0
      BY <1>7, FS_EmptySet
    <2>2. QED
      BY <1>9, <2>1 DEF Copies
  <1>12. Afresh /\ Tidy
    BY ConnFacts DEF Afresh, Tidy, Init
  <1>13. Answered
    BY RequestFacts DEF Answered, Check, Request, Init
  <1>14. QED
    BY <1>2, <1>3, <1>4, <1>5, <1>6, <1>8, <1>10, <1>11, <1>12, <1>13 DEF IInv

(***************************************************************************)
(* The server thread.                                                      *)
(***************************************************************************)

(* Reading takes a prefix. *)
LEMMA SubSeqDrop ==
    ASSUME NEW S, NEW q \in Seq(S), NEW k \in 0 .. Len(q)
    PROVE  /\ SubSeq(q, k + 1, Len(q)) \in Seq(S)
           /\ Len(SubSeq(q, k + 1, Len(q))) = Len(q) - k
           /\ \A i \in 1 .. Len(q) - k : SubSeq(q, k + 1, Len(q))[i] = q[i + k]
  <1>1. Len(q) \in Nat
    BY LenProperties
  <1>2. k + 1 \in 1 .. Len(q) + 1 /\ Len(q) \in (k + 1) - 1 .. Len(q)
    BY <1>1
  <1>3. SubSeq(q, k + 1, Len(q)) \in Seq(S)
    BY <1>1, <1>2, SubSeqProperties
  <1>4. Len(SubSeq(q, k + 1, Len(q))) = Len(q) - k
    BY <1>1, <1>2, SubSeqProperties
  <1>5. ASSUME NEW i \in 1 .. Len(q) - k PROVE SubSeq(q, k + 1, Len(q))[i] = q[i + k]
    <2>1. i \in 1 .. Len(q) - (k + 1) + 1 /\ (k + 1) + i - 1 = i + k
      BY <1>1
    <2>2. SubSeq(q, k + 1, Len(q))[i] = q[(k + 1) + i - 1]
      BY <1>1, <1>2, <2>1, SubSeqProperties
    <2>3. QED
      BY <2>1, <2>2
  <1>6. QED
    BY <1>3, <1>4, <1>5

(* What is pushed comes first, the others move up. *)
LEMMA PushFacts ==
    ASSUME NEW S, NEW q \in Seq(S), NEW x \in S
    PROVE  /\ <<x>> \o q \in Seq(S) /\ (<<x>> \o q)[1] = x /\ Len(q) \in Nat
           /\ DOMAIN q = 1 .. Len(q) /\ DOMAIN (<<x>> \o q) = 1 .. Len(q) + 1
           /\ \A i \in 2 .. Len(q) + 1 : i - 1 \in 1 .. Len(q) /\ (<<x>> \o q)[i] = q[i - 1]
  <1>1. <<x>> \in Seq(S) /\ Len(<<x>>) = 1 /\ <<x>>[1] = x
    OBVIOUS
  <1>2. Len(q) \in Nat /\ DOMAIN q = 1 .. Len(q)
    BY LenProperties
  <1>3. /\ <<x>> \o q \in Seq(S) /\ Len(<<x>> \o q) = 1 + Len(q)
        /\ \A i \in 1 .. 1 + Len(q) : (<<x>> \o q)[i] = (IF i =< 1 THEN <<x>>[i] ELSE q[i - 1])
    BY <1>1, ConcatProperties
  <1>4. DOMAIN (<<x>> \o q) = 1 .. Len(q) + 1
    BY <1>2, <1>3, LenProperties
  <1>5. QED
    BY <1>1, <1>2, <1>3, <1>4

(* Of the requests on their way on c the first k are gone, and others may  *)
(* be torn.                                                                *)
Drop(c, k) ==
    \A i \in DOMAIN c2s'[c] :
      /\ i \in Nat /\ i + k \in DOMAIN c2s[c]
      /\ c2s'[c][i] = c2s[c][i + k] \/ c2s'[c][i].cmd = "rest"

(* Reading neither doubles nor reorders requests. *)
LEMMA ShrinkKeeps ==
    ASSUME Shape, SentOnce, InOrder,
           \A c \in Conns : \E k \in 0 .. Len(c2s[c]) : Drop(c, k)
    PROVE  SentOnce' /\ InOrder' /\ \A r \in Requests : Where(r)' \subseteq Where(r)
  <1>1. \A c \in Conns : Len(c2s[c]) \in Nat
    BY LenProperties DEF Shape
  <1>2. SentOnce'
    <2> SUFFICES ASSUME NEW c \in Conns, NEW i \in DOMAIN c2s'[c], NEW j \in DOMAIN c2s'[c],
                        i # j, c2s'[c][i] \in Requests
                 PROVE  c2s'[c][i] # c2s'[c][j]
      BY DEF SentOnce
    <2>1. PICK k \in 0 .. Len(c2s[c]) : Drop(c, k)
      OBVIOUS
    <2>2. CASE c2s'[c][j].cmd = "rest"
      BY <2>2, RequestFacts
    <2>3. CASE c2s'[c][j].cmd # "rest"
      <3>1. c2s'[c][i].cmd # "rest"
        BY RequestFacts
      <3>2. /\ i + k \in DOMAIN c2s[c] /\ c2s'[c][i] = c2s[c][i + k]
            /\ j + k \in DOMAIN c2s[c] /\ c2s'[c][j] = c2s[c][j + k]
        BY <2>1, <2>3, <3>1 DEF Drop
      <3>3. i + k # j + k
        BY <1>1, <2>1 DEF Drop
      <3>4. QED
        BY <3>2, <3>3, Zenon DEF SentOnce
    <2>4. QED
      BY <2>2, <2>3
  <1>3. InOrder'
    <2> SUFFICES ASSUME NEW c \in Conns, NEW i \in DOMAIN c2s'[c], NEW j \in DOMAIN c2s'[c], i < j,
                        c2s'[c][i].cmd \in MoveCmds, c2s'[c][i].cmd = c2s'[c][j].cmd
                 PROVE  c2s'[c][i].task =< c2s'[c][j].task
      BY DEF InOrder, MoveCmds
    <2>1. PICK k \in 0 .. Len(c2s[c]) : Drop(c, k)
      OBVIOUS
    <2>2. /\ i + k \in DOMAIN c2s[c] /\ c2s'[c][i] = c2s[c][i + k]
          /\ j + k \in DOMAIN c2s[c] /\ c2s'[c][j] = c2s[c][j + k]
      BY <2>1 DEF Drop, MoveCmds
    <2>3. i + k < j + k
      BY <1>1, <2>1 DEF Drop
    <2>4. QED
      BY <2>2, <2>3, Zenon DEF InOrder
  <1>4. ASSUME NEW r \in Requests PROVE Where(r)' \subseteq Where(r)
    <2> SUFFICES ASSUME NEW c \in Conns, NEW i \in DOMAIN c2s'[c], c2s'[c][i] = r
                 PROVE  \E n \in DOMAIN c2s[c] : c2s[c][n] = r
      BY DEF Where
    <2>1. PICK k \in 0 .. Len(c2s[c]) : Drop(c, k)
      OBVIOUS
    <2>2. r.cmd # "rest"
      BY RequestFacts
    <2>3. QED
      BY <2>1, <2>2 DEF Drop
  <1>5. QED
    BY <1>2, <1>3, <1>4

(* The worker does not notice what the server reads and executes. *)
LEMMA ServerWorker ==
    ASSUME IInv, UNCHANGED <<stack, pushed, worker, history>>,
           \A r \in Requests : Where(r)' \subseteq Where(r),
           \A r \in Requests : /\ Copies(r)' =< Copies(r) /\ Copies(r)' \in Nat
                               /\ runs[r] =< runs'[r] /\ runs'[r] \in Nat
    PROVE  WorkerType' /\ Working' /\ Counted' /\ Afresh' /\ Answered' /\ Planned'
  <1>1. UNCHANGED <<stack, pushed, wpc, task, todo, retried, move_time, socket, conns, muddled, got>>
    BY DEF worker, history
  <1>2. WorkerType' /\ Planned'
    BY <1>1 DEF IInv, WorkerType, Ordered, Planned
  <1>3. Times' = Times
    BY <1>1 DEF Times
  <1>4. Working'
    BY <1>1, <1>3 DEF IInv, Working
  <1>5. \A r : /\ IsCurrent(r)' = IsCurrent(r) /\ Unsent(r)' = Unsent(r)
    BY <1>1, <1>3 DEF IsCurrent, Unsent, Request
  <1>6. Counted'
    <2> SUFFICES ASSUME NEW r \in Requests
                 PROVE  /\ Copies(r)' =< 2
                        /\ IsCurrent(r)' /\ ~(wpc' = "waiting" /\ retried') => Copies(r)' =< 1
                        /\ Unsent(r)' => Copies(r)' = 0
      BY DEF Counted
    <2>1. Copies(r)' =< Copies(r) /\ Copies(r)' \in Nat
      OBVIOUS
    <2>2. /\ Copies(r) =< 2
          /\ IsCurrent(r) /\ ~(wpc = "waiting" /\ retried) => Copies(r) =< 1
          /\ Unsent(r) => Copies(r) = 0
      BY DEF IInv, Counted
    <2>3. Copies(r) \in Nat
      BY Countable DEF Copies, IInv, ServerType, Where
    <2>4. QED
      BY <1>1, <1>5, <2>1, <2>2, <2>3
  <1>7. Afresh'
    <2> SUFFICES ASSUME todo # <<>>, wpc \in {"check", "checking"} \/ (wpc = "send" /\ retried)
                 PROVE  socket \notin Where(Request(Head(todo)))'
      BY <1>1 DEF Afresh
    <2>1. PICK r \in Requests : r = Request(Head(todo)) /\ r = Request(Head(todo))'
      BY <1>1, CurrentRequest DEF IInv, Request
    <2>2. socket \notin Where(r)
      BY <2>1 DEF IInv, Afresh
    <2>3. QED
      BY <1>1, <2>1, <2>2
  <1>8. Answered'
    <2>1. got.answer = {got.to} /\ got' = got
      BY <1>1 DEF IInv, Answered
    <2> SUFFICES ASSUME got.to \in Requests
                 PROVE  /\ runs'[got.to] > 0 /\ ~Unsent(got.to)' /\ ~IsCurrent(got.to)'
                        /\ ~got.again => Copies(got.to)' =< 1
      BY <2>1 DEF Answered
    <2>2. /\ runs[got.to] > 0 /\ ~Unsent(got.to) /\ ~IsCurrent(got.to)
          /\ ~got.again => Copies(got.to) =< 1
      BY DEF IInv, Answered
    <2>3. PICK g : g = got.to
      OBVIOUS
    <2>4. /\ Copies(g)' =< Copies(g) /\ Copies(g)' \in Nat
          /\ runs[g] =< runs'[g] /\ runs'[g] \in Nat
      BY <2>3
    <2>5. Copies(g) \in Nat /\ runs[g] \in Nat
      BY <2>3, Countable DEF Copies, IInv, ServerType, Where
    <2>6. runs'[g] > 0 /\ (~got.again => Copies(g)' =< 1)
      BY <2>2, <2>3, <2>4, <2>5
    <2>7. ~Unsent(got.to)' /\ ~IsCurrent(got.to)' /\ Copies(g)' = Copies(got.to)'
      BY <1>5, <2>1, <2>2, <2>3
    <2>8. QED
      BY <2>3, <2>6, <2>7
  <1>9. QED
    BY <1>2, <1>4, <1>6, <1>7, <1>8

(* The end of a turn keeps the connection it is given or closes it. *)
LEMMA TurnType ==
    ASSUME ServerType, NEW fd \in {0} \union Conns, Turn(fd, {fd} \ {0})
    PROVE  /\ spc' \in {"loop", "done", "killed"} /\ conn_fd' \in {0, fd}
           /\ open' = {conn_fd'} \ {0} /\ (spc' # "loop" => open' = {})
  BY DEF Turn, ServerType

(* A connection is accepted: what is unread on the old one is gone. *)
LEMMA AcceptKeeps ==
    ASSUME IInv, accept_conn, UNCHANGED <<stack, pushed, worker, history>>
    PROVE  IInv'
  <1>1. UNCHANGED <<stack, pushed, wpc, task, todo, retried, move_time, socket, conns, muddled, got>>
    BY DEF worker, history
  <1>2. /\ backlog # <<>> /\ backlog' = Tail(backlog)
        /\ c2s' = [c \in Conns |-> IF c = conn_fd THEN <<>> ELSE c2s[c]]
        /\ reset' = reset \ {conn_fd}
        /\ Turn(Head(backlog), (open \ {conn_fd}) \union {Head(backlog)})
        /\ UNCHANGED <<s2c, hungup, torn, terminate, runs>>
    BY DEF accept_conn
  <1>3. /\ backlog \in Seq(Conns) /\ Head(backlog) \in Conns /\ backlog' \in Seq(Conns)
        /\ Head(backlog) = backlog[1] /\ 1 \in DOMAIN backlog
        /\ \A i \in DOMAIN backlog' : i + 1 \in DOMAIN backlog /\ backlog'[i] = backlog[i + 1]
    <2>1. backlog \in Seq(Conns)
      BY DEF IInv, Shape
    <2>2. /\ Head(backlog) \in Conns /\ Tail(backlog) \in Seq(Conns) /\ Head(backlog) = backlog[1]
          /\ Len(Tail(backlog)) = Len(backlog) - 1 /\ Len(backlog) \in Nat /\ Len(backlog) # 0
          /\ \A i \in 1 .. Len(Tail(backlog)) : Tail(backlog)[i] = backlog[i + 1]
      BY <1>2, <2>1, HeadTailProperties, LenProperties, EmptySeq
    <2>3. DOMAIN backlog = 1 .. Len(backlog) /\ DOMAIN backlog' = 1 .. Len(backlog) - 1
      BY <1>2, <2>1, <2>2, LenProperties
    <2>4. QED
      BY <1>2, <2>1, <2>2, <2>3
  <1>4. /\ spc' \in {"loop", "done", "killed"} /\ conn_fd' \in {0, Head(backlog)}
        /\ open' = {conn_fd'} \ {0} /\ (spc' # "loop" => open' = {})
    <2>1. (open \ {conn_fd}) \union {Head(backlog)} = {Head(backlog)} \ {0}
      BY <1>3, ConnFacts DEF IInv, ServerType
    <2>2. Turn(Head(backlog), {Head(backlog)} \ {0})
      BY <1>2, <2>1
    <2>3. QED
      BY <1>3, <2>2, TurnType DEF IInv
  <1>5. ServerType'
    BY <1>2, <1>3, <1>4 DEF IInv, ServerType
  <1>6. Shape'
    <2>1. c2s' \in [Conns -> Seq(AllRequests)]
      BY <1>2, EmptySeq DEF IInv, Shape
    <2>2. QED
      BY <1>1, <1>2, <1>3, <2>1 DEF IInv, Shape
  <1>7. \A c \in Conns : c2s'[c] = c2s[c] \/ c2s'[c] = <<>>
    BY <1>2
  <1>8. Unused'
    <2>1. conn_fd' =< conns /\ \A i \in DOMAIN backlog' : backlog'[i] =< conns
      BY <1>3, <1>4 DEF IInv, Unused, Shape
    <2>2. \A c \in Conns : c > conns => c2s'[c] = <<>> /\ s2c'[c] = <<>>
      BY <1>2, <1>7 DEF IInv, Unused
    <2>3. QED
      BY <1>1, <2>1, <2>2 DEF IInv, Unused
  <1>9. \A c \in Conns : \E k \in 0 .. Len(c2s[c]) : Drop(c, k)
    <2> SUFFICES ASSUME NEW c \in Conns PROVE \E k \in 0 .. Len(c2s[c]) : Drop(c, k)
      OBVIOUS
    <2>1. Len(c2s[c]) \in Nat /\ DOMAIN c2s[c] = 1 .. Len(c2s[c])
      BY LenProperties DEF IInv, Shape
    <2>2. Drop(c, 0)
      BY <1>7, <2>1 DEF Drop
    <2>3. QED
      BY <2>1, <2>2
  <1>10. SentOnce' /\ InOrder' /\ \A r \in Requests : Where(r)' \subseteq Where(r)
    BY <1>6, <1>9, ShrinkKeeps DEF IInv, Ordered, Shape
  <1>11. \A r \in Requests : /\ Copies(r)' =< Copies(r) /\ Copies(r)' \in Nat
                             /\ runs[r] =< runs'[r] /\ runs'[r] \in Nat
    <2> SUFFICES ASSUME NEW r \in Requests
                 PROVE  /\ Copies(r)' =< Copies(r) /\ Copies(r)' \in Nat
                        /\ runs[r] =< runs'[r] /\ runs'[r] \in Nat
      OBVIOUS
    <2>1. runs[r] \in Nat /\ runs'[r] = runs[r]
      BY <1>2 DEF IInv, ServerType
    <2>2. Where(r)' \subseteq Where(r) /\ Where(r) \subseteq Conns
      BY <1>10 DEF Where
    <2>3. /\ Cardinality(Where(r)') =< Cardinality(Where(r))
          /\ Cardinality(Where(r)) \in Nat /\ Cardinality(Where(r)') \in Nat
      BY <2>2, CountLess, Countable
    <2>4. QED
      BY <2>1, <2>3 DEF Copies
  <1>12. WorkerType' /\ Working' /\ Counted' /\ Afresh' /\ Answered' /\ Planned'
    BY <1>10, <1>11, ServerWorker
  <1>13. Tidy'
    <2> SUFFICES ASSUME socket \in Conns, Unmixed, wpc # "connect" PROVE Tidy'
      BY <1>1, <1>2 DEF Tidy, Unmixed
    <2>1. /\ Waiting' = Waiting /\ Asked' = Asked /\ \A i : IsAnswer(i)' = IsAnswer(i)
          /\ s2c'[socket'] = s2c[socket] /\ runs' = runs
          /\ c2s'[socket'] = c2s[socket] \/ c2s'[socket'] = <<>>
      BY <1>1, <1>2, <1>7 DEF Waiting, Asked, IsAnswer, Check, Request
    <2>2. Quiet => Quiet'
      BY <2>1 DEF Quiet
    <2>3. Asking => Asking' \/ Answering'
      BY <2>1 DEF Asking, Answering
    <2>4. Answering => Answering'
      BY <2>1 DEF Answering
    <2>5. (Waiting => Asking \/ Answering) /\ (~Waiting => Quiet)
      BY DEF IInv, Tidy
    <2>6. QED
      BY <2>1, <2>2, <2>3, <2>4, <2>5 DEF Tidy
  <1>14. Newest'
    BY <1>1, <1>2, <1>10 DEF IInv, Ordered, Newest
  <1>15. NoneOlder'
    <2>1. Conns \intersect Live' \subseteq Live
      BY <1>3, <1>4, ConnFacts DEF Live
    <2>2. \A c \in Conns : c2s'[c] = <<>> \/ c2s'[c] = c2s[c]
      BY <1>7
    <2>3. QED
      BY <1>2, <2>1, <2>2 DEF IInv, Ordered, NoneOlder
  <1>16. QED
    BY <1>5, <1>6, <1>8, <1>10, <1>12, <1>13, <1>14, <1>15 DEF IInv, Ordered

(* A turn without a request: at most a heartbeat is sent, or the           *)
(* connection closed.                                                      *)
LEMMA IdleTurn ==
    ASSUME IInv, UNCHANGED <<stack, pushed, worker, history>>,
           UNCHANGED <<backlog, c2s, torn, runs>>, ServerType', conn_fd' \in {0, conn_fd},
           \/ s2c' = s2c
           \/ conn_fd \in Conns /\ s2c' = [s2c EXCEPT ![conn_fd] = Append(@, HEARTBEAT)]
    PROVE  IInv'
  <1>1. UNCHANGED <<stack, pushed, wpc, task, todo, retried, move_time, socket, conns, muddled, got>>
    BY DEF worker, history
  <1>2. \A c \in Conns : s2c[c] \in Seq(SUBSET AllRequests)
    BY DEF IInv, Shape
  <1>3. \A c \in Conns :
          /\ Append(s2c[c], HEARTBEAT) \in Seq(SUBSET AllRequests)
          /\ DOMAIN Append(s2c[c], HEARTBEAT) = DOMAIN s2c[c] \union {Len(s2c[c]) + 1}
          /\ \A i \in DOMAIN s2c[c] : Append(s2c[c], HEARTBEAT)[i] = s2c[c][i]
          /\ Append(s2c[c], HEARTBEAT)[Len(s2c[c]) + 1] = HEARTBEAT
    <2> SUFFICES ASSUME NEW c \in Conns
                 PROVE  /\ Append(s2c[c], HEARTBEAT) \in Seq(SUBSET AllRequests)
                        /\ DOMAIN Append(s2c[c], HEARTBEAT) = DOMAIN s2c[c] \union {Len(s2c[c]) + 1}
                        /\ \A i \in DOMAIN s2c[c] : Append(s2c[c], HEARTBEAT)[i] = s2c[c][i]
                        /\ Append(s2c[c], HEARTBEAT)[Len(s2c[c]) + 1] = HEARTBEAT
      OBVIOUS
    <2>1. HEARTBEAT \in SUBSET AllRequests
      BY DEF HEARTBEAT
    <2>2. /\ Append(s2c[c], HEARTBEAT) \in Seq(SUBSET AllRequests)
          /\ Len(Append(s2c[c], HEARTBEAT)) = Len(s2c[c]) + 1 /\ Len(s2c[c]) \in Nat
          /\ \A i \in 1 .. Len(s2c[c]) : Append(s2c[c], HEARTBEAT)[i] = s2c[c][i]
          /\ Append(s2c[c], HEARTBEAT)[Len(s2c[c]) + 1] = HEARTBEAT
          /\ DOMAIN s2c[c] = 1 .. Len(s2c[c])
      BY <1>2, <2>1, AppendProperties, LenProperties
    <2>3. DOMAIN Append(s2c[c], HEARTBEAT) = 1 .. Len(s2c[c]) + 1
      BY <2>2, LenProperties
    <2>4. QED
      BY <2>2, <2>3
  <1>4. \A c \in Conns :
          /\ s2c'[c] \in Seq(SUBSET AllRequests)
          /\ s2c'[c] # s2c[c] => c = conn_fd
          /\ \A i \in DOMAIN s2c'[c] :
               (i \in DOMAIN s2c[c] /\ s2c'[c][i] = s2c[c][i]) \/ s2c'[c][i] = HEARTBEAT
    <2>1. CASE s2c' = s2c
      BY <1>2, <2>1
    <2>2. CASE conn_fd \in Conns /\ s2c' = [s2c EXCEPT ![conn_fd] = Append(@, HEARTBEAT)]
      <3>1. /\ s2c'[conn_fd] = Append(s2c[conn_fd], HEARTBEAT)
            /\ \A c \in Conns : c # conn_fd => s2c'[c] = s2c[c]
        BY <2>2 DEF IInv, Shape
      <3>2. QED
        BY <1>2, <1>3, <2>2, <3>1
    <2>3. QED
      BY <2>1, <2>2
  <1>5. Shape'
    <2>1. s2c' \in [Conns -> Seq(SUBSET AllRequests)]
      BY <1>3 DEF IInv, Shape
    <2>2. QED
      BY <1>1, <2>1 DEF IInv, Shape
  <1>6. Unused'
    <2>1. \A c \in Conns : c > conns => s2c'[c] = <<>>
      BY <1>4, ConnFacts DEF IInv, Unused, Shape
    <2>2. conn_fd' =< conns
      BY DEF IInv, Unused, Shape
    <2>3. QED
      BY <1>1, <2>1, <2>2 DEF IInv, Unused
  <1>7. \A r : Where(r)' = Where(r)
    BY DEF Where
  <1>8. \A r \in Requests : /\ Copies(r)' = Copies(r) /\ Copies(r) \in Nat /\ runs[r] \in Nat
    BY <1>7, Countable DEF Copies, IInv, ServerType, Where
  <1>9. \A r \in Requests : /\ Copies(r)' =< Copies(r) /\ Copies(r)' \in Nat
                            /\ runs[r] =< runs'[r] /\ runs'[r] \in Nat
    BY <1>8
  <1>10. WorkerType' /\ Working' /\ Counted' /\ Afresh' /\ Answered' /\ Planned'
    BY <1>7, <1>9, ServerWorker
  <1>11. SentOnce' /\ InOrder' /\ Newest'
    BY <1>1, <1>7 DEF IInv, SentOnce, Ordered, InOrder, Newest
  <1>12. NoneOlder'
    <2>1. Conns \intersect Live' \subseteq Live
      BY ConnFacts DEF Live
    <2>2. QED
      BY <2>1 DEF IInv, Ordered, NoneOlder
  <1>13. Tidy'
    <2> SUFFICES ASSUME socket \in Conns, Unmixed, wpc # "connect" PROVE Tidy'
      BY <1>1, <1>2 DEF Tidy, Unmixed
    <2>1. Waiting' = Waiting /\ Asked' = Asked /\ c2s'[socket'] = c2s[socket]
      BY <1>1 DEF Waiting, Asked, Check, Request
    <2>2. \A i \in DOMAIN s2c'[socket'] : IsAnswer(i)' =>
            i \in DOMAIN s2c[socket] /\ IsAnswer(i) /\ s2c'[socket'][i] = s2c[socket][i]
      BY <1>1, <1>4 DEF IsAnswer
    <2>3. Quiet => Quiet'
      BY <2>1, <2>2 DEF Quiet
    <2>4. Asking => Asking'
      BY <2>1, <2>2 DEF Asking
    <2>5. Answering => Answering'
      BY <2>1, <2>2 DEF Answering
    <2>6. (Waiting => Asking \/ Answering) /\ (~Waiting => Quiet)
      BY DEF IInv, Tidy
    <2>7. QED
      BY <2>1, <2>3, <2>4, <2>5, <2>6 DEF Tidy
  <1>14. QED
    BY <1>5, <1>6, <1>10, <1>11, <1>12, <1>13 DEF IInv, Ordered

(* A turn with a heartbeat. *)
LEMMA HeartbeatKeeps ==
    ASSUME IInv, heartbeat, UNCHANGED <<stack, pushed, worker, history>>
    PROVE  IInv'
  <1>1. UNCHANGED <<backlog, c2s, hungup, torn, terminate, runs>>
    BY DEF heartbeat
  <1>2. open = {conn_fd} \ {0} /\ conn_fd \in {0} \union Conns
    BY DEF IInv, ServerType
  <1>3. /\ spc' \in {"loop", "done", "killed"} /\ conn_fd' \in {0, conn_fd}
        /\ open' = {conn_fd'} \ {0} /\ (spc' # "loop" => open' = {})
    <2>1. CASE Turn(conn_fd, open)
      BY <1>2, <2>1, TurnType DEF IInv
    <2>2. CASE Turn(0, open \ {conn_fd})
      <3>1. open \ {conn_fd} = {0} \ {0}
        BY <1>2
      <3>2. QED
        BY <2>2, <3>1, TurnType DEF IInv
    <2>3. QED
      BY <2>1, <2>2 DEF heartbeat
  <1>4. reset' \subseteq hungup'
    BY <1>1, <1>2 DEF heartbeat, IInv, ServerType
  <1>5. ServerType'
    BY <1>1, <1>2, <1>3, <1>4 DEF IInv, ServerType
  <1>6. \/ s2c' = s2c
        \/ conn_fd \in Conns /\ s2c' = [s2c EXCEPT ![conn_fd] = Append(@, HEARTBEAT)]
    BY <1>2 DEF heartbeat
  <1>7. QED
    BY <1>1, <1>3, <1>5, <1>6, IdleTurn

(* A turn with nothing, and srv_destroy. *)
LEMMA TimeoutKeeps ==
    ASSUME IInv, timeout \/ srv_destroy, UNCHANGED <<stack, pushed, worker, history>>
    PROVE  IInv'
  <1>1. UNCHANGED <<backlog, c2s, s2c, hungup, reset, torn, runs>> /\ terminate' \in BOOLEAN
    BY DEF timeout, srv_destroy, network, IInv, ServerType
  <1>2. open = {conn_fd} \ {0} /\ conn_fd \in {0} \union Conns
    BY DEF IInv, ServerType
  <1>3. /\ spc' \in {"loop", "done", "killed"} /\ conn_fd' \in {0, conn_fd}
        /\ open' = {conn_fd'} \ {0} /\ (spc' # "loop" => open' = {})
    <2>1. CASE timeout
      BY <1>2, <2>1, TurnType DEF IInv, timeout
    <2>2. CASE srv_destroy
      BY <2>2 DEF srv_destroy, IInv, ServerType
    <2>3. QED
      BY <2>1, <2>2
  <1>4. ServerType'
    BY <1>1, <1>2, <1>3 DEF IInv, ServerType
  <1>5. QED
    BY <1>1, <1>3, <1>4, IdleTurn

(* What serve and serve_torn do when they read k requests: at most the     *)
(* first of them is executed, and one that comes alone and whole is.       *)
Served(k) ==
    LET q == c2s[conn_fd] IN
    /\ k \in 1 .. Len(q)
    /\ \/ /\ c2s' = [c2s EXCEPT ![conn_fd] = SubSeq(@, k + 1, Len(@))] /\ torn' = torn
          /\ k = 1 /\ q[1] \in Requests => runs' = [runs EXCEPT ![q[1]] = @ + 1]
       \/ /\ c2s' = [c2s EXCEPT ![conn_fd] = <<Rest(q[k])>> \o SubSeq(@, k + 1, Len(@))]
          /\ torn' = torn \union {conn_fd}
    /\ runs' = runs \/ (q[1] \in Requests /\ runs' = [runs EXCEPT ![q[1]] = @ + 1])
    /\ s2c' = s2c \/ s2c' = [s2c EXCEPT ![conn_fd] = Append(@, {q[i] : i \in 1 .. k})]

(* They do that, and keep the connection or close it. *)
LEMMA ServeResult ==
    ASSUME IInv, serve \/ serve_torn
    PROVE  /\ conn_fd \in Conns /\ backlog = <<>> /\ backlog' = backlog
           /\ ServerType' /\ conn_fd' \in {0, conn_fd}
           /\ \E k \in 1 .. Len(c2s[conn_fd]) : Served(k)
  <1>1. /\ conn_fd \in Conns /\ backlog = <<>> /\ UNCHANGED <<backlog, hungup, terminate>>
        /\ open = {conn_fd} \ {0} /\ torn' \subseteq Conns
    BY DEF serve, serve_torn, IInv, ServerType
  <1>2. PICK k \in 1 .. Len(c2s[conn_fd]) :
          /\ \/ /\ c2s' = [c2s EXCEPT ![conn_fd] = SubSeq(@, k + 1, Len(@))] /\ torn' = torn
                /\ execute_cmd(SubSeq(c2s[conn_fd], 1, k))
             \/ /\ c2s' = [c2s EXCEPT ![conn_fd] =
                              <<Rest(SubSeq(c2s[conn_fd], 1, k)[k])>> \o SubSeq(@, k + 1, Len(@))]
                /\ torn' = torn \union {conn_fd}
                /\ execute_cmd(SubSeq(c2s[conn_fd], 1, k)) \/ runs' = runs
          /\ Send({SubSeq(c2s[conn_fd], 1, k)[i] : i \in 1 .. k})
    <2>1. CASE serve
      BY <2>1 DEF serve
    <2>2. CASE serve_torn
      BY <2>2 DEF serve_torn
    <2>3. QED
      BY <2>1, <2>2
  <1>3. c2s[conn_fd] \in Seq(AllRequests) /\ Len(c2s[conn_fd]) \in Nat
    BY <1>1, LenProperties DEF IInv, Shape
  <1>4. /\ Len(SubSeq(c2s[conn_fd], 1, k)) = k
        /\ \A i \in 1 .. k : SubSeq(c2s[conn_fd], 1, k)[i] = c2s[conn_fd][i]
    <2>1. 1 \in 1 .. Len(c2s[conn_fd]) + 1 /\ k \in 1 - 1 .. Len(c2s[conn_fd])
      BY <1>3
    <2>2. Len(SubSeq(c2s[conn_fd], 1, k)) = k - 1 + 1
      BY <1>3, <2>1, SubSeqProperties
    <2>3. ASSUME NEW i \in 1 .. k PROVE SubSeq(c2s[conn_fd], 1, k)[i] = c2s[conn_fd][i]
      <3>1. i \in 1 .. k - 1 + 1 /\ 1 + i - 1 = i
        OBVIOUS
      <3>2. SubSeq(c2s[conn_fd], 1, k)[i] = c2s[conn_fd][1 + i - 1]
        BY <1>3, <2>1, <3>1, SubSeqProperties
      <3>3. QED
        BY <3>1, <3>2
    <2>4. QED
      BY <2>2, <2>3
  <1>5. {SubSeq(c2s[conn_fd], 1, k)[i] : i \in 1 .. k} = {c2s[conn_fd][i] : i \in 1 .. k}
    BY <1>4
  <1>6. PICK reqs : reqs = SubSeq(c2s[conn_fd], 1, k)
    OBVIOUS
  <1>7. reqs[1] = c2s[conn_fd][1] /\ Len(reqs) = k /\ SubSeq(c2s[conn_fd], 1, k)[k] = c2s[conn_fd][k]
    BY <1>4, <1>6
  <1>8. /\ runs' = runs \/ (reqs[1] \in Requests /\ runs' = [runs EXCEPT ![reqs[1]] = @ + 1])
        /\ execute_cmd(reqs) /\ k = 1 /\ reqs[1] \in Requests => runs' = [runs EXCEPT ![reqs[1]] = @ + 1]
    BY <1>2, <1>6, <1>7 DEF execute_cmd
  <1>9. runs' \in [Requests -> Nat]
    BY <1>8 DEF IInv, ServerType
  <1>10. s2c' = s2c \/ s2c' = [s2c EXCEPT ![conn_fd] = Append(@, {c2s[conn_fd][i] : i \in 1 .. k})]
    BY <1>2, <1>5 DEF Send
  <1>11. Served(k)
    BY <1>2, <1>6, <1>7, <1>8, <1>10 DEF Served
  <1>12. /\ spc' \in {"loop", "done", "killed"} /\ conn_fd' \in {0, conn_fd}
         /\ open' = {conn_fd'} \ {0} /\ (spc' # "loop" => open' = {})
    <2>1. Turn(conn_fd, open) \/ (spc' = "killed" /\ conn_fd' = 0 /\ open' = {})
      BY <1>2 DEF Send
    <2>2. CASE Turn(conn_fd, open)
      BY <1>1, <2>2, TurnType DEF IInv
    <2>3. QED
      BY <2>1, <2>2
  <1>13. reset' \subseteq hungup'
    BY <1>1, <1>2 DEF Send, IInv, ServerType
  <1>14. ServerType'
    BY <1>1, <1>9, <1>12, <1>13 DEF IInv, ServerType
  <1>15. QED
    BY <1>1, <1>11, <1>12, <1>14

(* A request that is executed is no longer on its way. *)
LEMMA ServeKeeps ==
    ASSUME IInv, serve \/ serve_torn, UNCHANGED <<stack, pushed, worker, history>>
    PROVE  IInv'
  <1>1. UNCHANGED <<stack, pushed, wpc, task, todo, retried, move_time, socket, conns, muddled, got>>
    BY DEF worker, history
  <1> DEFINE q == c2s[conn_fd]
  <1>2. /\ conn_fd \in Conns /\ backlog = <<>> /\ backlog' = backlog
        /\ ServerType' /\ conn_fd' \in {0, conn_fd}
    BY ServeResult
  <1>3. PICK k \in 1 .. Len(q) : Served(k)
    BY ServeResult
  <1>4. /\ q \in Seq(AllRequests) /\ Len(q) \in Nat /\ DOMAIN q = 1 .. Len(q)
        /\ \A i \in 1 .. Len(q) : q[i] \in AllRequests
    BY <1>2, LenProperties, ElementOfSeq DEF IInv, Shape
  <1>5. /\ SubSeq(q, k + 1, Len(q)) \in Seq(AllRequests)
        /\ DOMAIN SubSeq(q, k + 1, Len(q)) = 1 .. Len(q) - k
        /\ Len(SubSeq(q, k + 1, Len(q))) = Len(q) - k
        /\ \A i \in 1 .. Len(q) - k : SubSeq(q, k + 1, Len(q))[i] = q[i + k]
    <2>1. k \in 0 .. Len(q)
      BY <1>4
    <2>2. QED
      BY <1>4, <2>1, SubSeqDrop, LenProperties
  <1>6. /\ \A c \in Conns : c # conn_fd => c2s'[c] = c2s[c]
        /\ c2s' \in [Conns -> Seq(AllRequests)]
        /\ \E n \in 0 .. Len(q) : /\ Drop(conn_fd, n)
                                  /\ \A i \in DOMAIN c2s'[conn_fd] : i + n = 1 => c2s'[conn_fd][i].cmd = "rest"
    <2>1. CASE c2s' = [c2s EXCEPT ![conn_fd] = SubSeq(@, k + 1, Len(@))]
      <3>1. /\ c2s'[conn_fd] = SubSeq(q, k + 1, Len(q))
            /\ \A c \in Conns : c # conn_fd => c2s'[c] = c2s[c]
            /\ c2s' \in [Conns -> Seq(AllRequests)]
        BY <1>2, <1>5, <2>1 DEF IInv, Shape
      <3>2. \A i \in 1 .. Len(q) - k : i \in Nat /\ i + k \in 1 .. Len(q) /\ i + k # 1
        BY <1>4
      <3>3. Drop(conn_fd, k) /\ \A i \in DOMAIN c2s'[conn_fd] : i + k # 1
        BY <1>4, <1>5, <3>1, <3>2 DEF Drop
      <3>4. QED
        BY <1>4, <3>1, <3>3
    <2>2. CASE c2s' = [c2s EXCEPT ![conn_fd] = <<Rest(q[k])>> \o SubSeq(@, k + 1, Len(@))]
      <3>1. PICK rest \in AllRequests : rest = Rest(q[k]) /\ rest.cmd = "rest"
        BY <1>4, RequestFacts
      <3>2. PICK t \in Seq(AllRequests) : t = SubSeq(q, k + 1, Len(q))
        BY <1>5
      <3>3. /\ <<rest>> \o t \in Seq(AllRequests) /\ (<<rest>> \o t)[1] = rest
            /\ DOMAIN (<<rest>> \o t) = 1 .. Len(t) + 1
            /\ \A i \in 2 .. Len(t) + 1 : i - 1 \in 1 .. Len(t) /\ (<<rest>> \o t)[i] = t[i - 1]
        BY <3>2, PushFacts
      <3>4. /\ c2s'[conn_fd] = <<rest>> \o t
            /\ \A c \in Conns : c # conn_fd => c2s'[c] = c2s[c]
            /\ c2s' \in [Conns -> Seq(AllRequests)]
        BY <1>2, <2>2, <3>1, <3>2, <3>3 DEF IInv, Shape
      <3>5. PICK n \in 0 .. Len(q) : n = k - 1
        BY <1>4
      <3>6. ASSUME NEW i \in 1 .. Len(q) - k + 1
            PROVE  /\ i \in Nat /\ i + n \in 1 .. Len(q)
                   /\ c2s'[conn_fd][i] = q[i + n] \/ c2s'[conn_fd][i].cmd = "rest"
                   /\ i + n = 1 => c2s'[conn_fd][i].cmd = "rest"
        <4>1. i \in Nat /\ i + n \in 1 .. Len(q)
          BY <1>4, <3>5
        <4>2. CASE i = 1
          BY <3>1, <3>3, <3>4, <4>1, <4>2
        <4>3. CASE i # 1
          <5>1. i \in 2 .. Len(t) + 1 /\ i - 1 \in 1 .. Len(q) - k /\ i - 1 + k = i + n /\ i + n # 1
            <6>1. Len(t) = Len(q) - k /\ Len(q) \in Nat
              BY <1>4, <1>5, <3>2
            <6>2. i \in 2 .. Len(q) - k + 1
              BY <4>3, <6>1
            <6>3. QED
              BY <3>5, <6>1, <6>2
          <5>2. (<<rest>> \o t)[i] = t[i - 1]
            BY <3>3, <5>1
          <5>3. t[i - 1] = q[i - 1 + k]
            BY <1>5, <3>2, <5>1
          <5>4. QED
            BY <3>4, <4>1, <5>1, <5>2, <5>3
        <4>4. QED
          BY <4>2, <4>3
      <3>7. DOMAIN c2s'[conn_fd] = 1 .. Len(q) - k + 1
        BY <1>4, <1>5, <3>2, <3>3, <3>4
      <3>8. Drop(conn_fd, n) /\ \A i \in DOMAIN c2s'[conn_fd] : i + n = 1 => c2s'[conn_fd][i].cmd = "rest"
        BY <1>4, <3>6, <3>7 DEF Drop
      <3>9. QED
        BY <3>4, <3>8
    <2>3. QED
      BY <1>3, <2>1, <2>2 DEF Served
  <1>7. PICK n \in 0 .. Len(q) : /\ Drop(conn_fd, n)
                                /\ \A i \in DOMAIN c2s'[conn_fd] : i + n = 1 => c2s'[conn_fd][i].cmd = "rest"
    BY <1>6
  <1>8. SentOnce' /\ InOrder' /\ \A r \in Requests : Where(r)' \subseteq Where(r)
    <2>1. \A c \in Conns : \E m \in 0 .. Len(c2s[c]) : Drop(c, m)
      <3> SUFFICES ASSUME NEW c \in Conns, c # conn_fd PROVE \E m \in 0 .. Len(c2s[c]) : Drop(c, m)
        BY <1>7
      <3>1. Len(c2s[c]) \in Nat /\ DOMAIN c2s[c] = 1 .. Len(c2s[c])
        BY LenProperties DEF IInv, Shape
      <3>2. Drop(c, 0)
        BY <1>6, <3>1 DEF Drop
      <3>3. QED
        BY <3>1, <3>2
    <2>2. QED
      BY <2>1, ShrinkKeeps DEF IInv, Ordered
  <1>9. PICK answer : answer = {q[i] : i \in 1 .. k}
    OBVIOUS
  <1>10. answer \in SUBSET AllRequests
    BY <1>4, <1>9
  <1>11. /\ s2c' \in [Conns -> Seq(SUBSET AllRequests)]
         /\ \A c \in Conns : c # conn_fd => s2c'[c] = s2c[c]
         /\ s2c'[conn_fd] = s2c[conn_fd] \/ s2c'[conn_fd] = Append(s2c[conn_fd], answer)
    <2>1. Append(s2c[conn_fd], answer) \in Seq(SUBSET AllRequests)
      BY <1>2, <1>10, AppendProperties DEF IInv, Shape
    <2>2. s2c' = s2c \/ s2c' = [s2c EXCEPT ![conn_fd] = Append(@, answer)]
      BY <1>3, <1>9 DEF Served
    <2>3. QED
      BY <1>2, <2>1, <2>2 DEF IInv, Shape
  <1>12. Shape'
    BY <1>1, <1>2, <1>6, <1>11 DEF IInv, Shape
  <1>13. Unused'
    <2>1. conn_fd =< conns /\ conn_fd \in Nat /\ conns \in Nat
      BY <1>2, ConnFacts DEF IInv, Unused, Shape
    <2>2. conn_fd' =< conns
      BY <1>2, <2>1
    <2>3. \A c \in Conns : c > conns => c2s'[c] = <<>> /\ s2c'[c] = <<>>
      <3> SUFFICES ASSUME NEW c \in Conns, c > conns PROVE c2s'[c] = <<>> /\ s2c'[c] = <<>>
        OBVIOUS
      <3>1. c # conn_fd
        BY <2>1, ConnFacts
      <3>2. QED
        BY <1>6, <1>11, <3>1 DEF IInv, Unused
    <2>4. QED
      BY <1>1, <1>2, <2>2, <2>3 DEF IInv, Unused
  <1>14. \A r \in Requests : /\ runs[r] \in Nat /\ runs'[r] \in Nat /\ runs[r] =< runs'[r]
                             /\ runs'[r] = runs[r] \/ (r = q[1] /\ runs'[r] = runs[r] + 1)
    BY <1>3 DEF Served, IInv, ServerType
  <1>15. ASSUME NEW r \in Requests, r = q[1]
         PROVE  conn_fd \in Where(r) /\ conn_fd \notin Where(r)'
    <2>1. 1 \in DOMAIN q
      BY <1>4
    <2>2. conn_fd \in Where(r)
      BY <1>2, <1>15, <2>1 DEF Where
    <2>3. ASSUME NEW i \in DOMAIN c2s'[conn_fd], c2s'[conn_fd][i] = r PROVE FALSE
      <3>1. c2s'[conn_fd][i].cmd # "rest"
        BY <1>15, <2>3, RequestFacts
      <3>2. c2s'[conn_fd][i] = q[i + n] /\ i + n \in DOMAIN q /\ i + n # 1
        BY <1>7, <3>1 DEF Drop
      <3>3. QED
        BY <1>2, <1>15, <2>1, <2>3, <3>2, Zenon DEF IInv, SentOnce
    <2>4. conn_fd \notin Where(r)'
      BY <2>3 DEF Where
    <2>5. QED
      BY <2>2, <2>4
  <1>16. \A r \in Requests : /\ Copies(r)' =< Copies(r) /\ Copies(r)' \in Nat
                             /\ runs[r] =< runs'[r] /\ runs'[r] \in Nat
    <2> SUFFICES ASSUME NEW r \in Requests PROVE Copies(r)' =< Copies(r) /\ Copies(r)' \in Nat
      BY <1>14
    <2>1. Where(r)' \subseteq Where(r) /\ Where(r) \subseteq Conns
      BY <1>8 DEF Where
    <2>2. /\ Cardinality(Where(r)') =< Cardinality(Where(r))
          /\ \A c \in Where(r) : c \notin Where(r)' => Cardinality(Where(r)') =< Cardinality(Where(r)) - 1
          /\ Cardinality(Where(r)) \in Nat /\ Cardinality(Where(r)') \in Nat
      BY <2>1, CountLess, Countable
    <2>3. CASE runs'[r] = runs[r]
      BY <1>14, <2>2, <2>3 DEF Copies
    <2>4. CASE r = q[1] /\ runs'[r] = runs[r] + 1
      <3>1. conn_fd \in Where(r) /\ conn_fd \notin Where(r)'
        BY <1>15, <2>4
      <3>2. QED
        BY <1>14, <2>2, <2>4, <3>1 DEF Copies
    <2>5. QED
      BY <1>14, <2>3, <2>4
  <1>17. WorkerType' /\ Working' /\ Counted' /\ Afresh' /\ Answered' /\ Planned'
    BY <1>8, <1>16, ServerWorker
  <1>18. Newest'
    <2> SUFFICES ASSUME NEW s \in Requests, s.cmd \in MoveCmds, runs'[s] > 0 \/ Where(s)' # {}
                 PROVE  s.task =< move_time
      BY <1>1 DEF Newest, MoveCmds
    <2>1. runs[s] > 0 \/ Where(s) # {}
      BY <1>8, <1>14, <1>15
    <2>2. QED
      BY <2>1 DEF IInv, Ordered, Newest
  <1>19. NoneOlder'
    <2> SUFFICES ASSUME NEW c \in Conns \intersect Live', NEW i \in DOMAIN c2s'[c], NEW s \in Requests,
                        s.cmd \in MoveCmds, runs'[s] > 0, c2s'[c][i].cmd = s.cmd
                 PROVE  s.task =< c2s'[c][i].task
      BY DEF NoneOlder, MoveCmds
    <2>1. c = conn_fd /\ c \in Live
      BY <1>2, ConnFacts DEF Live
    <2>2. c2s'[c][i] = q[i + n] /\ i + n \in DOMAIN q /\ i + n # 1
      BY <1>7, <2>1 DEF Drop, MoveCmds
    <2>3. c2s'[c][i] = q[i + n] /\ i + n \in DOMAIN q /\ 1 < i + n /\ 1 \in DOMAIN q
      BY <1>4, <2>2
    <2>4. CASE runs[s] > 0
      BY <2>1, <2>3, <2>4 DEF IInv, Ordered, NoneOlder
    <2>5. CASE s = q[1]
      BY <2>1, <2>3, <2>5 DEF IInv, Ordered, InOrder
    <2>6. QED
      BY <1>14, <2>4, <2>5
  <1>20. Tidy'
    <2> SUFFICES ASSUME socket \in Conns, Unmixed, socket \notin torn', wpc # "connect" PROVE Tidy'
      BY <1>1, <1>3 DEF Tidy, Unmixed, Served
    <2>1. Waiting' = Waiting /\ Asked' = Asked /\ socket' = socket
      BY <1>1 DEF Waiting, Asked, Check, Request
    <2>2. (Waiting => Asking \/ Answering) /\ (~Waiting => Quiet)
      BY DEF IInv, Tidy
    <2>3. CASE socket # conn_fd
      <3>1. c2s'[socket'] = c2s[socket] /\ s2c'[socket'] = s2c[socket]
        BY <1>6, <1>11, <2>1, <2>3
      <3>2. \A i : IsAnswer(i)' = IsAnswer(i)
        BY <3>1 DEF IsAnswer
      <3>3. Asked \in Requests => runs'[Asked] \in Nat /\ runs[Asked] \in Nat /\ runs[Asked] =< runs'[Asked]
        BY <1>14
      <3>4. Quiet => Quiet'
        BY <3>1, <3>2 DEF Quiet
      <3>5. Asking => Asking'
        BY <2>1, <3>1, <3>2 DEF Asking
      <3>6. Answering => Answering'
        BY <2>1, <3>1, <3>2, <3>3 DEF Answering
      <3>7. QED
        BY <2>1, <2>2, <3>4, <3>5, <3>6 DEF Tidy
    <2>4. CASE socket = conn_fd
      <3>1. q # <<>>
        BY <1>4
      <3>2. Waiting /\ Asking
        BY <2>2, <2>4, <3>1 DEF Quiet, Answering
      <3>3. q = <<Asked>> /\ k = 1 /\ Len(q) = 1 /\ q[1] = Asked
        BY <2>4, <3>2 DEF Asking
      <3>4. answer = {Asked}
        BY <1>9, <3>3
      <3>5. c2s'[socket'] = <<>>
        <4>1. c2s'[conn_fd] = SubSeq(q, k + 1, Len(q))
          BY <1>2, <1>3, <2>4 DEF Served, IInv, Shape
        <4>2. QED
          BY <1>5, <2>1, <2>4, <3>3, <4>1, EmptySeq
      <3>6. Asked \in Requests => runs'[Asked] > 0
        BY <1>3, <1>14, <2>4, <3>3 DEF Served, IInv, ServerType
      <3>7. \A i \in DOMAIN s2c[socket] : s2c[socket][i] = HEARTBEAT
        BY <3>2 DEF Asking, IsAnswer
      <3>8. s2c[socket] \in Seq(SUBSET AllRequests) /\ Len(s2c[socket]) \in Nat
            /\ DOMAIN s2c[socket] = 1 .. Len(s2c[socket])
        BY LenProperties DEF IInv, Shape
      <3>9. /\ DOMAIN Append(s2c[socket], answer) = 1 .. Len(s2c[socket]) + 1
            /\ \A i \in 1 .. Len(s2c[socket]) : Append(s2c[socket], answer)[i] = s2c[socket][i]
            /\ Append(s2c[socket], answer)[Len(s2c[socket]) + 1] = answer
        BY <1>10, <3>8, AppendProperties, LenProperties
      <3>10. \A i \in DOMAIN s2c'[socket] :
               s2c'[socket][i] = HEARTBEAT \/ (i = Len(s2c[socket]) + 1 /\ s2c'[socket][i] = answer)
        BY <1>11, <2>4, <3>7, <3>8, <3>9
      <3>11. Answering'
        BY <2>1, <3>4, <3>5, <3>6, <3>10 DEF Answering, IsAnswer
      <3>12. QED
        BY <2>1, <3>2, <3>11 DEF Tidy
    <2>5. QED
      BY <2>3, <2>4
  <1>21. QED
    BY <1>2, <1>8, <1>12, <1>13, <1>17, <1>18, <1>19, <1>20 DEF IInv, Ordered

(***************************************************************************)
(* The worker.                                                             *)
(***************************************************************************)

(* A step that sends nothing keeps the counts if what it makes current or  *)
(* unsent was so before.                                                   *)
LEMMA CountsStay ==
    ASSUME IInv, UNCHANGED <<c2s, runs>>,
           \A r \in Requests : Unsent(r)' => Unsent(r),
           \A r \in Requests : IsCurrent(r)' =>
             \/ Unsent(r)
             \/ IsCurrent(r) /\ (wpc = "waiting" /\ retried => wpc' = "waiting" /\ retried')
    PROVE  /\ SentOnce' /\ InOrder' /\ Counted'
           /\ got' = got => Answered'
           /\ \A r : Where(r)' = Where(r)
  <1>1. \A r : Where(r)' = Where(r)
    BY DEF Where
  <1>2. SentOnce' /\ InOrder'
    BY DEF IInv, SentOnce, Ordered, InOrder
  <1>3. \A r \in Requests : Copies(r)' = Copies(r) /\ Copies(r) \in Nat
    BY <1>1, Countable DEF Copies, IInv, ServerType, Where
  <1>4. Counted'
    <2> SUFFICES ASSUME NEW r \in Requests
                 PROVE  /\ Copies(r)' =< 2
                        /\ IsCurrent(r)' /\ ~(wpc' = "waiting" /\ retried') => Copies(r)' =< 1
                        /\ Unsent(r)' => Copies(r)' = 0
      BY DEF Counted
    <2>1. /\ Copies(r) =< 2
          /\ IsCurrent(r) /\ ~(wpc = "waiting" /\ retried) => Copies(r) =< 1
          /\ Unsent(r) => Copies(r) = 0
      BY DEF IInv, Counted
    <2>2. QED
      BY <1>3, <2>1
  <1>5. ASSUME got' = got PROVE Answered'
    <2> SUFFICES ASSUME got.to \in Requests
                 PROVE  /\ runs'[got.to] > 0 /\ ~Unsent(got.to)' /\ ~IsCurrent(got.to)'
                        /\ ~got.again => Copies(got.to)' =< 1
      BY <1>5 DEF IInv, Answered
    <2>1. /\ runs[got.to] > 0 /\ ~Unsent(got.to) /\ ~IsCurrent(got.to)
          /\ ~got.again => Copies(got.to) =< 1
      BY DEF IInv, Answered
    <2>2. PICK g \in Requests : g = got.to
      OBVIOUS
    <2>3. ~Unsent(g)' /\ ~IsCurrent(g)' /\ Copies(g)' = Copies(g)
      BY <1>3, <2>1, <2>2
    <2>4. Unsent(g)' = Unsent(got.to)' /\ IsCurrent(g)' = IsCurrent(got.to)' /\ Copies(g)' = Copies(got.to)'
      BY <1>5, <2>2
    <2>5. QED
      BY <2>1, <2>2, <2>3, <2>4
  <1>6. QED
    BY <1>1, <1>2, <1>4, <1>5

(* What the worker leaves alone then. *)
LEMMA OrderStays ==
    ASSUME IInv, UNCHANGED <<c2s, runs, conn_fd, backlog>>, move_time =< move_time',
           move_time' \in Nat
    PROVE  Newest' /\ NoneOlder'
  <1>1. \A r : Where(r)' = Where(r)
    BY DEF Where
  <1>2. Newest'
    <2> SUFFICES ASSUME NEW s \in Requests, s.cmd \in MoveCmds, runs[s] > 0 \/ Where(s) # {}
                 PROVE  s.task =< move_time'
      BY <1>1 DEF Newest, MoveCmds
    <2>1. s.task =< move_time /\ s.task \in Nat /\ move_time \in Nat
      BY RequestFacts DEF IInv, Ordered, Newest, Shape
    <2>2. QED
      BY <2>1
  <1>3. NoneOlder'
    BY DEF IInv, Ordered, NoneOlder, Live
  <1>4. QED
    BY <1>2, <1>3

(* The next command of the task has not been sent before. *)
LEMMA NextKeeps ==
    ASSUME IInv, NextCommand, UNCHANGED <<stack, pushed, task, c2s, runs, move_time>>,
           socket' \in {UNCONNECTED} \union Conns
    PROVE  /\ WorkerType' /\ Working' /\ Afresh' /\ Planned' /\ wpc' \in {"send", "idle"}
           /\ SentOnce' /\ InOrder' /\ Counted'
           /\ got' = got => Answered'
           /\ \A r \in Requests : (Unsent(r)' => Unsent(r)) /\ (IsCurrent(r)' => Unsent(r))
  <1>1. /\ todo' = (IF todo = <<>> THEN <<>> ELSE Tail(todo))
        /\ wpc' = (IF Len(todo) > 1 THEN "send" ELSE "idle")
        /\ retried' = FALSE
    BY DEF NextCommand
  <1>2. todo \in Todos
    BY DEF IInv, WorkerType
  <1>3. /\ Len(todo) \in 0 .. 2 /\ (todo = <<>> <=> Len(todo) = 0) /\ DOMAIN todo = 1 .. Len(todo)
        /\ todo # <<>> => Tail(todo) \in Todos /\ Len(Tail(todo)) = Len(todo) - 1
        /\ Len(todo) > 1 => Tail(todo)[1] = todo[2] /\ Head(Tail(todo)) = todo[2]
    BY <1>2, TodoFacts
  <1>4. todo' \in Todos /\ wpc' \in {"send", "idle"}
    BY <1>1, <1>2, <1>3
  <1>5. /\ Len(todo') \in 0 .. 2 /\ (todo' = <<>> <=> Len(todo') = 0) /\ DOMAIN todo' = 1 .. Len(todo')
    BY <1>4, TodoFacts
  <1>6. /\ Len(todo') =< 1
        /\ todo' # <<>> <=> Len(todo) > 1
        /\ todo' # <<>> => Len(todo) = 2 /\ todo'[1] = todo[2] /\ Head(todo') = todo[2] /\ todo # <<>>
    BY <1>1, <1>3, <1>5
  <1>7. WorkerType'
    BY <1>4 DEF IInv, WorkerType
  <1>8. Working'
    <2>1. Times' = Times
      BY DEF Times
    <2>2. wpc' = "send" <=> todo' # <<>>
      BY <1>1, <1>6
    <2>3. socket' # NONE
      BY ConnFacts DEF NONE, UNCONNECTED
    <2>4. QED
      BY <1>1, <1>4, <1>6, <2>1, <2>2, <2>3 DEF IInv, Working
  <1>9. Afresh'
    BY <1>1, <1>4 DEF Afresh
  <1>10. Planned'
    BY <1>3, <1>5, <1>6 DEF IInv, Ordered, Planned
  <1>11. \A r \in Requests : IsCurrent(r)' => Unsent(r)
    <2> SUFFICES ASSUME NEW r \in Requests, IsCurrent(r)' PROVE Unsent(r)
      OBVIOUS
    <2>1. todo' # <<>> /\ r = [task |-> task.time, cmd |-> Head(todo')]
      BY DEF IsCurrent, Request
    <2>2. r.task = task.time /\ r.cmd = todo[2] /\ 2 \in 2 .. Len(todo)
      BY <1>6, <2>1
    <2>3. QED
      BY <2>2 DEF Unsent
  <1>12. \A r \in Requests : Unsent(r)' => Unsent(r)
    <2> SUFFICES ASSUME NEW r \in Requests, Unsent(r)' PROVE Unsent(r)
      OBVIOUS
    <2>1. Times' = Times
      BY DEF Times
    <2>2. r.task > pushed \/ r.task \in Times \/ IsCurrent(r)'
      BY <1>5, <1>6, <2>1 DEF Unsent
    <2>3. QED
      BY <1>11, <2>2 DEF Unsent
  <1>13. QED
    BY <1>4, <1>7, <1>8, <1>9, <1>10, <1>11, <1>12, CountsStay

(* A failure: a new connection, or the next command on one that is muddled. *)
LEMMA FailedKeeps ==
    ASSUME IInv, Failed, Waiting \/ (wpc = "send" /\ socket = UNCONNECTED),
           UNCHANGED <<stack, pushed, task, c2s, runs, move_time, socket, got>>
    PROVE  /\ WorkerType' /\ Working' /\ Afresh' /\ Planned' /\ Tidy'
           /\ SentOnce' /\ InOrder' /\ Counted' /\ Answered'
           /\ retried' \in BOOLEAN /\ muddled' \in BOOLEAN
  <1>1. socket \in {UNCONNECTED} \union Conns
    BY DEF Waiting, IInv, Working
  <1>2. CASE wpc \in {"waiting", "send"} /\ ~retried
    <2>1. wpc' = "connect" /\ UNCHANGED <<todo, retried, muddled>>
      BY <1>2 DEF Failed
    <2>2. WorkerType' /\ Planned' /\ Afresh' /\ Tidy'
      BY <2>1 DEF IInv, WorkerType, Ordered, Planned, Afresh, Tidy
    <2>3. Times' = Times
      BY DEF Times
    <2>4. Working'
      BY <1>2, <2>1, <2>3 DEF IInv, Working
    <2>5. \A r \in Requests : (Unsent(r)' => Unsent(r)) /\ (IsCurrent(r)' => IsCurrent(r))
      BY <2>1, <2>3 DEF Unsent, IsCurrent, Request
    <2>6. QED
      BY <1>2, <2>1, <2>2, <2>4, <2>5, CountsStay DEF IInv, Shape
  <1>3. CASE ~(wpc \in {"waiting", "send"} /\ ~retried)
    <2>1. NextCommand /\ muddled' = TRUE
      BY <1>3 DEF Failed
    <2>2. Tidy'
      BY <2>1 DEF Tidy, Unmixed
    <2>3. retried' \in BOOLEAN
      BY <2>1 DEF NextCommand
    <2>4. QED
      BY <1>1, <2>1, <2>2, <2>3, NextKeeps
  <1>4. QED
    BY <1>2, <1>3

(* An empty answer, none in time, or a broken pipe. *)
LEMMA NoAnswerKeeps ==
    ASSUME IInv, eof \/ give_up \/ send_unconnected
    PROVE  IInv'
  <1>1. /\ Failed /\ (Waiting \/ (wpc = "send" /\ socket = UNCONNECTED))
        /\ UNCHANGED <<network, thread, stack, pushed, task, move_time, socket, conns, got>>
    BY DEF eof, give_up, send_unconnected
  <1>2. UNCHANGED <<backlog, c2s, s2c, hungup, reset, torn, spc, conn_fd, open, terminate, odd, runs>>
    BY <1>1 DEF network, thread
  <1>3. /\ WorkerType' /\ Working' /\ Afresh' /\ Planned' /\ Tidy'
        /\ SentOnce' /\ InOrder' /\ Counted' /\ Answered'
        /\ retried' \in BOOLEAN /\ muddled' \in BOOLEAN
    BY <1>1, <1>2, FailedKeeps
  <1>4. Shape' /\ Unused' /\ ServerType'
    BY <1>1, <1>2, <1>3 DEF IInv, Shape, Unused, ServerType
  <1>5. Newest' /\ NoneOlder'
    BY <1>1, <1>2, OrderStays DEF IInv, Shape
  <1>6. QED
    BY <1>3, <1>4, <1>5 DEF IInv, Ordered

(* Something has been read: an answer, if there is one. *)
LEMMA AnsweredKeeps ==
    ASSUME IInv, answered
    PROVE  IInv'
  <1>1. /\ Waiting
        /\ UNCHANGED <<backlog, c2s, hungup, reset, torn, thread, stack, pushed, task, move_time, socket, conns>>
    BY DEF answered
  <1>2. UNCHANGED <<spc, conn_fd, open, terminate, odd, runs>>
    BY <1>1 DEF thread
  <1>3. socket \in Conns /\ socket =< conns
    BY <1>1 DEF Waiting, IInv, Working, Unused
  <1>4. PICK k \in 1 .. Len(s2c[socket]) :
          /\ s2c' = [s2c EXCEPT ![socket] = SubSeq(@, k + 1, Len(@))]
          /\ \/ /\ \A i \in 1 .. k : ~IsAnswer(i)
                /\ Failed
                /\ UNCHANGED got
             \/ /\ \E i \in 1 .. k :
                     /\ IsFirst(i)
                     /\ got' = (IF ~Unmixed THEN got
                                ELSE [answer |-> s2c[socket][i], again |-> retried, to |-> Asked])
                /\ \/ /\ wpc = "checking" /\ todo # <<>>
                      /\ wpc' = "send" /\ retried' = TRUE /\ UNCHANGED todo
                   \/ NextCommand
                /\ UNCHANGED muddled
    BY DEF answered
  <1>5. /\ s2c[socket] \in Seq(SUBSET AllRequests) /\ Len(s2c[socket]) \in Nat
        /\ DOMAIN s2c[socket] = 1 .. Len(s2c[socket]) /\ k \in 0 .. Len(s2c[socket])
    BY <1>3, LenProperties DEF IInv, Shape
  <1>6. /\ s2c' \in [Conns -> Seq(SUBSET AllRequests)]
        /\ \A c \in Conns : c # socket => s2c'[c] = s2c[c]
        /\ \A i \in DOMAIN s2c'[socket] : i + k \in DOMAIN s2c[socket] /\ i + k > k
                                          /\ s2c'[socket][i] = s2c[socket][i + k]
    <2>1. /\ s2c'[socket] = SubSeq(s2c[socket], k + 1, Len(s2c[socket]))
          /\ \A c \in Conns : c # socket => s2c'[c] = s2c[c]
      BY <1>3, <1>4 DEF IInv, Shape
    <2>2. /\ s2c'[socket] \in Seq(SUBSET AllRequests)
          /\ Len(s2c'[socket]) = Len(s2c[socket]) - k
          /\ \A i \in 1 .. Len(s2c[socket]) - k : s2c'[socket][i] = s2c[socket][i + k]
      BY <1>5, <2>1, SubSeqDrop
    <2>3. DOMAIN s2c'[socket] = 1 .. Len(s2c[socket]) - k
      BY <2>2, LenProperties
    <2>4. s2c' \in [Conns -> Seq(SUBSET AllRequests)]
      BY <1>4, <2>1, <2>2 DEF IInv, Shape
    <2>5. ASSUME NEW i \in DOMAIN s2c'[socket]
          PROVE  i + k \in DOMAIN s2c[socket] /\ i + k > k /\ s2c'[socket][i] = s2c[socket][i + k]
      BY <1>5, <2>2, <2>3
    <2>6. QED
      BY <2>1, <2>4, <2>5
  <1>7. ASSUME retried' \in BOOLEAN, muddled' \in BOOLEAN
        PROVE  Shape' /\ Unused' /\ ServerType' /\ Newest' /\ NoneOlder'
    <2>1. Shape'
      BY <1>1, <1>2, <1>6, <1>7 DEF IInv, Shape
    <2>2. ServerType'
      BY <1>1, <1>2 DEF IInv, ServerType
    <2>3. ASSUME NEW c \in Conns, c > conns PROVE c # socket /\ s2c'[c] = <<>>
      <3>1. c # socket
        BY <1>3, <2>3, ConnFacts DEF IInv, Shape
      <3>2. QED
        BY <1>6, <2>3, <3>1 DEF IInv, Unused
    <2>4. Unused'
      BY <1>1, <1>2, <2>3 DEF IInv, Unused
    <2>5. QED
      BY <1>1, <1>2, <2>1, <2>2, <2>4, OrderStays DEF IInv, Shape
  <1>8. CASE (\A i \in 1 .. k : ~IsAnswer(i)) /\ Failed /\ UNCHANGED got
    <2>1. /\ WorkerType' /\ Working' /\ Afresh' /\ Planned' /\ Tidy'
          /\ SentOnce' /\ InOrder' /\ Counted' /\ Answered'
          /\ retried' \in BOOLEAN /\ muddled' \in BOOLEAN
      BY <1>1, <1>2, <1>8, FailedKeeps
    <2>2. QED
      BY <1>7, <2>1 DEF IInv, Ordered
  <1>9. ASSUME NEW i \in 1 .. k, IsFirst(i),
               got' = (IF ~Unmixed THEN got
                       ELSE [answer |-> s2c[socket][i], again |-> retried, to |-> Asked]),
               \/ /\ wpc = "checking" /\ todo # <<>>
                  /\ wpc' = "send" /\ retried' = TRUE /\ UNCHANGED todo
               \/ NextCommand,
               UNCHANGED muddled
        PROVE  IInv'
    <2>1. i \in DOMAIN s2c[socket] /\ IsAnswer(i)
      BY <1>5, <1>9 DEF IsFirst
    <2>2. Unmixed => /\ Answering /\ s2c[socket][i] = {Asked}
                     /\ Asked \in Requests => runs[Asked] > 0
      <3> SUFFICES ASSUME Unmixed
                   PROVE  /\ Answering /\ s2c[socket][i] = {Asked}
                          /\ Asked \in Requests => runs[Asked] > 0
        OBVIOUS
      <3>1. Asking \/ Answering
        BY <1>1, <1>3 DEF IInv, Tidy, Waiting
      <3>2. Answering
        BY <2>1, <3>1 DEF Asking
      <3>3. QED
        BY <2>1, <3>2 DEF Answering
    <2>3. Unmixed => Quiet'
      <3> SUFFICES ASSUME Unmixed PROVE Quiet'
        OBVIOUS
      <3>1. \A j \in DOMAIN s2c'[socket] : ~IsAnswer(j + k)
        BY <1>5, <1>6, <2>1, <2>2 DEF Answering
      <3>2. QED
        BY <1>1, <1>6, <2>2, <3>1 DEF Quiet, Answering, IsAnswer
    <2>4. CASE wpc = "checking" /\ todo # <<>> /\ wpc' = "send" /\ retried' = TRUE /\ UNCHANGED todo
      <3>1. wpc' = "send" /\ retried' = TRUE /\ todo' = todo
        BY <2>4
      <3>2. Times' = Times /\ ~retried
        BY <1>1, <2>4 DEF Times, IInv, Working
      <3>3. WorkerType' /\ Planned'
        BY <1>1, <3>1 DEF IInv, WorkerType, Ordered, Planned
      <3>4. Working'
        BY <1>1, <1>3, <2>4, <3>1, <3>2, ConnFacts DEF IInv, Working
      <3>5. \A r \in Requests : (Unsent(r)' => Unsent(r)) /\ (IsCurrent(r)' => IsCurrent(r))
        BY <1>1, <3>1, <3>2 DEF Unsent, IsCurrent, Request
      <3>6. /\ SentOnce' /\ InOrder' /\ Counted' /\ (got' = got => Answered')
            /\ \A r : Where(r)' = Where(r)
        BY <1>1, <1>2, <2>4, <3>5, CountsStay
      <3>7. Afresh'
        BY <1>1, <2>4, <3>1, <3>6 DEF IInv, Afresh, Request
      <3>8. Answered'
        <4>1. CASE ~Unmixed
          BY <1>9, <3>6, <4>1
        <4>2. CASE Unmixed
          <5>1. Asked \notin Requests
            BY <2>4, RequestFacts DEF Asked, Check, Request
          <5>2. got'.answer = {Asked} /\ got'.to = Asked
            BY <1>9, <2>2, <4>2
          <5>3. QED
            BY <5>1, <5>2 DEF Answered
        <4>3. QED
          BY <4>1, <4>2
      <3>9. Tidy'
        BY <1>1, <1>9, <2>3, <3>1 DEF Tidy, Unmixed, Waiting
      <3>10. retried' \in BOOLEAN /\ muddled' \in BOOLEAN
        BY <1>9, <3>1 DEF IInv, Shape
      <3>11. QED
        BY <1>7, <3>3, <3>4, <3>6, <3>7, <3>8, <3>9, <3>10 DEF IInv, Ordered
    <2>5. CASE NextCommand
      <3>1. NextCommand
        BY <2>5
      <3>2. /\ WorkerType' /\ Working' /\ Afresh' /\ Planned' /\ wpc' \in {"send", "idle"}
            /\ SentOnce' /\ InOrder' /\ Counted'
            /\ got' = got => Answered'
            /\ \A r \in Requests : (Unsent(r)' => Unsent(r)) /\ (IsCurrent(r)' => Unsent(r))
        BY <1>1, <1>2, <1>3, <3>1, NextKeeps
      <3>3. Tidy'
        BY <1>1, <1>9, <2>3, <3>2 DEF Tidy, Unmixed, Waiting
      <3>4. Answered'
        <4>1. CASE ~Unmixed
          BY <1>9, <3>2, <4>1
        <4>2. CASE Unmixed /\ wpc = "checking"
          <5>1. Asked \notin Requests
            BY <4>2, RequestFacts DEF Asked, Check, Request
          <5>2. got'.answer = {Asked} /\ got'.to = Asked
            BY <1>9, <2>2, <4>2
          <5>3. QED
            BY <5>1, <5>2 DEF Answered
        <4>3. CASE Unmixed /\ wpc = "waiting"
          <5>1. todo # <<>> /\ task.time \in 1 .. pushed /\ task.time \notin Times
            BY <4>3 DEF IInv, Working
          <5>2. PICK r \in Requests : r = Asked /\ r = Request(Head(todo)) /\ IsCurrent(r)
                                      /\ r.task = task.time /\ r.cmd = todo[1]
            BY <4>3, <5>1, CurrentRequest DEF Asked, IsCurrent, IInv
          <5>3. got'.answer = {r} /\ got'.to = r /\ got'.again = retried /\ runs[r] > 0
            BY <1>9, <2>2, <4>3, <5>2
          <5>4. ~retried => Copies(r) =< 1
            BY <5>2 DEF IInv, Counted
          <5>5. ~Unsent(r)
            <6>1. pushed \in Nat /\ ~(r.task > pushed) /\ r.task \notin Times
              BY <5>1, <5>2 DEF IInv, Shape
            <6>2. ~(wpc = "send")
              BY <4>3
            <6>3. \A n \in 2 .. Len(todo) : todo[n] # r.cmd
              <7>1. Len(todo) \in 0 .. 2 /\ (Len(todo) > 1 => todo[2] # todo[1])
                BY TodoFacts DEF IInv, WorkerType
              <7>2. QED
                BY <5>2, <7>1
            <6>4. QED
              BY <6>1, <6>2, <6>3 DEF Unsent
          <5>6. ~Unsent(r)' /\ ~IsCurrent(r)'
            BY <3>2, <5>5
          <5>7. Copies(r)' = Copies(r)
            BY <1>1, <1>2 DEF Copies, Where
          <5>8. QED
            BY <1>2, <5>3, <5>4, <5>6, <5>7 DEF Answered
        <4>4. QED
          BY <1>1, <4>1, <4>2, <4>3 DEF Waiting
      <3>5. retried' \in BOOLEAN /\ muddled' \in BOOLEAN
        BY <1>9, <3>1 DEF IInv, Shape, NextCommand
      <3>6. QED
        BY <1>7, <3>2, <3>3, <3>4, <3>5 DEF IInv, Ordered
    <2>6. QED
      BY <1>9, <2>4, <2>5
  <1>10. QED
    BY <1>4, <1>8, <1>9

(* A task is pushed, with a time none had before. *)
LEMMA PutKeeps ==
    ASSUME IInv, put
    PROVE  IInv'
  <1>1. /\ pushed < MaxTasks /\ pushed' = pushed + 1
        /\ UNCHANGED <<network, thread, worker, history>>
    BY DEF put
  <1>2. /\ UNCHANGED <<backlog, c2s, s2c, hungup, reset, torn, spc, conn_fd, open, terminate, odd, runs>>
        /\ UNCHANGED <<wpc, task, todo, retried, move_time, socket, conns, muddled, got>>
    BY <1>1 DEF network, thread, worker, history
  <1>3. PICK k \in Kinds : stack' = <<[kind |-> k, time |-> pushed + 1]>> \o stack
    BY DEF put
  <1>4. pushed \in Nat /\ pushed + 1 \in 0 .. MaxTasks /\ MaxTasks \in Nat
    BY <1>1, ConnFacts DEF IInv, Shape
  <1>5. PICK x \in Tasks : x = [kind |-> k, time |-> pushed + 1] /\ x.time = pushed + 1
    <2>1. [kind |-> k, time |-> pushed + 1] \in Tasks
      BY <1>4 DEF Tasks
    <2>2. QED
      BY <2>1
  <1>6. stack \in Seq(Tasks) /\ stack' = <<x>> \o stack
    BY <1>3, <1>5 DEF IInv, Shape
  <1>7. /\ stack' \in Seq(Tasks) /\ stack'[1] = x /\ Len(stack) \in Nat
        /\ DOMAIN stack = 1 .. Len(stack) /\ DOMAIN stack' = 1 .. Len(stack) + 1
        /\ \A i \in 2 .. Len(stack) + 1 : i - 1 \in 1 .. Len(stack) /\ stack'[i] = stack[i - 1]
    BY <1>6, PushFacts
  <1>8. /\ \A i \in DOMAIN stack : /\ stack[i].time =< pushed /\ stack[i].time \in Nat
                                   /\ stack[i].time = 0 => stack[i].kind = "connect"
        /\ \A i, j \in DOMAIN stack : i # j => stack[i].time # stack[j].time
    <2>1. \A i \in DOMAIN stack : stack[i] \in Tasks
      BY <1>6, <1>7, ElementOfSeq
    <2>2. QED
      BY <2>1 DEF IInv, Working, Tasks
  <1>9. \A i \in DOMAIN stack' : i = 1 \/ (i - 1 \in DOMAIN stack /\ stack'[i] = stack[i - 1])
    BY <1>7
  <1>10. Times' \subseteq Times \union {pushed + 1}
    BY <1>5, <1>7, <1>9 DEF Times
  <1>11. Shape'
    BY <1>1, <1>2, <1>4, <1>7 DEF IInv, Shape
  <1>12. ServerType' /\ WorkerType' /\ Unused'
    BY <1>2 DEF IInv, ServerType, WorkerType, Unused
  <1>13. Working'
    <2>1. \A i \in DOMAIN stack' : /\ stack'[i].time =< pushed'
                                   /\ stack'[i].time = 0 => stack'[i].kind = "connect"
      <3> SUFFICES ASSUME NEW i \in DOMAIN stack'
                   PROVE  /\ stack'[i].time =< pushed'
                          /\ stack'[i].time = 0 => stack'[i].kind = "connect"
        OBVIOUS
      <3>1. CASE i = 1
        BY <1>1, <1>4, <1>5, <1>7, <3>1
      <3>2. CASE i # 1
        BY <1>1, <1>4, <1>8, <1>9, <3>2
      <3>3. QED
        BY <3>1, <3>2
    <2>2. ASSUME NEW i \in DOMAIN stack', NEW j \in DOMAIN stack', i # j
          PROVE  stack'[i].time # stack'[j].time
      <3>1. CASE i = 1
        <4>1. stack'[i].time = pushed + 1
          BY <1>5, <1>7, <3>1
        <4>2. stack'[j].time =< pushed /\ stack'[j].time \in Nat
          BY <1>8, <1>9, <2>2, <3>1
        <4>3. QED
          BY <1>4, <4>1, <4>2
      <3>2. CASE j = 1
        <4>1. stack'[j].time = pushed + 1
          BY <1>5, <1>7, <3>2
        <4>2. stack'[i].time =< pushed /\ stack'[i].time \in Nat
          BY <1>8, <1>9, <2>2, <3>2
        <4>3. QED
          BY <1>4, <4>1, <4>2
      <3>3. CASE i # 1 /\ j # 1
        <4>1. /\ i - 1 \in DOMAIN stack /\ stack'[i] = stack[i - 1]
              /\ j - 1 \in DOMAIN stack /\ stack'[j] = stack[j - 1]
          BY <1>9, <3>3
        <4>2. i - 1 # j - 1
          BY <1>7, <2>2
        <4>3. QED
          BY <1>8, <4>1, <4>2
      <3>4. QED
        BY <3>1, <3>2, <3>3
    <2>3. todo # <<>> => task.time \in 1 .. pushed' /\ task.time \notin Times'
      BY <1>1, <1>4, <1>10 DEF IInv, Working
    <2>4. QED
      BY <1>2, <2>1, <2>2, <2>3 DEF IInv, Working
  <1>14. \A r \in Requests : (Unsent(r)' => Unsent(r)) /\ (IsCurrent(r)' => IsCurrent(r))
    <2> SUFFICES ASSUME NEW r \in Requests
                 PROVE  (Unsent(r)' => Unsent(r)) /\ (IsCurrent(r)' => IsCurrent(r))
      OBVIOUS
    <2>1. IsCurrent(r)' = IsCurrent(r)
      BY <1>2 DEF IsCurrent, Request
    <2>2. r.task \in Nat
      BY RequestFacts
    <2>3. r.task > pushed' \/ r.task \in Times' => r.task > pushed \/ r.task \in Times
      BY <1>1, <1>4, <1>10, <2>2
    <2>4. QED
      BY <1>2, <2>1, <2>3 DEF Unsent
  <1>15. SentOnce' /\ InOrder' /\ Counted' /\ Answered' /\ \A r : Where(r)' = Where(r)
    BY <1>2, <1>14, CountsStay
  <1>16. Afresh'
    BY <1>2, <1>15 DEF IInv, Afresh, Request
  <1>17. Planned'
    BY <1>2 DEF IInv, Ordered, Planned
  <1>18. Newest' /\ NoneOlder'
    BY <1>2, OrderStays DEF IInv, Shape
  <1>19. Tidy'
    BY <1>2 DEF IInv, Tidy, Unmixed, Waiting, Quiet, Asking, Answering, Asked, IsAnswer, Check, Request
  <1>20. QED
    BY <1>11, <1>12, <1>13, <1>15, <1>16, <1>17, <1>18, <1>19 DEF IInv, Ordered

(* A task is popped, and none of its commands has been sent before. *)
LEMMA GetKeeps ==
    ASSUME IInv, get
    PROVE  IInv'
  <1>1. /\ wpc = "idle" /\ stack # <<>> /\ stack' = Tail(stack)
        /\ UNCHANGED <<network, thread, pushed, retried, socket, conns, history>>
    BY DEF get
  <1>2. /\ UNCHANGED <<backlog, c2s, s2c, hungup, reset, torn, spc, conn_fd, open, terminate, odd, runs>>
        /\ UNCHANGED <<muddled, got>>
    BY <1>1 DEF network, thread, history
  <1>3. todo = <<>> /\ retried = FALSE
    BY <1>1 DEF IInv, Working, Shape
  <1>4. /\ stack \in Seq(Tasks) /\ Head(stack) \in Tasks /\ stack' \in Seq(Tasks)
        /\ Head(stack) = stack[1] /\ 1 \in DOMAIN stack
        /\ \A i \in DOMAIN stack' : i \in Nat /\ i + 1 # 1 /\ i + 1 \in DOMAIN stack /\ stack'[i] = stack[i + 1]
    <2>1. stack \in Seq(Tasks)
      BY DEF IInv, Shape
    <2>2. /\ Head(stack) \in Tasks /\ Tail(stack) \in Seq(Tasks) /\ Head(stack) = stack[1]
          /\ Len(Tail(stack)) = Len(stack) - 1 /\ Len(stack) \in Nat /\ Len(stack) # 0
          /\ \A i \in 1 .. Len(Tail(stack)) : Tail(stack)[i] = stack[i + 1]
      BY <1>1, <2>1, HeadTailProperties, LenProperties, EmptySeq
    <2>3. DOMAIN stack = 1 .. Len(stack) /\ DOMAIN stack' = 1 .. Len(stack) - 1
      BY <1>1, <2>1, <2>2, LenProperties
    <2>4. QED
      BY <1>1, <2>1, <2>2, <2>3
  <1>5. PICK t \in Tasks : t = Head(stack)
    BY <1>4
  <1>6. /\ task' = t
        /\ move_time' = (IF t.kind = "move" /\ ~TooOld(t) THEN t.time ELSE move_time)
        /\ todo' = (IF TooOld(t) \/ socket = NONE THEN <<>> ELSE Commands(t.kind))
        /\ wpc' = (CASE t.kind = "connect" -> "connect"
                     [] t.kind = "kill" -> "dead"
                     [] todo' = <<>> -> "idle"
                     [] OTHER -> "send")
    BY <1>5 DEF get
  <1>7. /\ t.time \in 0 .. MaxTasks /\ t.kind \in Kinds /\ t.time =< pushed
        /\ t.time = 0 => t.kind = "connect"
        /\ pushed \in Nat /\ MaxTasks \in Nat /\ move_time \in 0 .. MaxTasks
    BY <1>4, <1>5, ConnFacts DEF IInv, Working, Shape, Tasks
  <1>8. t.time \in Times /\ t.time \notin Times' /\ Times' \subseteq Times
    <2>1. t.time \in Times /\ Times' \subseteq Times
      BY <1>4, <1>5 DEF Times
    <2>2. ASSUME NEW i \in DOMAIN stack' PROVE stack'[i].time # t.time
      <3>1. i + 1 \in DOMAIN stack /\ i + 1 # 1 /\ stack'[i] = stack[i + 1]
        BY <1>4
      <3>2. QED
        BY <1>4, <1>5, <3>1, Zenon DEF IInv, Working
    <2>3. QED
      BY <2>1, <2>2 DEF Times
  <1>9. \/ todo' = <<>>
        \/ t.kind = "move" /\ ~TooOld(t) /\ todo' = <<"set_vel", "set_rot">> /\ socket # NONE
        \/ t.kind = "mission" /\ todo' = <<"app_miss">> /\ socket # NONE
    BY <1>6, <1>7 DEF Kinds, Commands
  <1>10. todo' \in Todos
    BY <1>9 DEF Todos
  <1>11. /\ wpc' \in {"connect", "dead", "idle", "send"}
         /\ wpc' = "send" => todo' # <<>>
         /\ todo' # <<>> => wpc' = "send" /\ t.time # 0 /\ socket # NONE
    BY <1>6, <1>7, <1>9
  <1>12. /\ move_time =< move_time' /\ move_time' \in 0 .. MaxTasks
    BY <1>6, <1>7 DEF TooOld
  <1>13. Shape'
    BY <1>1, <1>2, <1>4, <1>12 DEF IInv, Shape
  <1>14. ServerType' /\ Unused'
    BY <1>1, <1>2 DEF IInv, ServerType, Unused
  <1>15. WorkerType'
    BY <1>1, <1>6, <1>10, <1>11 DEF IInv, WorkerType
  <1>16. Working'
    <2>1. \A i \in DOMAIN stack' : /\ stack'[i].time =< pushed'
                                   /\ stack'[i].time = 0 => stack'[i].kind = "connect"
      BY <1>1, <1>4 DEF IInv, Working
    <2>2. ASSUME NEW i \in DOMAIN stack', NEW j \in DOMAIN stack', i # j
          PROVE  stack'[i].time # stack'[j].time
      <3>1. /\ i + 1 \in DOMAIN stack /\ stack'[i] = stack[i + 1]
            /\ j + 1 \in DOMAIN stack /\ stack'[j] = stack[j + 1]
        BY <1>4
      <3>2. i + 1 # j + 1
        BY <1>4, <2>2
      <3>3. QED
        BY <3>1, <3>2, Zenon DEF IInv, Working
    <2>3. todo' # <<>> => task'.time \in 1 .. pushed' /\ task'.time \notin Times'
      BY <1>1, <1>6, <1>7, <1>8, <1>11
    <2>4. QED
      BY <1>1, <1>3, <1>11, <2>1, <2>2, <2>3 DEF Working
  <1>17. \A r \in Requests : (Unsent(r)' => Unsent(r)) /\ (IsCurrent(r)' => Unsent(r))
    <2> SUFFICES ASSUME NEW r \in Requests
                 PROVE  (Unsent(r)' => Unsent(r)) /\ (IsCurrent(r)' => Unsent(r))
      OBVIOUS
    <2>1. IsCurrent(r)' => r.task = t.time
      BY <1>6 DEF IsCurrent, Request
    <2>2. Unsent(r)' => r.task > pushed \/ r.task \in Times' \/ r.task = t.time
      BY <1>1, <1>6, <2>1 DEF Unsent
    <2>3. QED
      BY <1>8, <2>1, <2>2 DEF Unsent
  <1>18. SentOnce' /\ InOrder' /\ Counted' /\ Answered'
    BY <1>2, <1>17, CountsStay
  <1>19. Afresh'
    BY <1>1, <1>3, <1>11 DEF Afresh
  <1>20. Planned'
    <2> SUFFICES ASSUME NEW i \in DOMAIN todo', todo'[i] \in {"set_vel", "set_rot"}
                 PROVE  task'.time = move_time'
      BY DEF Planned, MoveCmds
    <2>1. t.kind = "move" /\ ~TooOld(t)
      BY <1>9
    <2>2. QED
      BY <1>6, <2>1
  <1>21. Newest' /\ NoneOlder'
    BY <1>2, <1>7, <1>12, OrderStays
  <1>22. Tidy'
    <2> SUFFICES ASSUME socket \in Conns, Unmixed PROVE ~Waiting' /\ Quiet'
      BY <1>1, <1>2 DEF Tidy, Unmixed
    <2>1. Quiet
      BY <1>1 DEF IInv, Tidy, Waiting
    <2>2. QED
      BY <1>1, <1>2, <1>11, <2>1 DEF Waiting, Quiet, IsAnswer
  <1>23. QED
    BY <1>13, <1>14, <1>15, <1>16, <1>18, <1>19, <1>20, <1>21, <1>22 DEF IInv, Ordered

(* clear_socket takes the oldest of what has arrived. *)
LEMMA ClearFacts ==
    ASSUME IInv, clear_socket, socket \in Conns
    PROVE  /\ s2c' \in [Conns -> Seq(SUBSET AllRequests)]
           /\ \A c \in Conns : c # socket => s2c'[c] = s2c[c]
           /\ Quiet => \A i \in DOMAIN s2c'[socket] : s2c'[socket][i] = HEARTBEAT
  <1>1. PICK k \in 0 .. Len(s2c[socket]) : s2c' = [s2c EXCEPT ![socket] = SubSeq(@, k + 1, Len(@))]
    BY DEF clear_socket
  <1>2. /\ s2c[socket] \in Seq(SUBSET AllRequests) /\ Len(s2c[socket]) \in Nat
        /\ DOMAIN s2c[socket] = 1 .. Len(s2c[socket])
    BY LenProperties DEF IInv, Shape
  <1>3. /\ s2c'[socket] = SubSeq(s2c[socket], k + 1, Len(s2c[socket]))
        /\ \A c \in Conns : c # socket => s2c'[c] = s2c[c]
    BY <1>1 DEF IInv, Shape
  <1>4. /\ s2c'[socket] \in Seq(SUBSET AllRequests)
        /\ \A i \in DOMAIN s2c'[socket] : i + k \in DOMAIN s2c[socket] /\ s2c'[socket][i] = s2c[socket][i + k]
    <2>1. /\ s2c'[socket] \in Seq(SUBSET AllRequests)
          /\ Len(s2c'[socket]) = Len(s2c[socket]) - k
          /\ \A i \in 1 .. Len(s2c[socket]) - k : s2c'[socket][i] = s2c[socket][i + k]
      BY <1>2, <1>3, SubSeqDrop
    <2>2. DOMAIN s2c'[socket] = 1 .. Len(s2c[socket]) - k
      BY <2>1, LenProperties
    <2>3. QED
      BY <1>2, <2>1, <2>2
  <1>5. s2c' \in [Conns -> Seq(SUBSET AllRequests)]
    BY <1>1, <1>3, <1>4 DEF IInv, Shape
  <1>6. Quiet => \A i \in DOMAIN s2c'[socket] : s2c'[socket][i] = HEARTBEAT
    BY <1>4 DEF Quiet, IsAnswer
  <1>7. QED
    BY <1>3, <1>5, <1>6

(* A request is sent: it comes last on its connection. *)
LEMMA TransmitFacts ==
    ASSUME IInv, NEW req \in AllRequests, NEW to, Transmit(req, to), socket \in Conns
    PROVE  /\ Shape' /\ ServerType' /\ Unused'
           /\ \A c \in Conns : c # socket => c2s'[c] = c2s[c]
           /\ Len(c2s[socket]) \in Nat /\ DOMAIN c2s[socket] = 1 .. Len(c2s[socket])
           /\ DOMAIN c2s'[socket] = 1 .. Len(c2s[socket]) + 1
           /\ \A i \in DOMAIN c2s[socket] : c2s'[socket][i] = c2s[socket][i]
           /\ c2s'[socket][Len(c2s[socket]) + 1] = req
           /\ Quiet => /\ c2s'[socket] = <<req>>
                       /\ \A i \in DOMAIN s2c'[socket] : s2c'[socket][i] = HEARTBEAT
  <1>1. UNCHANGED <<backlog, hungup, reset, torn, thread, stack, pushed, retried, move_time, socket, conns, history>>
    BY DEF Transmit
  <1>2. UNCHANGED <<spc, conn_fd, open, terminate, odd, runs, muddled, got>>
    BY <1>1 DEF thread, history
  <1>3. /\ s2c' \in [Conns -> Seq(SUBSET AllRequests)]
        /\ \A c \in Conns : c # socket => s2c'[c] = s2c[c]
        /\ Quiet => \A i \in DOMAIN s2c'[socket] : s2c'[socket][i] = HEARTBEAT
    BY ClearFacts DEF Transmit
  <1>4. /\ c2s[socket] \in Seq(AllRequests) /\ Len(c2s[socket]) \in Nat
        /\ DOMAIN c2s[socket] = 1 .. Len(c2s[socket])
    BY LenProperties DEF IInv, Shape
  <1>5. /\ c2s'[socket] = Append(c2s[socket], req)
        /\ \A c \in Conns : c # socket => c2s'[c] = c2s[c]
    BY DEF Transmit, IInv, Shape
  <1>6. /\ c2s'[socket] \in Seq(AllRequests) /\ DOMAIN c2s'[socket] = 1 .. Len(c2s[socket]) + 1
        /\ \A i \in DOMAIN c2s[socket] : c2s'[socket][i] = c2s[socket][i]
        /\ c2s'[socket][Len(c2s[socket]) + 1] = req
    BY <1>4, <1>5, AppendProperties, LenProperties
  <1>7. Shape'
    <2>1. c2s' \in [Conns -> Seq(AllRequests)]
      BY <1>5, <1>6 DEF Transmit, IInv, Shape
    <2>2. s2c' \in [Conns -> Seq(SUBSET AllRequests)]
      BY <1>3
    <2>3. QED
      BY <1>1, <1>2, <2>1, <2>2 DEF IInv, Shape
  <1>8. ServerType'
    BY <1>1, <1>2 DEF IInv, ServerType
  <1>9. Unused'
    <2>1. socket =< conns /\ socket \in Nat /\ conns \in Nat
      BY ConnFacts DEF IInv, Unused, Shape
    <2>2. ASSUME NEW c \in Conns, c > conns PROVE c2s'[c] = <<>> /\ s2c'[c] = <<>>
      <3>1. c # socket
        BY <2>1, <2>2, ConnFacts
      <3>2. QED
        BY <1>3, <1>5, <2>2, <3>1 DEF IInv, Unused
    <2>3. QED
      BY <1>1, <1>2, <2>2 DEF IInv, Unused
  <1>10. ASSUME Quiet
         PROVE  /\ c2s'[socket] = <<req>>
                /\ \A i \in DOMAIN s2c'[socket] : s2c'[socket][i] = HEARTBEAT
    <2>1. c2s[socket] = <<>>
      BY <1>10 DEF Quiet
    <2>2. c2s'[socket] = <<req>>
      BY <1>5, <2>1
    <2>3. \A i \in DOMAIN s2c'[socket] : s2c'[socket][i] = HEARTBEAT
      BY <1>3, <1>10
    <2>4. QED
      BY <2>2, <2>3
  <1>11. QED
    BY <1>4, <1>5, <1>6, <1>7, <1>8, <1>9, <1>10

(* One that is not on that connection yet, and no older move, keeps the    *)
(* order.                                                                  *)
LEMMA TransmitOrder ==
    ASSUME IInv, NEW req \in AllRequests, NEW to, Transmit(req, to), socket \in Conns,
           req \in Requests => socket \notin Where(req),
           req.cmd \in MoveCmds => req.task = move_time
    PROVE  /\ SentOnce' /\ Newest' /\ InOrder' /\ NoneOlder'
           /\ \A r : r # req => Where(r)' = Where(r)
           /\ Where(req)' \subseteq Where(req) \union {socket}
  <1>1. UNCHANGED <<backlog, conn_fd, runs, move_time, socket>>
    BY DEF Transmit, thread
  <1>2. PICK n : n = Len(c2s[socket]) + 1
    OBVIOUS
  <1>3. /\ \A c \in Conns : c # socket => c2s'[c] = c2s[c]
        /\ DOMAIN c2s[socket] = 1 .. n - 1 /\ DOMAIN c2s'[socket] = 1 .. n /\ n \in Nat /\ n # 0
        /\ \A i \in DOMAIN c2s[socket] : c2s'[socket][i] = c2s[socket][i]
        /\ c2s'[socket][n] = req
    BY <1>2, TransmitFacts
  <1>4. \A i \in DOMAIN c2s'[socket] : i = n \/ i \in DOMAIN c2s[socket]
    BY <1>3
  <1>5. \A r : r # req => Where(r)' = Where(r)
    <2> SUFFICES ASSUME NEW r, r # req, NEW c \in Conns PROVE c \in Where(r)' <=> c \in Where(r)
      BY DEF Where
    <2>1. CASE c # socket
      BY <1>3, <2>1 DEF Where
    <2>2. CASE c = socket
      <3>1. c \in Where(r)' => c \in Where(r)
        BY <1>3, <1>4, <2>2 DEF Where
      <3>2. \A i \in DOMAIN c2s[socket] : i \in DOMAIN c2s'[socket]
        BY <1>3
      <3>3. c \in Where(r) => c \in Where(r)'
        BY <1>3, <2>2, <3>2 DEF Where
      <3>4. QED
        BY <3>1, <3>3
    <2>3. QED
      BY <2>1, <2>2
  <1>6. Where(req)' \subseteq Where(req) \union {socket}
    BY <1>3 DEF Where
  <1>7. req.cmd \in MoveCmds => req \in Requests /\ req.task = move_time
    BY DEF AllRequests, MoveCmds
  <1>8. SentOnce'
    <2> SUFFICES ASSUME NEW c \in Conns, NEW i \in DOMAIN c2s'[c], NEW j \in DOMAIN c2s'[c],
                        i # j, c2s'[c][i] \in Requests
                 PROVE  c2s'[c][i] # c2s'[c][j]
      BY DEF SentOnce
    <2>1. CASE c # socket
      BY <1>3, <2>1 DEF IInv, SentOnce
    <2>2. CASE c = socket /\ i \in DOMAIN c2s[socket] /\ j \in DOMAIN c2s[socket]
      BY <1>3, <2>2 DEF IInv, SentOnce
    <2>3. CASE c = socket /\ i = n /\ j \in DOMAIN c2s[socket]
      BY <1>3, <2>3 DEF Where
    <2>4. CASE c = socket /\ j = n /\ i \in DOMAIN c2s[socket]
      BY <1>3, <2>4 DEF Where
    <2>5. QED
      BY <1>4, <2>1, <2>2, <2>3, <2>4
  <1>9. Newest'
    <2> SUFFICES ASSUME NEW s \in Requests, s.cmd \in MoveCmds, runs[s] > 0 \/ Where(s)' # {}
                 PROVE  s.task =< move_time
      BY <1>1 DEF Newest, MoveCmds
    <2>1. CASE s = req
      BY <1>7, <2>1 DEF IInv, Shape
    <2>2. CASE s # req
      BY <1>5, <2>2 DEF IInv, Ordered, Newest
    <2>3. QED
      BY <2>1, <2>2
  <1>10. InOrder'
    <2> SUFFICES ASSUME NEW c \in Conns, NEW i \in DOMAIN c2s'[c], NEW j \in DOMAIN c2s'[c], i < j,
                        c2s'[c][i].cmd \in MoveCmds, c2s'[c][i].cmd = c2s'[c][j].cmd
                 PROVE  c2s'[c][i].task =< c2s'[c][j].task
      BY DEF InOrder, MoveCmds
    <2>1. CASE c # socket
      BY <1>3, <2>1 DEF IInv, Ordered, InOrder
    <2>2. CASE c = socket /\ i \in DOMAIN c2s[socket] /\ j \in DOMAIN c2s[socket]
      BY <1>3, <2>2 DEF IInv, Ordered, InOrder
    <2>3. CASE c = socket /\ i \in DOMAIN c2s[socket] /\ j = n
      <3>1. c2s'[c][i] = c2s[socket][i] /\ c2s'[c][j] = req
        BY <1>3, <2>3
      <3>2. PICK s \in AllRequests : s = c2s[socket][i]
        BY <2>3, ElementOfSeq, LenProperties DEF IInv, Shape
      <3>3. s \in Requests /\ s.cmd \in MoveCmds
        BY <3>1, <3>2 DEF AllRequests, MoveCmds
      <3>4. Where(s) # {}
        BY <2>3, <3>2 DEF Where
      <3>5. s.task =< move_time
        BY <3>3, <3>4 DEF IInv, Ordered, Newest
      <3>6. QED
        BY <1>7, <3>1, <3>2, <3>3, <3>5
    <2>4. CASE c = socket /\ i = n
      BY <1>3, <2>4
    <2>5. QED
      BY <1>4, <2>1, <2>2, <2>3, <2>4
  <1>11. NoneOlder'
    <2> SUFFICES ASSUME NEW c \in Conns \intersect Live', NEW i \in DOMAIN c2s'[c], NEW s \in Requests,
                        s.cmd \in MoveCmds, runs'[s] > 0, c2s'[c][i].cmd = s.cmd
                 PROVE  s.task =< c2s'[c][i].task
      BY DEF NoneOlder, MoveCmds
    <2>1. c \in Live /\ runs[s] > 0
      BY <1>1 DEF Live
    <2>2. CASE c # socket \/ i \in DOMAIN c2s[socket]
      BY <1>3, <2>1, <2>2 DEF IInv, Ordered, NoneOlder
    <2>3. CASE c = socket /\ i = n
      <3>1. s.task =< move_time
        BY <2>1 DEF IInv, Ordered, Newest
      <3>2. QED
        BY <1>3, <1>7, <2>3, <3>1
    <2>4. QED
      BY <1>4, <2>2, <2>3
  <1>12. QED
    BY <1>5, <1>6, <1>8, <1>9, <1>10, <1>11

(* The current command is sent, for the first or the second time. *)
LEMMA SendKeeps ==
    ASSUME IInv, send_cmd
    PROVE  IInv'
  <1>1. wpc = "send" /\ todo # <<>> /\ socket \in Conns
    BY DEF send_cmd, IInv, Working, WorkerType
  <1>2. PICK req \in Requests : /\ req = Request(Head(todo)) /\ req \in AllRequests /\ IsCurrent(req)
                                /\ req.task = task.time /\ req.cmd = todo[1] /\ 1 \in DOMAIN todo
    BY <1>1, CurrentRequest DEF IInv, IsCurrent
  <1>3. Transmit(req, "waiting")
    BY <1>2 DEF send_cmd
  <1>4. /\ wpc' = "waiting"
        /\ UNCHANGED <<torn, runs, stack, pushed, task, todo, retried, move_time, socket, muddled, got>>
    BY <1>3 DEF Transmit, thread, history
  <1>5. /\ Shape' /\ ServerType' /\ Unused'
        /\ Quiet => /\ c2s'[socket] = <<req>>
                    /\ \A i \in DOMAIN s2c'[socket] : s2c'[socket][i] = HEARTBEAT
    BY <1>1, <1>2, <1>3, TransmitFacts
  <1>6. \A r \in Requests : Copies(r) \in Nat /\ runs[r] \in Nat /\ Cardinality(Where(r)) \in Nat
    BY Countable DEF Copies, Where, IInv, ServerType
  <1>7. Copies(req) =< 1 /\ (~retried => Copies(req) = 0)
    <2>1. Copies(req) =< 1
      BY <1>1, <1>2 DEF IInv, Counted
    <2>2. ~retried => Unsent(req)
      BY <1>1, <1>2 DEF Unsent
    <2>3. QED
      BY <2>1, <2>2 DEF IInv, Counted
  <1>8. socket \notin Where(req)
    <2>1. CASE retried
      BY <1>1, <1>2, <2>1 DEF IInv, Afresh
    <2>2. CASE ~retried
      <3>1. Cardinality(Where(req)) = 0
        BY <1>6, <1>7, <2>2 DEF Copies
      <3>2. IsFiniteSet(Where(req))
        BY Countable DEF Where
      <3>3. Where(req) = {}
        BY <3>1, <3>2, FS_EmptySet
      <3>4. QED
        BY <3>3
    <2>3. QED
      BY <2>1, <2>2
  <1>9. req.cmd \in MoveCmds => req.task = move_time
    BY <1>2 DEF IInv, Ordered, Planned
  <1>10. /\ SentOnce' /\ Newest' /\ InOrder' /\ NoneOlder'
         /\ \A r : r # req => Where(r)' = Where(r)
         /\ Where(req)' \subseteq Where(req) \union {socket}
    BY <1>1, <1>2, <1>3, <1>8, <1>9, TransmitOrder
  <1>11. /\ \A r \in Requests : r # req => Copies(r)' = Copies(r)
         /\ Copies(req)' \in Nat /\ Copies(req)' =< Copies(req) + 1
    <2>1. \A r \in Requests : r # req => Copies(r)' = Copies(r)
      BY <1>4, <1>10 DEF Copies
    <2>2. Where(req) \subseteq Conns /\ Where(req)' \subseteq Conns
      BY DEF Where
    <2>3. Cardinality(Where(req)') =< Cardinality(Where(req)) + 1 /\ Cardinality(Where(req)') \in Nat
      BY <1>1, <1>10, <2>2, CountMore, Countable
    <2>4. QED
      BY <1>4, <1>6, <2>1, <2>3 DEF Copies
  <1>12. Times' = Times
    BY <1>4 DEF Times
  <1>13. \A r \in Requests : (IsCurrent(r)' <=> r = req) /\ (Unsent(r)' => Unsent(r) /\ r # req)
    <2> SUFFICES ASSUME NEW r \in Requests
                 PROVE  (IsCurrent(r)' <=> r = req) /\ (Unsent(r)' => Unsent(r) /\ r # req)
      OBVIOUS
    <2>1. IsCurrent(r)' <=> r = req
      BY <1>1, <1>2, <1>4 DEF IsCurrent, Request
    <2>2. Unsent(r)' => \/ r.task > pushed \/ r.task \in Times
                        \/ r.task = task.time /\ \E i \in 2 .. Len(todo) : todo[i] = r.cmd
      BY <1>4, <1>12 DEF Unsent
    <2>3. task.time \in 1 .. pushed /\ task.time \notin Times /\ pushed \in Nat
      BY <1>1 DEF IInv, Working, Shape
    <2>4. Len(todo) \in 0 .. 2 /\ (Len(todo) > 1 => todo[2] # todo[1])
      BY TodoFacts DEF IInv, WorkerType
    <2>5. \A i \in 2 .. Len(todo) : todo[i] # req.cmd
      BY <1>2, <2>4
    <2>6. Unsent(r)' => r # req
      BY <1>2, <2>2, <2>3, <2>5
    <2>7. QED
      BY <2>1, <2>2, <2>6 DEF Unsent
  <1>14. Counted'
    <2> SUFFICES ASSUME NEW r \in Requests
                 PROVE  /\ Copies(r)' =< 2
                        /\ IsCurrent(r)' /\ ~(wpc' = "waiting" /\ retried') => Copies(r)' =< 1
                        /\ Unsent(r)' => Copies(r)' = 0
      BY DEF Counted
    <2>1. CASE r = req
      <3>1. Copies(r)' =< 2 /\ (~retried => Copies(r)' =< 1)
        BY <1>6, <1>7, <1>11, <2>1
      <3>2. ~Unsent(r)'
        BY <1>13, <2>1
      <3>3. QED
        BY <1>4, <3>1, <3>2
    <2>2. CASE r # req
      BY <1>11, <1>13, <2>2 DEF IInv, Counted
    <2>3. QED
      BY <2>1, <2>2
  <1>15. Answered'
    <2> SUFFICES ASSUME got.to \in Requests
                 PROVE  /\ runs'[got.to] > 0 /\ ~Unsent(got.to)' /\ ~IsCurrent(got.to)'
                        /\ ~got.again => Copies(got.to)' =< 1
      BY <1>4 DEF IInv, Answered
    <2>1. PICK g \in Requests : g = got.to
      OBVIOUS
    <2>2. /\ runs[g] > 0 /\ ~Unsent(g) /\ ~IsCurrent(g)
          /\ ~got.again => Copies(g) =< 1
      BY <2>1 DEF IInv, Answered
    <2>3. g # req
      BY <1>2, <2>2
    <2>4. ~Unsent(g)' /\ ~IsCurrent(g)' /\ Copies(g)' = Copies(g)
      BY <1>11, <1>13, <2>2, <2>3
    <2>5. Unsent(g)' = Unsent(got.to)' /\ IsCurrent(g)' = IsCurrent(got.to)' /\ Copies(g)' = Copies(got.to)'
      BY <1>4, <2>1
    <2>6. QED
      BY <1>4, <2>1, <2>2, <2>4, <2>5
  <1>16. WorkerType' /\ Planned' /\ Afresh'
    BY <1>4 DEF IInv, WorkerType, Ordered, Planned, Afresh
  <1>17. Working'
    BY <1>1, <1>4, <1>12 DEF IInv, Working
  <1>18. Tidy'
    <2> SUFFICES ASSUME Unmixed PROVE Asking'
      BY <1>4 DEF Tidy, Unmixed, Waiting
    <2>1. Quiet
      BY <1>1 DEF IInv, Tidy, Waiting
    <2>2. Asked' = req
      BY <1>2, <1>4 DEF Asked, Request
    <2>3. QED
      BY <1>4, <1>5, <2>1, <2>2 DEF Asking, IsAnswer
  <1>19. QED
    BY <1>5, <1>10, <1>14, <1>15, <1>16, <1>17, <1>18 DEF IInv, Ordered

(* The new connection is checked. *)
LEMMA CheckKeeps ==
    ASSUME IInv, send_check
    PROVE  IInv'
  <1>1. wpc = "check" /\ socket \in Conns /\ ~retried
    BY DEF send_check, IInv, Working
  <1>2. PICK req \in AllRequests : req = Check /\ req \notin Requests /\ req.cmd = "check"
    <2>1. task.time \in 0 .. MaxTasks
      BY DEF IInv, WorkerType, Tasks
    <2>2. Check \in AllRequests /\ Check \notin Requests /\ Check.cmd = "check"
      BY <2>1, RequestFacts DEF Check, Request
    <2>3. QED
      BY <2>2
  <1>3. Transmit(req, "checking")
    BY <1>2 DEF send_check
  <1>4. /\ wpc' = "checking"
        /\ UNCHANGED <<torn, runs, stack, pushed, task, todo, retried, move_time, socket, muddled, got>>
    BY <1>3 DEF Transmit, thread, history
  <1>5. /\ Shape' /\ ServerType' /\ Unused'
        /\ Quiet => /\ c2s'[socket] = <<req>>
                    /\ \A i \in DOMAIN s2c'[socket] : s2c'[socket][i] = HEARTBEAT
    BY <1>1, <1>3, TransmitFacts
  <1>6. /\ SentOnce' /\ Newest' /\ InOrder' /\ NoneOlder'
        /\ \A r : r # req => Where(r)' = Where(r)
    BY <1>1, <1>2, <1>3, TransmitOrder DEF MoveCmds
  <1>7. \A r \in Requests : Where(r)' = Where(r) /\ Copies(r)' = Copies(r)
    BY <1>2, <1>4, <1>6 DEF Copies
  <1>8. Times' = Times
    BY <1>4 DEF Times
  <1>9. \A r \in Requests : (IsCurrent(r)' = IsCurrent(r)) /\ (Unsent(r)' => Unsent(r))
    BY <1>4, <1>8 DEF IsCurrent, Unsent, Request
  <1>10. Counted'
    BY <1>1, <1>4, <1>7, <1>9 DEF IInv, Counted
  <1>11. Answered'
    <2> SUFFICES ASSUME got.to \in Requests
                 PROVE  /\ runs'[got.to] > 0 /\ ~Unsent(got.to)' /\ ~IsCurrent(got.to)'
                        /\ ~got.again => Copies(got.to)' =< 1
      BY <1>4 DEF IInv, Answered
    <2>1. PICK g \in Requests : g = got.to
      OBVIOUS
    <2>2. /\ runs[g] > 0 /\ ~Unsent(g) /\ ~IsCurrent(g)
          /\ ~got.again => Copies(g) =< 1
      BY <2>1 DEF IInv, Answered
    <2>3. ~Unsent(g)' /\ ~IsCurrent(g)' /\ Copies(g)' = Copies(g)
      BY <1>7, <1>9, <2>2
    <2>4. Unsent(g)' = Unsent(got.to)' /\ IsCurrent(g)' = IsCurrent(got.to)' /\ Copies(g)' = Copies(got.to)'
      BY <1>4, <2>1
    <2>5. QED
      BY <1>4, <2>1, <2>2, <2>3, <2>4
  <1>12. WorkerType' /\ Planned'
    BY <1>4 DEF IInv, WorkerType, Ordered, Planned
  <1>13. Afresh'
    <2> SUFFICES ASSUME todo # <<>> PROVE socket \notin Where(Request(Head(todo)))'
      BY <1>4 DEF Afresh
    <2>1. PICK r \in Requests : r = Request(Head(todo))
      BY CurrentRequest DEF IInv
    <2>2. socket \notin Where(r)
      BY <1>1, <2>1 DEF IInv, Afresh
    <2>3. r = Request(Head(todo))'
      BY <1>4, <2>1 DEF Request
    <2>4. QED
      BY <1>7, <2>2, <2>3
  <1>14. Working'
    BY <1>1, <1>4, <1>8 DEF IInv, Working
  <1>15. Tidy'
    <2> SUFFICES ASSUME Unmixed PROVE Asking'
      BY <1>4 DEF Tidy, Unmixed, Waiting
    <2>1. Quiet
      BY <1>1 DEF IInv, Tidy, Waiting
    <2>2. Asked' = req
      BY <1>2, <1>4 DEF Asked, Check, Request
    <2>3. QED
      BY <1>4, <1>5, <2>1, <2>2 DEF Asking, IsAnswer
  <1>16. QED
    BY <1>5, <1>6, <1>10, <1>11, <1>12, <1>13, <1>14, <1>15 DEF IInv, Ordered

(* sendall fails: the command is given up, or the thread has ended. *)
LEMMA RaisesKeeps ==
    ASSUME IInv, send_raises
    PROVE  IInv'
  <1>1. /\ wpc \in {"send", "check"} /\ socket # UNCONNECTED /\ clear_socket
        /\ UNCHANGED <<backlog, c2s, hungup, reset, torn, thread, stack, pushed, task, move_time,
                       socket, conns, history>>
    BY DEF send_raises
  <1>2. UNCHANGED <<spc, conn_fd, open, terminate, odd, runs, muddled, got>>
    BY <1>1 DEF thread, history
  <1>3. socket \in Conns
    BY <1>1 DEF IInv, Working, WorkerType
  <1>4. /\ s2c' \in [Conns -> Seq(SUBSET AllRequests)]
        /\ \A c \in Conns : c # socket => s2c'[c] = s2c[c]
        /\ Quiet => \A i \in DOMAIN s2c'[socket] : s2c'[socket][i] = HEARTBEAT
    BY <1>1, <1>3, ClearFacts
  <1>5. /\ WorkerType' /\ Working' /\ Afresh' /\ Planned' /\ SentOnce' /\ InOrder' /\ Counted' /\ Answered'
        /\ wpc' \in {"send", "idle", "crashed"} /\ retried' = FALSE
    <2>1. CASE wpc = "check"
      <3>1. NextCommand
        BY <2>1 DEF send_raises
      <3>2. QED
        BY <1>1, <1>2, <1>3, <3>1, NextKeeps DEF NextCommand
    <2>2. CASE wpc = "send"
      <3>1. wpc' = "crashed" /\ todo' = <<>> /\ retried' = FALSE
        BY <2>2 DEF send_raises
      <3>2. WorkerType' /\ Planned' /\ Afresh'
        BY <1>1, <3>1 DEF IInv, WorkerType, Todos, Planned, Afresh
      <3>3. Times' = Times
        BY <1>1 DEF Times
      <3>4. Working'
        BY <1>1, <3>1, <3>3 DEF IInv, Working
      <3>5. \A r \in Requests : (Unsent(r)' => Unsent(r)) /\ ~IsCurrent(r)'
        BY <1>1, <3>1, <3>3 DEF Unsent, IsCurrent
      <3>6. QED
        BY <1>1, <1>2, <3>1, <3>2, <3>4, <3>5, CountsStay
    <2>3. QED
      BY <1>1, <2>1, <2>2
  <1>6. Shape' /\ ServerType'
    BY <1>1, <1>2, <1>4, <1>5 DEF IInv, Shape, ServerType
  <1>7. Unused'
    <2>1. socket =< conns /\ socket \in Nat /\ conns \in Nat
      BY <1>3, ConnFacts DEF IInv, Unused, Shape
    <2>2. ASSUME NEW c \in Conns, c > conns PROVE s2c'[c] = <<>>
      <3>1. c # socket
        BY <2>1, <2>2, ConnFacts
      <3>2. QED
        BY <1>4, <2>2, <3>1 DEF IInv, Unused
    <2>3. QED
      BY <1>1, <1>2, <2>2 DEF IInv, Unused
  <1>8. Newest' /\ NoneOlder'
    BY <1>1, <1>2, OrderStays DEF IInv, Shape
  <1>9. Tidy'
    <2> SUFFICES ASSUME Unmixed PROVE Quiet'
      BY <1>1, <1>2, <1>5 DEF Tidy, Unmixed, Waiting
    <2>1. Quiet
      BY <1>1, <1>3 DEF IInv, Tidy, Waiting
    <2>2. QED
      BY <1>1, <1>4, <2>1 DEF Quiet, IsAnswer
  <1>10. QED
    BY <1>5, <1>6, <1>7, <1>8, <1>9 DEF IInv, Ordered

(* The old socket is closed. *)
LEMMA HangupFacts ==
    ASSUME IInv, Hangup, UNCHANGED <<torn, spc, conn_fd, open, terminate, runs>>
    PROVE  /\ ServerType' /\ s2c' \in [Conns -> Seq(SUBSET AllRequests)] /\ muddled' = FALSE
           /\ \A c \in Conns : s2c'[c] = <<>> \/ s2c'[c] = s2c[c]
  <1>1. reset' \subseteq hungup' /\ hungup' \subseteq Conns
    BY DEF Hangup, IInv, ServerType
  <1>2. ServerType'
    BY <1>1 DEF IInv, ServerType
  <1>3. s2c' \in [Conns -> Seq(SUBSET AllRequests)]
    BY EmptySeq DEF Hangup, IInv, Shape
  <1>4. QED
    BY <1>2, <1>3 DEF Hangup

(* A new connection is opened, on which nothing has been sent. *)
LEMMA ConnectKeeps ==
    ASSUME IInv, connect
    PROVE  IInv'
  <1>1. /\ wpc = "connect" /\ conns < MaxConns /\ Hangup /\ conns' = conns + 1 /\ socket' = conns + 1
        /\ backlog' = Append(backlog, conns + 1) /\ wpc' = "check"
        /\ UNCHANGED <<c2s, torn, thread, stack, pushed, task, todo, retried, move_time, got>>
    BY DEF connect
  <1>2. UNCHANGED <<spc, conn_fd, open, terminate, odd, runs>>
    BY <1>1 DEF thread
  <1>3. /\ ServerType' /\ s2c' \in [Conns -> Seq(SUBSET AllRequests)] /\ muddled' = FALSE
        /\ \A c \in Conns : s2c'[c] = <<>> \/ s2c'[c] = s2c[c]
    BY <1>1, <1>2, HangupFacts
  <1>4. /\ conns \in Nat /\ conns + 1 \in Conns /\ MaxConns \in Nat /\ conns' \in 0 .. MaxConns
        /\ conns + 1 # 0 /\ conns + 1 > conns
    BY <1>1, ConnFacts DEF IInv, Shape, Conns
  <1>5. c2s'[conns + 1] = <<>> /\ s2c'[conns + 1] = <<>>
    BY <1>1, <1>3, <1>4 DEF IInv, Unused
  <1>6. /\ backlog' \in Seq(Conns)
        /\ \A i \in DOMAIN backlog' : backlog'[i] = conns + 1
                                      \/ (i \in DOMAIN backlog /\ backlog'[i] = backlog[i])
    <2>1. backlog \in Seq(Conns)
      BY DEF IInv, Shape
    <2>2. /\ backlog' \in Seq(Conns) /\ Len(backlog') = Len(backlog) + 1 /\ Len(backlog) \in Nat
          /\ \A i \in 1 .. Len(backlog) : backlog'[i] = backlog[i]
          /\ backlog'[Len(backlog) + 1] = conns + 1
      BY <1>1, <1>4, <2>1, AppendProperties, LenProperties
    <2>3. DOMAIN backlog = 1 .. Len(backlog) /\ DOMAIN backlog' = 1 .. Len(backlog) + 1
      BY <2>1, <2>2, LenProperties
    <2>4. QED
      BY <2>2, <2>3
  <1>7. Shape'
    BY <1>1, <1>3, <1>4, <1>6 DEF IInv, Shape
  <1>8. Unused'
    <2>1. conn_fd =< conns /\ conn_fd \in Nat /\ \A i \in DOMAIN backlog : backlog[i] \in Nat /\ backlog[i] =< conns
      <3>1. \A i \in DOMAIN backlog : backlog[i] \in Conns
        BY ElementOfSeq, LenProperties DEF IInv, Shape
      <3>2. conn_fd =< conns /\ \A i \in DOMAIN backlog : backlog[i] =< conns
        BY DEF IInv, Unused
      <3>3. conn_fd \in {0} \union Conns
        BY DEF IInv, ServerType
      <3>4. conn_fd \in Nat
        BY <3>3, ConnFacts
      <3>5. \A i \in DOMAIN backlog : backlog[i] \in Nat
        BY <3>1, ConnFacts
      <3>6. QED
        BY <3>2, <3>4, <3>5
    <2>2. conn_fd' =< conns' /\ socket' =< conns'
      BY <1>1, <1>2, <1>4, <2>1
    <2>3. ASSUME NEW i \in DOMAIN backlog' PROVE backlog'[i] =< conns'
      BY <1>1, <1>4, <1>6, <2>1
    <2>4. ASSUME NEW c \in Conns, c > conns' PROVE c2s'[c] = <<>> /\ s2c'[c] = <<>>
      <3>1. c > conns
        BY <1>1, <1>4, <2>4, ConnFacts
      <3>2. QED
        BY <1>1, <1>3, <3>1 DEF IInv, Unused
    <2>5. QED
      BY <2>2, <2>3, <2>4 DEF Unused
  <1>9. WorkerType'
    BY <1>1, <1>4 DEF IInv, WorkerType
  <1>10. Times' = Times /\ ~retried
    BY <1>1 DEF Times, IInv, Working
  <1>11. Working'
    BY <1>1, <1>4, <1>10 DEF IInv, Working
  <1>12. \A r \in Requests : (Unsent(r)' => Unsent(r)) /\ (IsCurrent(r)' => IsCurrent(r))
    BY <1>1, <1>10 DEF Unsent, IsCurrent, Request
  <1>13. SentOnce' /\ InOrder' /\ Counted' /\ Answered' /\ \A r : Where(r)' = Where(r)
    BY <1>1, <1>2, <1>12, CountsStay
  <1>14. Afresh'
    <2>1. \A r : conns + 1 \notin Where(r)
      BY <1>1, <1>5 DEF Where
    <2>2. QED
      BY <1>1, <1>13, <2>1 DEF Afresh, Request
  <1>15. Planned' /\ Newest'
    BY <1>1, <1>2, <1>13 DEF IInv, Ordered, Planned, Newest
  <1>16. NoneOlder'
    <2>1. ASSUME NEW c \in Conns \intersect Live' PROVE c = conns + 1 \/ c \in Live
      BY <1>2, <1>6 DEF Live
    <2>2. QED
      BY <1>1, <1>2, <1>5, <2>1 DEF IInv, Ordered, NoneOlder
  <1>17. Tidy'
    BY <1>1, <1>5 DEF Tidy, Waiting, Quiet
  <1>18. QED
    BY <1>3, <1>7, <1>8, <1>9, <1>11, <1>13, <1>14, <1>15, <1>16, <1>17 DEF IInv, Ordered

(* No connection: the command is given up. *)
LEMMA ConnectFailedKeeps ==
    ASSUME IInv, connect_failed
    PROVE  IInv'
  <1>1. /\ Hangup /\ socket' = UNCONNECTED /\ NextCommand
        /\ UNCHANGED <<backlog, c2s, torn, thread, stack, pushed, task, move_time, conns, got>>
    BY DEF connect_failed
  <1>2. UNCHANGED <<spc, conn_fd, open, terminate, odd, runs>>
    BY <1>1 DEF thread
  <1>3. /\ ServerType' /\ s2c' \in [Conns -> Seq(SUBSET AllRequests)] /\ muddled' = FALSE
        /\ \A c \in Conns : s2c'[c] = <<>> \/ s2c'[c] = s2c[c]
    BY <1>1, <1>2, HangupFacts
  <1>4. /\ WorkerType' /\ Working' /\ Afresh' /\ Planned' /\ SentOnce' /\ InOrder' /\ Counted' /\ Answered'
    BY <1>1, <1>2, NextKeeps
  <1>5. Shape'
    BY <1>1, <1>3 DEF IInv, Shape, NextCommand
  <1>6. Unused'
    <2>1. socket' =< conns /\ conns \in Nat
      BY <1>1 DEF IInv, Shape, UNCONNECTED
    <2>2. QED
      BY <1>1, <1>2, <1>3, <2>1 DEF IInv, Unused
  <1>7. Newest' /\ NoneOlder'
    BY <1>1, <1>2, OrderStays DEF IInv, Shape
  <1>8. Tidy'
    BY <1>1, ConnFacts DEF Tidy
  <1>9. QED
    BY <1>3, <1>4, <1>5, <1>6, <1>7, <1>8 DEF IInv, Ordered

(***************************************************************************)
(* The theorems.                                                           *)
(***************************************************************************)

(* Every step keeps the invariant. *)
LEMMA NextInvariant == IInv /\ [Next]_vars => IInv'
  <1> SUFFICES ASSUME IInv, [Next]_vars PROVE IInv'
    OBVIOUS
  <1>1. CASE put
    BY <1>1, PutKeeps
  <1>2. CASE Worker
    <2>1. CASE get
      BY <2>1, GetKeeps
    <2>2. CASE send_cmd
      BY <2>2, SendKeeps
    <2>3. CASE send_check
      BY <2>3, CheckKeeps
    <2>4. CASE answered
      BY <2>4, AnsweredKeeps
    <2>5. CASE eof \/ give_up \/ send_unconnected
      BY <2>5, NoAnswerKeeps
    <2>6. CASE connect
      BY <2>6, ConnectKeeps
    <2>7. CASE connect_failed
      BY <2>7, ConnectFailedKeeps
    <2>8. CASE send_raises
      BY <2>8, RaisesKeeps
    <2>9. QED
      BY <1>2, <2>1, <2>2, <2>3, <2>4, <2>5, <2>6, <2>7, <2>8 DEF Worker
  <1>3. CASE Serve
    BY <1>3, ServeKeeps, HeartbeatKeeps DEF Serve
  <1>4. CASE Turns
    BY <1>4, AcceptKeeps, TimeoutKeeps DEF Turns
  <1>5. CASE Destroy
    BY <1>5, TimeoutKeeps DEF Destroy
  <1>6. CASE UNCHANGED vars
    <2>1. /\ UNCHANGED <<backlog, c2s, s2c, hungup, reset, torn, spc, conn_fd, open, terminate, odd, runs>>
          /\ UNCHANGED <<stack, pushed, worker, history>>
      BY <1>6 DEF vars, network, thread
    <2>2. ServerType' /\ conn_fd' \in {0, conn_fd}
      BY <2>1 DEF IInv, ServerType
    <2>3. QED
      BY <2>1, <2>2, IdleTurn
  <1>7. QED
    BY <1>1, <1>2, <1>3, <1>4, <1>5, <1>6 DEF Next

(* The invariant holds in every behaviour of the worker and the server,    *)
(* whatever the network delays and however often a connection is replaced. *)
THEOREM RemoteInvariant == Spec => []IInv
  <1>1. QED
    BY InitInvariant, NextInvariant, PTL DEF Spec

(* The variables keep their types; the server thread never holds a second  *)
(* connection, and none once it has ended (srv_thread's conn_fd).          *)
THEOREM TypeCorrect == Spec => []TypeOK
  <1>1. IInv => TypeOK
    <2> SUFFICES ASSUME IInv PROVE TypeOK
      OBVIOUS
    <2>1. ASSUME NEW c \in Conns
          PROVE  /\ \A i \in DOMAIN c2s[c] : c2s[c][i] \in AllRequests
                 /\ \A i \in DOMAIN s2c[c] : s2c[c][i] \in SUBSET AllRequests
      <3>1. c2s[c] \in Seq(AllRequests) /\ s2c[c] \in Seq(SUBSET AllRequests)
        BY DEF IInv, Shape
      <3>2. QED
        BY <3>1, ElementOfSeq, LenProperties
    <2>2. /\ \A i \in DOMAIN backlog : backlog[i] \in Conns
          /\ \A i \in DOMAIN stack : stack[i] \in Tasks
      BY ElementOfSeq, LenProperties DEF IInv, Shape
    <2>3. todo \in {Commands(k) : k \in Kinds} \union {<<"set_rot">>}
      BY TodoSet DEF IInv, WorkerType
    <2>4. QED
      BY <2>1, <2>2, <2>3 DEF TypeOK, IInv, ServerType, WorkerType
  <1>2. QED
    BY <1>1, RemoteInvariant, PTL

(* On a connection on which no earlier answer is due and no request was    *)
(* torn, what the worker takes for the answer to its request is that, and  *)
(* the taxi has executed what it answers (clear_socket, send_cmd_retry).   *)
THEOREM AnswersTrue == Spec => []AnswersOwn
  <1>1. IInv => AnswersOwn
    BY DEF IInv, Answered, AnswersOwn
  <1>2. QED
    BY <1>1, RemoteInvariant, PTL

(* No command is executed more than twice, and one answered at its first   *)
(* try exactly once (send_cmd_retry).                                      *)
THEOREM TwiceAtMost == Spec => []AtMostTwice
  <1>1. IInv => AtMostTwice
    <2> SUFFICES ASSUME IInv PROVE AtMostTwice
      OBVIOUS
    <2>1. \A r \in Requests : /\ runs[r] \in Nat /\ runs[r] =< Copies(r) /\ Copies(r) \in Nat
      BY Countable DEF Copies, Where, IInv, ServerType
    <2>2. ASSUME NEW r \in Requests PROVE runs[r] =< 2
      BY <2>1, <2>2 DEF IInv, Counted
    <2>3. ASSUME ~got.again, got.to \in Requests PROVE runs[got.to] = 1
      <3>1. runs[got.to] > 0 /\ Copies(got.to) =< 1
        BY <2>3 DEF IInv, Answered
      <3>2. QED
        BY <2>1, <2>3, <3>1
    <2>4. QED
      BY <2>2, <2>3 DEF AtMostTwice
  <1>2. QED
    BY <1>1, RemoteInvariant, PTL

(* The taxi never executes a move after a later one, although tasks are    *)
(* taken last in, first out, and commands are sent again (task_move).      *)
THEOREM MovesInOrder == Spec => NoStaleMove
  <1> DEFINE InTime ==
        \A r, s \in Requests :
          (r.cmd = s.cmd /\ r.cmd \in {"set_vel", "set_rot"} /\ r.task < s.task /\ runs[s] > 0)
            => runs'[r] = runs[r]
  <1>1. IInv /\ [Next]_vars => [InTime]_vars
    <2> SUFFICES ASSUME IInv, Next,
                        NEW r \in Requests, NEW s \in Requests, r.cmd = s.cmd,
                        r.cmd \in {"set_vel", "set_rot"}, r.task < s.task, runs[s] > 0
                 PROVE  runs'[r] = runs[r]
      OBVIOUS
    <2>1. CASE runs' = runs
      BY <2>1
    <2>2. CASE serve \/ serve_torn
      <3>1. PICK k \in 1 .. Len(c2s[conn_fd]) : Served(k)
        BY <2>2, ServeResult
      <3>2. conn_fd \in Conns \intersect Live /\ c2s[conn_fd] \in Seq(AllRequests)
        BY <2>2, ServeResult DEF Live, IInv, Shape
      <3>3. 1 \in DOMAIN c2s[conn_fd]
        BY <3>2, LenProperties
      <3>4. c2s[conn_fd][1] # r
        <4> SUFFICES ASSUME c2s[conn_fd][1] = r PROVE FALSE
          OBVIOUS
        <4>1. s.task =< r.task
          BY <3>2, <3>3 DEF IInv, Ordered, NoneOlder, MoveCmds
        <4>2. QED
          BY <4>1, RequestFacts
      <3>5. QED
        BY <3>1, <3>4 DEF Served, IInv, ServerType
    <2>3. serve \/ serve_torn \/ runs' = runs
      BY DEF Next, put, Worker, get, send_cmd, send_check, Transmit, send_raises, answered, eof, give_up,
             send_unconnected, connect, connect_failed, Serve, heartbeat, Turns, accept_conn, timeout,
             Destroy, srv_destroy, thread
    <2>4. QED
      BY <2>1, <2>2, <2>3
  <1>2. QED
    BY <1>1, RemoteInvariant, PTL DEF Spec, NoStaleMove

=============================================================================

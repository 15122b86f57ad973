# autonom-taxi: TLA+ models, checks and proofs

The taxi is a small car with a Raspberry Pi (the *communication module*), two
AVR microcontrollers on an SPI bus (the *sensor module* and the *control
module*) and a *remote* program on a PC that talks to the Pi over TCP.  This
directory holds TLA+ models of the parts that carry the program's logic, the
TLC configurations that check them on small instances, and TLAPS proofs.

Paths below are relative to `src/src/` of the repository unless they start with
`doc/`.

## 1. Inventory

| component | state | operations | interacts with |
|---|---|---|---|
| bus handler `comm/bus.c` | list of orders, `terminate`, the order the bus thread holds | `bus_schedule`, `bus_thread`, `bus_destroy`, `bus_sync` | called by the main and the server thread; calls the SPI driver and the callers' handlers |
| SPI driver `comm/spi.c` | none (device file) | `spi_tranceive`, `spi_sync` | bytes to and from a slave |
| bus protocol `spi/protocol.[ch]` | command tables | `cs_create`, `cs_check`, `calc_sum` | compiled into both ends |
| slave driver `avr/bus.c` | position in an exchange, SPDR | `spi_accept`, `spi_return` | called by `ctrl.c` (polling) and `sens.c` (interrupt) |
| control module `avr/ctrl.c` | PD controllers, PWM registers | command loop, `reset`, disabled kill switch | bus |
| sensor module `avr/sens.c` | wheel counters, `sensors` | main loop, wheel and SPI interrupts | bus |
| mission handler `comm/objective.c` | `active`, `current`, `queue`, `pos`, `passtime`, `passdist` | `obj_set_mission`, `obj_set_state`, `obj_remaining`, `obj_execute` | server thread and main thread, image processing |
| image processing `comm/ip/img_proc.cpp` | tracked stopline and lane, options | `ip_process`, `ip_reset`, `ip_set_opt` | called by the mission handler |
| main program `comm/main.c` | sensor snapshot, remote-control values, `quit` | start-up, main loop, server commands, shutdown | everything on the Pi |
| server `comm/server.c` | listening and connected socket, receive buffer | accept, receive, dispatch, heartbeat | remote; calls the `sc_*` functions of `main.c` |
| remote connection `remote/remote.py` | socket | `connect`, `send_cmd`, `send_cmd_retry` | server |
| worker and tasks `remote/worker.py`, `tasks.py` | task queue, completed queue | worker loop | GUI and connection |
| course `remote/course.py` | graph of the map | `closest_path`, `create_mission` | GUI |
| GUI, LCD/UART, debug and test programs | -- | -- | I/O only, not modelled |

What is hard to get right, and hard to test:

* **Bus handler.**  Three threads use one list, a failed order is put back
  while newer ones of its command may have arrived, the wake-up signal is sent
  outside the mutex, and orders are freed on three different paths.  Correct
  means: the newest value of every command reaches its slave, none is leaked or
  starved, the list is bounded, `bus_destroy` returns.
* **SPI line.**  Both ends only count bytes.  A late slave, a damaged byte or a
  restart of the Pi puts them out of step; `spi_sync` has to bring them back.
* **Mission handler.**  `pos` is changed by the camera, by the commands and by
  the server thread, and must be right when the next command starts.  Correct
  means: commands run in order, once each, each at its own stopline, and end.
* **Main program.**  It decides on a snapshot of the sensors while orders of
  earlier turns are still queued or retried.  Correct means: no blind driving,
  a standing obstacle stops the taxi, whoever took over has the last word, and
  shutdown joins the threads in an order in which nobody uses what is gone.
* **Control module.**  Any value may arrive, and the regulator has a memory.
* **Sensor module.**  Interrupts break into the loop's copies.
* **Image processing.**  A tracker that guesses while a line is out of sight.
* **Server and remote.**  No message boundaries, time-outs with retries on new
  connections, answers that come too late, tasks taken last in, first out.

`PROJECT.json` lists every hazard with its line.

## 2. Plan

Modelled, in the order of importance: the bus handler (`Bus`, `Mailbox`), the
mission handler (`Objective`), the SPI line (`Protocol`, `SpiLink`), the main
program that composes them (`Taxi`), the slaves (`Ctrl`, `Sens`), the server and
the remote (`Server`, `Remote`), the stopline tracker (`Camera`).

Proved: every safety invariant and action property the passing runs check, but
one (`RegulatorLaw`), and the refinement of `Mailbox` by `Bus`.

Open: the composition of `Bus` and `SpiLink`, byte by byte, as one
specification.  `CleanExchange` and `CleanExecution` are the facts it rests on;
with faults the outcomes `Bus` assumes are not all there are, as an echoed or
flipped byte may be taken for an ack.

## 3. Modules

| module | uses | models |
|---|---|---|
| `OrderList` | -- | the list of `comm/bus.c`, shared by `Bus` and `Taxi` |
| `Bus`, `Mailbox`, `BusProofs`, `MCBus` | `OrderList` | `comm/bus.c` |
| `Objective`, `ObjectiveProofs`, `MCObjective` | -- | `comm/objective.c` |
| `Protocol`, `SpiLink`, `SpiLinkProofs`, `MCSpiLink` | -- | `spi/`, `comm/spi.c`, `avr/bus.c` |
| `Taxi`, `TaxiProofs` | `OrderList` | `comm/main.c` with both its threads |
| `Ctrl`, `Sens`, `Camera` | -- | `avr/ctrl.c`, `avr/sens.c`, `comm/ip/img_proc.cpp` |
| `Peripherals`, `PeripheralsProofs`, `MCPeripherals` | the last three | -- |
| `Server`, `Remote`, `RemoteProofs`, `MCRemote` | -- | `comm/server.c`, `remote/` |

### `OrderList`, `Bus`, `Mailbox`, `BusProofs`

`Bus` models `comm/bus.c`.  What a thread does between `pthread_mutex_lock` and
`unlock` is one action; everything outside is an action of its own.

| TLA+ | code |
|---|---|
| `queue`, `terminate` | fields of `struct bus`; the linked list is a sequence |
| `order`, `quit`, `pc` | locals and program counter of `bus_thread` |
| `cpc[t]` | a caller inside `bus_schedule` between the insertion and the signal |
| `dpc` | progress of `bus_destroy` |
| `live` | orders allocated and not freed |
| `slave`, `latest` | what each command last did at the slave; history of what was scheduled |
| `order_queue`, `freed_by_queue` | `order_queue`, its calls of `order_destroy` |
| `bus_schedule`, `schedule_signal` | `bus_schedule` up to and from the signal |
| `fetch`, `exec_*`, `requeue`, `sleep`, `timeout` | the loop of `bus_thread` |
| `destroy_terminate`, `destroy_signal`, `destroy_free` | `bus_destroy` |

An exchange is one step with three outcomes: executed and acknowledged,
executed but the ack lost, not executed.  `bus_destroy` starts when no caller is
inside `bus_schedule`: `main.c` joins the server thread first.  The two packet
counters, which are only printed, are left out.

`Mailbox` is what the bus promises: one slot per command, new letters replace
old ones, a single carrier, and a letter put back yields to a newer one.
`RefinesMailbox` says that `Bus` implements it, with the slot of a command being
its queued data (`Pending`).

### `Objective`, `ObjectiveProofs`

`Objective` models `comm/objective.c` with the main loop's two calls
(`obj_active`, then `obj_execute`) and the server's mission commands.
`obj_execute` is one action: fetch, camera frame, stopline bookkeeping, command
function, end of command.  Speeds and steering are symbolic
(`vel`, `rot`), a clock reading is `late` (PICKUP_TIME is over) and the distance
driven since `pos` changed is the number of thresholds passed (`dist`).  What the
commands read is the odometer, a 16-bit sum of wheel pulses (`avr/sens.c:163`),
minus its reading at the time: once the sum wraps, the difference is negative
and stays below the level `top` at which it wrapped for the whole range of the
counter.  `top` is chosen from `Wraps` whenever `pos` changes; `Reading` is what a
command may see.  After a mission is set, distance counts from the start of the
taxi, so `top` is the highest level.  The camera
(`Frame`) may report any tracked stopline; what it cannot do is report a line as
passed that was not being tracked.  After an empty frame the result is
uninitialized, hence arbitrary.  The environment parameters `EmptyFrames`,
`AppendRunning` and `Spaced` say which of these a run allows.

History variables: `accepted` and `completed` (the mission and how much of it is
done), `lines` (stoplines really passed since the command began).

### `Protocol`, `SpiLink`, `SpiLinkProofs`

`Protocol` holds the tables and the checksum; a nibble is the set of its
one-bits, so exclusive or is the symmetric difference.  `calc_sum` is written in
the closed form of what its loop computes; `MCSpiLink` compares the two.

`SpiLink` is one SPI line, to either slave (`Slave`, chosen in `Init`), with the bus thread in `transmit`, `receive` or
`spi_sync` on one end and `spi_accept`/`spi_return` with its caller on the other.
The hardware is external and modelled by how the code uses it: a byte clocked by
the master swaps the shift registers; a slave that has not fetched the previous
byte loses it; what was not overwritten by the slave comes back to the master.
A slave action fetches a byte, runs the program up to the next load of SPDR and
loads it.  A load that collides with a running transfer is not modelled
separately; its effect, a wrong byte for the master, is that of a flipped bit.
`restart` is the communication module killed at any point and started again; its
`main` begins with `bus_sync`.  `clean` says that no fault has happened since
the last `spi_sync` began.

Uninitialized memory (`cs` in `spi_accept`, `value_retrieved` in `ctrl.c`) is an
arbitrary element of `Garbage`.

### `Taxi`, `TaxiProofs`

`Taxi` is the program of `comm/main.c`: the main thread, the server thread as far
as it runs the functions main registers, the bus thread with `bsh_sens_recv`, and
what the control module makes of an order.  `mpc` is where main is (`init`,
`reset`, then the turn `top`, `drive`, `vel`, `rot`, then `stop`, `srv`, `join`,
`bus`, `wait`); `snap` is its copy of the front distance, `val` the shared one.
The bus is its list and the order in the thread's hands; sleeping and waking are
in `Bus`, so here the thread simply comes round.  The inside of `obj_execute` is
in `Objective`: here it yields any velocity, and steers by the regulator.  A
velocity is `go` (forward), `hold` (zero or backward; the brake orders minus a
velocity that was measured without its sign) or `nan`, which `strtof` makes of
the remote's "nan": `value > 0` is false for it, so it passes the brake, and the
control module clamps it to full speed.  `Asked` is what the remote asks for.  A
distance is below 0.7 m or not.  If `obj_create` fails, main cleans up; if
`srv_create` fails it joins a thread that was never created, which crashes the
program (`mpc = "crashed"`) or, by luck, returns an error and main cleans up.
Left out: the sensor
module's RST (its answers are arbitrary anyway) and `sc_bus_send_float`, one
more caller of `bus_schedule` with commands nobody else uses.

### `Ctrl`, `Sens`, `Camera`, `Peripherals`, `PeripheralsProofs`

`Ctrl` has an action per kind of command the loop of `ctrl.c` distinguishes.
Values are integers (tenths), so that the arithmetic is exact, and NaN, which
the checksum does not keep out.  `errs`, a history, holds the errors since the
last value or reset, and `Law` says what the regulator should make of them.

`Sens` has the loop of `sens.c` in the steps between which an interrupt may come,
if interrupts are on, and an action per interrupt routine; flags wait while
interrupts are off, and a second edge of a kind is lost, as in the hardware.  The
SPI routine begins and ends in two steps, with everything else of the module
standing still but the timer and the wheels.  `WT_TOP` (65535) and `Modulus`
(2^16) are parameters.  Distance sensors are left out: their values are
independent of everything else.

`Camera` is the stopline part of `ip_process` with its state in `struct ip`.
The input is the row of what OpenCV and `is_stopline` take for the stopline, or
none.  `is_stopline` tests where the ends of a line are, but the row is that of
the line prolonged to the middle of the lane (`line_pos_y`), so it is any of
`Found`: in the mask, above it, off the picture.  `missed` is a history.

The three have nothing to do with each other but through the communication
module; `Peripherals` follows one of them in each behaviour.

### `Server`, `Remote`, `RemoteProofs`

`Server` is the server thread, one action per way a turn of its loop can go, and
the connections: `c2s` and `s2c` are what has been sent and not read, in either
direction.  TCP keeps no message boundaries: `serve` reads any number of requests
as one message, of which at most the first is executed; `serve_torn` reads into
the middle of a request, whose rest is then read as a message of its own (`torn`
is a history of the connections this happened on).  `open` is the set of sockets the thread holds.  A remote that has closed its end
is in `hungup`; sending to it twice may kill the program (SIGPIPE).

`Remote` is the worker with its task stack and its client.  An action is what the
worker does up to the next point where it waits or can fail.  `give_up` is the
socket's time-out: nothing is known of the request then, and the server may
execute and answer it still.  `muddled` says that the code kept a socket on which
an answer is still due (a check or a second try that was not answered in time),
`got` is the last answer taken on a socket neither muddled nor torn, `runs` how
often the server has executed each request.  `send_raises` is an error out of
`sendall` other than a broken pipe: `connect` catches it for its check, for a
command nobody does and the worker's thread ends (`wpc = "crashed"`).  A check
whose answer is read together with a heartbeat before it does not say "success"
and makes `connect` fail.

## 4. Runs

| run | what it shows |
|---|---|
| `bus` | three commands, two values, two callers, any failures: `OneOrderPerCmd`, `NewestNeverLost`, `MemoryAccounted`, `NoOvertaking`, `RefinesMailbox`; `Serviced`: a queued command is tried although others keep failing; `DestroyReturns`: the time-out of the wait saves a lost signal |
| `mission` | `FreshStart`, `MissionOrder` on any road, with empty frames and requests at any time |
| `road` | `PosMatchesRoad`, `OptionsOnlyAtLine`, `FinishNeedsLine` and `MissionEnds` with one stopline per command, without empty frames and without `app_miss` to a running command |
| `spi` | on either line: `InSync`, `CleanExchange`, `CleanExecution`, `LinkRecovers` |
| `taxi` | `BlindStandstill`, `Lifetimes`, `ObstacleStops`, `ManualSteers`, `ShutdownEnds` with an exchange that fails and a remote that asks for numbers |
| `peripherals` | `ServoRange`, `RegulatorLaw` (control module); `StructWhole`, `VelocityFresh`, `StandstillSeen` (sensor module); `GhostBound`, `FrameContract` (tracker) |
| `remote` | `AnswersOwn`, `AtMostTwice`, `NoStaleMove`, `TaskEnds`, `ServerStops`, and, in `TypeOK`, one open connection |
| `append_running` | *violation*: `app_miss` takes a running command back to before its line |
| `empty_frame` | *violation*: a command finishes without a stopline after an empty frame |
| `spi_sum` | *violation*: one flipped bit in the data of a write is accepted |
| `shutdown` | *violation*: the wheels drive on after a shutdown |
| `ghost` | *violation*: a stopline missing from one picture is moved on, not taken back to the top |

`FrameContract` is what `Objective` takes for granted of the camera.

Bounds.  Three commands are needed to see an order overtaken or replaced behind
another; two values tell old from new; two callers are the main and the server
thread.  The missions cover every command, `park` both as last and not, an empty
list and an unknown name; three requests give set, append and mode switch in any
order around a running mission; `MaxPos = 5` is one beyond `UNPARKING`.  `Wraps`
has the odometer wrap right after the line (0), in the middle (3) or not within
a command (6).  One
fault and one restart put the two ends of the line out of step in every
position, and let a restart hit the `spi_sync` that repairs a fault.  In `taxi`
one failed exchange lets any order be retried behind any other; the list cannot
grow beyond the five commands.  The remote asks for numbers there: with NaN the
instance is beyond TLC's time, `BlindStandstill` and `ObstacleStops` except it,
and the theorem `NeverBlind` has it.  In `peripherals` three commands are an error, a
value and an error again; `WT_TOP = 2` and `Modulus = 4` let the timer run out
and both counters wrap within five edges; twenty rows keep all the tracker's
thresholds apart, `Found` has rows in the mask, above it and off either end of
the picture, and `thresh_stop_vis = 3` lets a line be kept, guessed and lost.
In `remote` two tasks after the first connect are a newer and an older one in
the stack, three connections allow a third try if the code made one, and
`MaxOdd = 1` gives a heartbeat among the answers or a torn request.

Fairness.  `bus`: the bus thread and a thread inside `bus_schedule` or
`bus_destroy` are scheduled; no exchange is assumed to succeed.  `road`:
the main loop runs; a moving taxi sees and passes its next line, and
its odometer shows 0.8 m in the end, unless it wraps before (then the command may
never end, and `MissionEnds` excepts it as `Lost`); time passes.
A standing taxi is promised nothing.
`spi`: both programs run and the bus thread always finds an order (the main
loop schedules one per turn); faults and restarts are finite, by their bounds.
`taxi`: main and the bus thread run, the server thread comes back from its
`select`, which has a time-out; the remote may do nothing, and faults are finite.
`peripherals`: time passes, pending interrupts are served, the communication
module finishes an exchange it began, and the loop goes on (strong fairness: the
AVR executes an instruction of the main program after every interrupt routine).
`remote`: worker and server are scheduled, where the worker's wait and the
server's `select` end by time-out if by nothing else; the network may lose or
delay anything.

Deadlock is checked in every run but `remote`, whose worker and server may both
have ended.

## 5. Findings

* `app_miss` resets `pos` of the running command (`comm/objective.c:340-345`).
* An empty frame leaves `ip_res` uninitialized (`comm/objective.c:366-385`).
* `calc_sum` ignores all data (`spi/protocol.c:21-24`).  With `data[i]` in place
  of `*data` the property `AcceptedIntact` holds in the same instance.
* At shutdown the bus thread takes at most one more order once `terminate` is set
  (`comm/bus.c:143`); the control module's RST is freed unsent (`comm/bus.c:228`)
  and the wheels keep turning, as the kill switch is off (`avr/ctrl.c:115`).
* The report has the estimate of a stopline return to the top as soon as one
  picture does not show it; the code moves it on while it has been seen often
  enough (`comm/ip/img_proc.cpp:514`).  `GhostBound` says for how long.

Met while modelling, without a run of their own: a stopline passed while `park`
leaves its pocket makes `pos` a value `cmd_park` has no branch for, and it never
ends (`comm/objective.c:73-106`, `382`; `Spaced` keeps such lines out of `road`);
a command that ends after a distance does not end if the 16-bit odometer wraps
within it (`comm/objective.c:402`, `avr/sens.c:163`; `Lost`); the first edge of a
wheel slower than the timer's range is measured from the timer's restart, and
reads as a fast one until the timer runs out again (`avr/sens.c:107`); an error of
`sendall` other than `BrokenPipeError` ends the worker instead of being reported
(`remote/remote.py:82`; `send_raises`); missions sent in a row may
arrive in reverse order (`remote/tasks.py:19`); `app_miss` may be applied twice
after a time-out (`AtMostTwice` is the bound); the sensor module's RST wipes the
results but not the wheel counters, so the distance is back one turn later
(`avr/sens.c:48`); a velocity of NaN passes the obstacle brake (`comm/main.c:250`),
an exception in `BlindStandstill` and `ObstacleStops` and no finding, as no
document speaks of such a value; `srv_create` joins a thread it has not created
when it fails (`comm/server.c:367`, `377`); `stop_diff` has the wrong sign for a guess
(`comm/ip/img_proc.cpp:506`); `ip_reset` uses a width as a row
(`comm/ip/img_proc.cpp:115`).

## 6. Proofs

All theorems hold for every value of the constants.

**Bus.**  Assumptions: `None` is no value and no order; the command table is
finite.  `NewestNeverLost` is not inductive: it needs that the list holds one
order per command (else replacing one leaves an older one behind), that the
thread holds an order exactly in `exec` and `requeue`, and that after the join
nothing is held.  `IInv` collects these; `BusInvariant` proves it, with one lemma
per action; `TypeCorrect`, `NoDuplicates`, `NothingLost`, `NoLeak` and
`ListBounded` follow.  The lemmas `PlaceFinds` ... `UnlinkHead` say what the list
operations do to the pending value of each command.  `NeverOvertaken` (an action
property) and `ImplementsMailbox` (refinement: initial states, and every step a
step or a stutter) use the same invariant.

**Mission handler.**  Assumptions: missions are sequences of names.
`FuncResult` says of all command functions at once that `pos` never goes back,
never leaves `BEFORE_STOP` by itself, that a command finishes only past its line,
and that options before the line need a visible line.  From it: `ObjInvariant`
(`TypeOK` and `FreshStart`), `MissionKept` (the list lemmas `RemainsTail` and
`RemainsAppend` for finishing and appending), and, assuming no empty frames and
no append to a running command, `RoadAgrees`, `OptionsCleared` and
`FinishedPastLine`.  The runs `append_running` and `empty_frame` show that these
two assumptions are needed.

**SPI line.**  Assumptions: orders are in the slave's command table, and only a
command with `BF_WRITE` carries data, as many bytes as the table says
(`bus_schedule` copies the message only if `bc->write`); the sensor values are 16
bytes.  Nothing is assumed of the data, of uninitialized bytes, or of which
bytes get lost or damaged.  The invariant has three parts.  `Syncing`: in
`spi_sync` the bytes the slave still fetches before it waits for a command
again, less the one that has arrived, plus the zeros sent so far, never exceed
the length of the exchange it is in (18 after the header of GET, 5 for a write),
and zero is no command; so `SyncLen` zeros are enough.  `Resting`: between two
exchanges the slave waits for a command or will after the last byte.
`Exchanging`: during a clean exchange the number of bytes fetched determines the
slave's place, its header, buffer and register, and what the master has kept,
with one formula each for a write, a read, a command without data and GET.
`Place` says the same as one disjunction over the bytes fetched; the slave's
actions are proved with it.  From these: `Resynchronized`, `ExchangesSucceed`,
`ExecutesOrders`.

**Main program.**  Assumptions: the number of faults is a natural number, and the
remote asks for velocities, NaN among them.  `BlindStandstill` is strengthened to
`Blind`: before the first sensor answer nothing on the way to the wheels says
"go", neither the snapshot, nor main's velocity, nor an order queued, held or put back, nor the
wheels; NaN may be there and is the exception of the property.  `Threads` says
which threads exist at each place of `main`; `Lifetimes` follows.

**Slaves and tracker.**  Control module: the clamp keeps every pulse in range
whatever the operands, NaN included (`ServosSafe`); `CtrlAssumption` only says
that values are integers or NaN.  Sensor module: `Counted` (both counters
together are the edges served, modulo their width), `Raised` (the edges served
and the flags that wait are no more than the edges raised), `Timed` (until it
runs out the timer shows the time since a left edge was last counted), the
property itself, `Loop` (what the loop has read is of the instant of its snapshot, what it has
written is what it has read), from which `NeverTorn` and `VelocityCurrent`.  The arithmetic modulo an arbitrary
`Modulus` is in `SameModulo`, `CountUp` and `CountedUp`.  Tracker: `Certainty`, a
line kept unseen costs certainty, which is limited, so `GhostsVanish`;
`FramesHonest` is the contract `Objective` relies on.  A step of one module
leaves the others alone (`Unfollowed`).

**Server and remote.**  Assumptions: requests are a command and the time of its
task; the bounds are natural numbers.  `AtMostTwice` is not inductive, since a
request on its way is executed later.  `Copies(r)` counts executions together
with the connections that still carry `r`; `Counted` bounds it: none before the
request is sent, one before its second try, two afterwards.  Serving moves a
copy from a connection to `runs`, which is only right if a connection carries a
request once (`SentOnce`), hence `Afresh`: the second try is on a connection
without the first.  A read that ends inside a request leaves a rest, which is no
request and is executed by nobody (`Served` has what both ways of serving leave).
`Tidy` says that on a connection that is neither muddled nor torn nothing is on
its way but the request the worker waits for, or its answer; `Answered`
that what was answered is not sent again.  `Ordered` has moves ordered by time
on every connection (`InOrder`), none newer than `move_time` (`Newest`), the
current one being the newest (`Planned`), and on the connections the server
still reads none older than an executed one (`NoneOlder`).  From these:
`AnswersTrue`, `TwiceAtMost`, `MovesInOrder`.

Only model-checked: the liveness properties (`Serviced`, `DestroyReturns`,
`MissionEnds`, `LinkRecovers`, `ObstacleStops`, `ManualSteers`, `ShutdownEnds`,
`StandstillSeen`, `TaskEnds`, `ServerStops`), since fairness is out of the
prover's reach, and `RegulatorLaw`, whose reference value is a fold over the
history of errors: what a fold computes needs induction over data.

## 7. Not modelled

OpenCV's edge and line detection and the lane position, which only yields a
clamped offset; drawing, string formatting and parsing; memory of the server;
start-up failures other than those of `obj_create` and `srv_create`; the course planner, two pure
functions over a constant map; the GUI, LCD and UART.  `PROJECT.json` gives the
reason for each component.

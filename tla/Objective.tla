----------------------------- MODULE Objective -----------------------------
(***************************************************************************)
(* The mission handler of the communication module,                        *)
(* src/src/comm/objective.c, with what it needs of the camera's stopline   *)
(* tracker (comm/ip/img_proc.cpp) and of its caller, the main loop         *)
(* (comm/main.c).                                                          *)
(*                                                                         *)
(* The server thread replaces or extends the mission and switches between  *)
(* autonomous and manual driving; the main thread executes the mission one *)
(* camera frame at a time.  Each function holds obj->lock from start to    *)
(* end and is one step, but the main loop asks obj_active first and calls  *)
(* obj_execute later, so a switch may fall in between.                     *)
(*                                                                         *)
(* Times and distances matter only through comparisons: `late' says that   *)
(* PICKUP_TIME has passed since pos last changed, `dist' is how many of    *)
(* the thresholds 0.1, 0.25, 0.4, 0.5, 0.7 and 0.8 m the taxi has driven   *)
(* since.  The odometer is 16 bits of wheel pulses and wraps to zero; what *)
(* the commands read is then behind the place where pos changed, and stays *)
(* below `top', the level at which the odometer wraps, for all its range.  *)
(***************************************************************************)
EXTENDS Integers, Sequences

CONSTANTS
    Missions,       \* argument lists of set_miss and app_miss
    MaxRequests,    \* bound: requests of the remote in a behaviour
    MaxPos,         \* bound: stoplines are passed only while pos < MaxPos
    Wraps,          \* bound: levels at which the odometer may wrap
    Spaced,         \* the road: no stopline between a command's line and its end
    EmptyFrames,    \* the camera may deliver an empty frame
    AppendRunning   \* the remote may send app_miss while a command is running

Cmds == {"ignr", "stop", "park", "entr", "cont", "exit"}
None == "none"

(* Levels of dist: the number of thresholds at or below the distance. *)
Levels == 0 .. 6

ASSUME ObjectiveAssumption ==
    /\ MaxRequests \in Nat
    /\ MaxPos \in Nat
    /\ Wraps \subseteq Levels
    /\ Spaced \in BOOLEAN
    /\ EmptyFrames \in BOOLEAN
    /\ AppendRunning \in BOOLEAN
    /\ \A m \in Missions : m \in Seq(STRING)

BEFORE_STOP == 1
AFTER_STOP == 2
PARKED == AFTER_STOP + 1
UNPARKING == PARKED + 1

Past10cm == 1
Past25cm == 2
Past40cm == 3
Past50cm == 4
Past70cm == 5
Past80cm == 6

VARIABLES
    active,      \* obj->active
    current,     \* obj->current, or None
    queue,       \* obj->queue
    pos,         \* obj->pos
    late,        \* sens->time - obj->passtime >= PICKUP_TIME
    dist,        \* level of the distance driven since pos changed
    top,         \* the largest level sens->distance - obj->passdist can reach
    stop_valid,  \* ip->stop_valid: a stopline is being tracked
    opt,         \* ip->opt: the lane line to ignore, or None
    vel,         \* ctrl->vel.value of the last frame
    rot,         \* ctrl->rot.value of the last frame
    mpc,         \* main loop: before obj_active or before obj_execute
    requests,    \* requests the remote has made
    accepted,    \* history: the mission as accepted since it was last replaced
    completed,   \* history: how many commands of it have finished
    lines        \* history: stoplines passed since the current command began

cmdvars == <<current, queue, pos, late, dist, top>>
outputs == <<stop_valid, opt, vel, rot>>
history == <<accepted, completed, lines>>
vars == <<active, cmdvars, outputs, mpc, requests, history>>

(***************************************************************************)
(* The command functions.  s is struct state; the result says whether the  *)
(* command has finished and what it left in pos, ctrl and opt.             *)
(***************************************************************************)
Result(fin, p, v, r, o) == [finished |-> fin, pos |-> p, vel |-> v, rot |-> r, opt |-> o]

(* Nothing but the defaults of obj_execute. *)
Drive(s, fin) == Result(fin, s.pos, "full", "lane", None)

(* Mutant: the stopline need not have been passed. *)
cmd_ignore_early(s) == Drive(s, s.pos >= BEFORE_STOP)

(* Drive on; done past the line. *)
cmd_ignore(s) == Drive(s, s.pos >= AFTER_STOP)

(* Brake towards a visible line; past it stand, for PICKUP_TIME unless the *)
(* command is the last one.                                                *)
cmd_stop(s) ==
    IF s.pos = BEFORE_STOP /\ s.visible THEN Result(FALSE, s.pos, "approach", "lane", None)
    ELSE IF s.pos >= AFTER_STOP THEN Result(s.last \/ s.late, s.pos, "stop", "lane", None)
    ELSE Drive(s, FALSE)

(* Mutant: the turn out of the parking pocket waits for 0.8 m while the    *)
(* taxi still stands.                                                      *)
cmd_park_standing(s) ==
    CASE s.pos = BEFORE_STOP ->
           Result(FALSE, s.pos, "full", "lane", IF s.visible THEN "left" ELSE None)
      [] s.pos = AFTER_STOP ->
           IF s.dist < Past40cm THEN Result(FALSE, s.pos, "slow", "right", "left")
           ELSE IF s.dist < Past80cm THEN Result(FALSE, s.pos, "slow", "lane", "left")
           ELSE IF s.last THEN Result(TRUE, s.pos, "slow", "lane", "left")
           ELSE Result(FALSE, PARKED, "slow", "lane", "left")
      [] s.pos = PARKED ->
           Result(FALSE, IF s.late THEN UNPARKING ELSE s.pos, "stop", "lane", None)
      [] s.pos = UNPARKING ->
           IF s.dist < Past25cm THEN Result(FALSE, s.pos, "stop", "left", "left")
           ELSE Result(TRUE, s.pos, "full", "lane", "left")
      [] OTHER -> Drive(s, FALSE)

(* Turn into the pocket, stand, turn out of it; the last command of a      *)
(* mission ends in the pocket.                                             *)
cmd_park(s) ==
    CASE s.pos = BEFORE_STOP ->
           Result(FALSE, s.pos, "full", "lane", IF s.visible THEN "left" ELSE None)
      [] s.pos = AFTER_STOP ->
           IF s.dist < Past40cm THEN Result(FALSE, s.pos, "slow", "right", "left")
           ELSE IF s.dist < Past80cm THEN Result(FALSE, s.pos, "slow", "lane", "left")
           ELSE IF s.last THEN Result(TRUE, s.pos, "slow", "lane", "left")
           ELSE Result(FALSE, PARKED, "slow", "lane", "left")
      [] s.pos = PARKED ->
           Result(FALSE, IF s.late THEN UNPARKING ELSE s.pos, "stop", "lane", None)
      [] s.pos = UNPARKING ->
           IF s.dist < Past25cm THEN Result(FALSE, s.pos, "full", "left", "left")
           ELSE Result(TRUE, s.pos, "full", "lane", "left")
      [] OTHER -> Drive(s, FALSE)

(* Follow one lane line past the stopline until `level' is reached. *)
Follow(s, level, ignored) ==
    IF s.pos >= AFTER_STOP /\ s.dist < level
      THEN Result(FALSE, s.pos, "full", "lane", ignored)
      ELSE Drive(s, s.pos >= AFTER_STOP)

(* The roundabout: enter, pass an exit, leave. *)
cmd_enter(s) == Follow(s, Past10cm, "left")

cmd_continue(s) ==
    IF s.pos = BEFORE_STOP /\ s.visible THEN Result(FALSE, s.pos, "full", "lane", "right")
    ELSE Follow(s, Past70cm, "right")

cmd_exit(s) ==
    IF s.pos = BEFORE_STOP /\ s.visible THEN Result(FALSE, s.pos, "full", "lane", "left")
    ELSE Follow(s, Past50cm, "left")

(* The table CMDS. *)
func(cmd, s) ==
    CASE cmd = "ignr" -> cmd_ignore(s)
      [] cmd = "stop" -> cmd_stop(s)
      [] cmd = "park" -> cmd_park(s)
      [] cmd = "entr" -> cmd_enter(s)
      [] cmd = "cont" -> cmd_continue(s)
      [] cmd = "exit" -> cmd_exit(s)

(***************************************************************************)
(* The server thread.                                                      *)
(***************************************************************************)

(* obj_create, and the first set_mission it makes. *)
Init ==
    /\ active = FALSE
    /\ current = None
    /\ queue = <<>>
    /\ pos = BEFORE_STOP
    /\ late \in BOOLEAN
    /\ dist \in Levels
    /\ top = Past80cm
    /\ stop_valid = FALSE
    /\ opt = None
    /\ vel = "stop"
    /\ rot = "lane"
    /\ mpc = "check"
    /\ requests = 0
    /\ accepted = <<>>
    /\ completed = 0
    /\ lines = 0

(* queue_create: NULL unless every name is in CMDS. *)
Valid(m) == \A i \in DOMAIN m : m[i] \in Cmds

(* obj_remaining, the answer to get_miss. *)
obj_remaining == IF current = None THEN queue ELSE <<current>> \o queue

Request == requests < MaxRequests /\ requests' = requests + 1

(* Mutant: pos is left where it is. *)
Restart_no_pos ==
    /\ pos' = pos
    /\ late' \in BOOLEAN
    /\ dist' \in Levels
    /\ top' = Past80cm
    /\ stop_valid' = FALSE
    /\ opt' = None

(* What every accepted mission does, appended or not: forget when and      *)
(* where pos changed -- from now on time and distance count from when the  *)
(* taxi was started --, take the taxi to be before its line, ip_reset.     *)
Restart ==
    /\ pos' = BEFORE_STOP
    /\ late' \in BOOLEAN
    /\ dist' \in Levels
    /\ top' = Past80cm
    /\ stop_valid' = FALSE
    /\ opt' = None

(* set_miss *)
SetMission(m) ==
    /\ Request
    /\ Valid(m)
    /\ current' = None
    /\ queue' = m
    /\ Restart
    /\ accepted' = m
    /\ completed' = 0
    /\ lines' = 0
    /\ UNCHANGED <<active, vel, rot, mpc>>

(* Mutant: the appended commands come first. *)
AppendMission_front(m) ==
    /\ Request
    /\ Valid(m)
    /\ AppendRunning \/ current = None
    /\ queue' = m \o queue
    /\ Restart
    /\ accepted' = accepted \o m
    /\ UNCHANGED <<active, current, vel, rot, mpc, completed, lines>>

(* app_miss *)
AppendMission(m) ==
    /\ Request
    /\ Valid(m)
    /\ AppendRunning \/ current = None
    /\ queue' = queue \o m
    /\ Restart
    /\ accepted' = accepted \o m
    /\ UNCHANGED <<active, current, vel, rot, mpc, completed, lines>>

(* set_miss or app_miss with a name that is no command: "invalid mission". *)
RefuseMission(m) ==
    /\ Request
    /\ ~Valid(m)
    /\ UNCHANGED <<active, cmdvars, outputs, mpc, history>>

(* set_auto *)
obj_set_state(state) ==
    /\ Request
    /\ active' = state
    /\ UNCHANGED <<cmdvars, outputs, mpc, history>>

(***************************************************************************)
(* The main thread.                                                        *)
(***************************************************************************)

(* One turn of the main loop up to the call of obj_execute; in manual mode *)
(* the turn does not touch the mission.                                    *)
obj_active ==
    /\ mpc = "check"
    /\ active
    /\ mpc' = "execute"
    /\ UNCHANGED <<active, cmdvars, outputs, requests, history>>

ManualTurn == mpc = "check" /\ ~active /\ UNCHANGED vars

(* ip_process, as far as stoplines go: a line is tracked once it appears   *)
(* near the top of the picture, until it is lost or reaches the bottom     *)
(* (passed).  An empty frame leaves the caller's result uninitialized.     *)
Frame(empty, visible, passed) ==
    \/ /\ ~empty
       /\ visible => ~passed
       /\ passed => stop_valid
       /\ stop_valid' = visible
    \/ /\ empty /\ EmptyFrames
       /\ stop_valid' = stop_valid

(* The command the frame is for: the current one, or the next in line. *)
Fetched == IF current = None /\ queue # <<>> THEN Head(queue) ELSE current
Rest == IF current = None /\ queue # <<>> THEN Tail(queue) ELSE queue

(* Mutants: only a single change of pos is undone; BEFORE_PREV. *)
PosAfterFinish_decrement(p) == p - 1
PosAfterFinish_prev(p) == 0

(* The end of a command: pos-- up to AFTER_STOP, BEFORE_STOP beyond. *)
PosAfterFinish(p) == IF p =< AFTER_STOP THEN p - 1 ELSE BEFORE_STOP

(* The levels the taxi may have driven by now. *)
Driven == dist .. Past80cm

(* What the commands read as their distance when the taxi has driven d:    *)
(* anything up to top once the odometer may have wrapped.                  *)
Reading(d) == IF d < top THEN {d} ELSE 0 .. top

(* struct state, and the distance driven; passing the line resets the      *)
(* clock and the odometer.                                                 *)
StateOf(visible, passed, l, d, read) ==
    [visible |-> visible, last |-> Rest = <<>>,
     pos  |-> IF passed THEN pos + 1 ELSE pos,
     late |-> IF passed THEN FALSE ELSE l,
     dist |-> IF passed THEN 0 ELSE read,
     driven |-> IF passed THEN 0 ELSE d]

(* Where the odometer wraps, counted from where pos changed last; after a  *)
(* change to p that may be anywhere.                                       *)
Tops(p) == IF p = pos THEN {top} ELSE Wraps

(* Mutant: the options are not cleared before the command runs. *)
RunCommand_old_opt(s) ==
    LET r == func(Fetched, s) IN
    /\ vel' = r.vel
    /\ rot' = r.rot
    /\ opt' = (IF r.opt = None THEN opt ELSE r.opt)
    /\ late' = (IF r.pos = s.pos THEN s.late ELSE FALSE)
    /\ dist' = (IF r.pos = s.pos THEN s.driven ELSE 0)
    /\ top' \in Tops(r.pos)
    /\ pos' = (IF r.finished THEN PosAfterFinish(r.pos) ELSE r.pos)
    /\ current' = (IF r.finished THEN None ELSE Fetched)
    /\ completed' = (IF r.finished THEN completed + 1 ELSE completed)

(* The part of obj_execute that runs the command. *)
RunCommand(s) ==
    LET r == func(Fetched, s) IN
    /\ vel' = r.vel
    /\ rot' = r.rot
    /\ opt' = r.opt
    /\ late' = (IF r.pos = s.pos THEN s.late ELSE FALSE)
    /\ dist' = (IF r.pos = s.pos THEN s.driven ELSE 0)
    /\ top' \in Tops(r.pos)
    /\ pos' = (IF r.finished THEN PosAfterFinish(r.pos) ELSE r.pos)
    /\ current' = (IF r.finished THEN None ELSE Fetched)
    /\ completed' = (IF r.finished THEN completed + 1 ELSE completed)

(* No command: stop.  A stopline still counts, the options stay. *)
Idle(s) ==
    /\ vel' = "stop"
    /\ rot' = "lane"
    /\ late' = s.late
    /\ dist' = s.driven
    /\ top' \in Tops(s.pos)
    /\ pos' = s.pos
    /\ UNCHANGED <<current, opt, completed>>

(* On a road that is Spaced a command's end comes before the next line --  *)
(* unless the odometer wraps and the command cannot see that it has driven *)
(* far enough.                                                             *)
Overrun == top < Past80cm /\ dist = Past80cm

(* obj_execute on one frame, with the clock reading l, the distance driven *)
(* d and what the odometer makes of it.                                    *)
obj_execute(empty, visible, passed, l, d, read) ==
    LET s == StateOf(visible, passed, l, d, read) IN
    /\ mpc = "execute"
    /\ mpc' = "check"
    /\ Frame(empty, visible, passed)
    /\ passed => /\ pos < MaxPos
                 /\ Spaced /\ Fetched # None => pos = BEFORE_STOP \/ Overrun
    /\ late => l
    /\ queue' = Rest
    /\ lines' = (IF current = None THEN 0 ELSE lines)
               + (IF passed /\ ~empty THEN 1 ELSE 0)
    /\ IF Fetched = None THEN Idle(s) ELSE RunCommand(s)
    /\ UNCHANGED <<active, requests, accepted>>

(* Any frame.  The taxi has driven at least as far as before. *)
AnyFrame ==
    \E d \in Driven : \E read \in Reading(d), empty, visible, passed, l \in BOOLEAN :
       obj_execute(empty, visible, passed, l, d, read)

Server ==
    \/ \E m \in Missions : SetMission(m) \/ AppendMission(m) \/ RefuseMission(m)
    \/ \E state \in BOOLEAN : obj_set_state(state)

Main ==
    \/ obj_active
    \/ ManualTurn
    \/ AnyFrame

Next == Server \/ Main

Spec == Init /\ [][Next]_vars

(***************************************************************************)
(* Fairness.  The main loop runs (its thread is scheduled).  The rest is   *)
(* about the road and the clock, not about the code: while the taxi drives *)
(* the next stopline comes into view and is passed, and the odometer shows *)
(* 0.8 m or more, unless it wraps before; time passes.  None of it is      *)
(* assumed of a taxi that stands still.                                    *)
(***************************************************************************)
Moving == vel # "stop"

(* A frame with the given sights, the clock reading any of ls and the      *)
(* commands reading any distance of reads.                                 *)
GoodFrame(visible, passed, ls, reads) ==
    \E d \in Driven : \E read \in reads \intersect Reading(d), l \in ls :
       obj_execute(FALSE, visible, passed, l, d, read)

Fairness ==
    /\ WF_vars(obj_active)
    /\ WF_vars(AnyFrame)
    /\ SF_vars(Moving /\ GoodFrame(TRUE, FALSE, BOOLEAN, Levels))
    /\ SF_vars(Moving /\ GoodFrame(FALSE, TRUE, BOOLEAN, Levels))
    /\ SF_vars(Moving /\ \E visible \in BOOLEAN : GoodFrame(visible, FALSE, BOOLEAN, {Past80cm}))
    /\ SF_vars(\E visible \in BOOLEAN : GoodFrame(visible, FALSE, {TRUE}, Levels))

FairSpec == Spec /\ Fairness

(***************************************************************************)
(* Properties.                                                             *)
(***************************************************************************)
TypeOK ==
    /\ active \in BOOLEAN
    /\ current \in Cmds \union {None}
    /\ queue \in Seq(Cmds)
    /\ pos \in Nat /\ pos >= BEFORE_STOP
    /\ late \in BOOLEAN
    /\ dist \in Levels /\ top \in Levels
    /\ stop_valid \in BOOLEAN
    /\ opt \in {None, "left", "right"}
    /\ vel \in {"stop", "approach", "slow", "full"}
    /\ rot \in {"lane", "left", "right"}
    /\ mpc \in {"check", "execute"}
    /\ requests \in 0 .. MaxRequests
    /\ accepted \in Seq(Cmds)
    /\ completed \in Nat
    /\ lines \in Nat

(* "Vid varje nytt kommando saetts den till BEFORE_STOP": whenever the     *)
(* next frame takes a new command, pos says that its stopline is ahead,    *)
(* whatever the previous command did to pos, however many lines were       *)
(* passed in between, and whoever set or extended the mission meanwhile.   *)
FreshStart == current = None /\ queue # <<>> => pos = BEFORE_STOP

(* What get_miss answers is at all times exactly the part of the accepted  *)
(* mission that has not been completed: no command is lost, repeated or    *)
(* executed out of order, however set_miss, app_miss and frames interleave *)
MissionOrder ==
    /\ completed =< Len(accepted)
    /\ obj_remaining = SubSeq(accepted, completed + 1, Len(accepted))

(* pos agrees with the road: a command believes to be before its stopline  *)
(* exactly as long as the taxi has passed no line since it began.          *)
PosMatchesRoad == current # None => (pos = BEFORE_STOP <=> lines = 0)

(* A command finishes only after a stopline that the camera has tracked to *)
(* the bottom of the picture ("registreras en passering").                 *)
FinishNeedsLine == [][completed' > completed => lines' >= 1]_vars

(* A command whose line is far follows both lane lines: no option of its   *)
(* own or of an earlier command is still in force.                         *)
OptionsOnlyAtLine ==
    current # None /\ pos = BEFORE_STOP /\ ~stop_valid => opt = None

(* A command that ends, or goes on, at a distance from its line is lost:   *)
(* the odometer wraps within that distance, or has wrapped, and the taxi   *)
(* went on to the next line.                                               *)
Lost ==
    /\ current \in {"park", "entr", "cont", "exit"} /\ pos >= AFTER_STOP
    /\ top < Past80cm \/ lines > 1

(* A mission ends: every command in turn reaches its line and finishes,    *)
(* unless the remote takes over or the odometer wraps in the middle of a   *)
(* command that waits for a distance, which then may never end.  None      *)
(* waits for a distance while it has the taxi stand still.                 *)
MissionEnds == obj_remaining # <<>> ~> (obj_remaining = <<>> \/ ~active \/ Lost)
=============================================================================

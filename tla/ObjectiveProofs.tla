-------------------------- MODULE ObjectiveProofs --------------------------
(***************************************************************************)
(* Proofs about the mission handler, for every set of missions and every   *)
(* number of requests.                                                     *)
(***************************************************************************)
EXTENDS Objective, SequenceTheorems, TLAPS

(* What the command functions read. *)
CmdState ==
    [visible : BOOLEAN, last : BOOLEAN, pos : Nat \ {0}, late : BOOLEAN,
     dist : Levels, driven : Levels]

(* What they may leave behind when called at position p: pos never goes    *)
(* back, never leaves BEFORE_STOP by itself, and the command finishes only *)
(* past its stopline.  An option set before the line needs a visible line. *)
GoodResult(r, s) ==
    /\ r.finished \in BOOLEAN
    /\ r.pos \in Nat /\ r.pos >= s.pos
    /\ r.pos = BEFORE_STOP <=> s.pos = BEFORE_STOP
    /\ r.finished => s.pos >= AFTER_STOP
    /\ r.vel \in {"stop", "approach", "slow", "full"}
    /\ r.rot \in {"lane", "left", "right"}
    /\ r.opt \in {None, "left", "right"}
    /\ s.pos = BEFORE_STOP /\ ~s.visible => r.opt = None

USE DEF BEFORE_STOP, AFTER_STOP

(* The same, said of the pieces of a result. *)
LEMMA ResultGood ==
    ASSUME NEW s, NEW fin \in BOOLEAN, NEW p \in Nat, p >= s.pos,
           p = BEFORE_STOP <=> s.pos = BEFORE_STOP,
           fin => s.pos >= AFTER_STOP,
           NEW v \in {"stop", "approach", "slow", "full"},
           NEW r \in {"lane", "left", "right"},
           NEW o \in {None, "left", "right"},
           s.pos = BEFORE_STOP /\ ~s.visible => o = None
    PROVE  GoodResult(Result(fin, p, v, r, o), s)
  <1> DEFINE R == Result(fin, p, v, r, o)
  <1>1. R.finished = fin
    BY DEF Result
  <1>2. R.pos = p
    BY DEF Result
  <1>3. R.vel = v
    BY DEF Result
  <1>4. R.rot = r
    BY DEF Result
  <1>5. R.opt = o
    BY DEF Result
  <1> HIDE DEF R
  <1>6. GoodResult(R, s)
    BY <1>1, <1>2, <1>3, <1>4, <1>5 DEF GoodResult
  <1>7. QED
    BY <1>6 DEF R

(* Every command function keeps to that. *)
LEMMA FuncResult ==
    ASSUME NEW c \in Cmds, NEW s \in CmdState
    PROVE  GoodResult(func(c, s), s)
  <1>1. /\ s.pos \in Nat \ {0} /\ s.visible \in BOOLEAN /\ s.last \in BOOLEAN
        /\ s.late \in BOOLEAN /\ s.dist \in Levels
    BY DEF CmdState
  <1>2. ASSUME NEW v \in {"stop", "approach", "slow", "full"},
               NEW r \in {"lane", "left", "right"}, NEW o \in {None, "left", "right"},
               NEW p \in Nat, p >= s.pos, p = BEFORE_STOP <=> s.pos = BEFORE_STOP,
               s.pos = BEFORE_STOP /\ ~s.visible => o = None
        PROVE  GoodResult(Result(FALSE, p, v, r, o), s)
    BY <1>1, <1>2, ResultGood, Zenon
  <1>3. ASSUME NEW v \in {"stop", "approach", "slow", "full"},
               NEW r \in {"lane", "left", "right"}, NEW o \in {None, "left", "right"},
               s.pos >= AFTER_STOP
        PROVE  GoodResult(Result(TRUE, s.pos, v, r, o), s)
    <2>1. s.pos \in Nat /\ s.pos >= s.pos /\ s.pos # BEFORE_STOP
      BY <1>1, <1>3
    <2>2. QED
      BY <1>3, <2>1, ResultGood, Zenon
  <1> DEFINE Busy(v, r, o) == Result(FALSE, s.pos, v, r, o)
             Done(v, r, o) == Result(TRUE, s.pos, v, r, o)
  <1>4. s.pos \in Nat /\ s.pos >= s.pos
    BY <1>1
  <1>5. GoodResult(Busy("full", "lane", None), s) /\ GoodResult(Busy("approach", "lane", None), s)
    BY <1>2, <1>4
  <1>6. ASSUME s.pos >= AFTER_STOP
        PROVE  /\ GoodResult(Done("full", "lane", None), s)
               /\ GoodResult(Done("stop", "lane", None), s)
               /\ GoodResult(Busy("stop", "lane", None), s)
    BY <1>2, <1>3, <1>4, <1>6
  <1>7. ASSUME s.pos >= AFTER_STOP \/ s.visible, NEW o \in {"left", "right"},
               NEW v \in {"full", "slow"}, NEW r \in {"lane", "left", "right"}
        PROVE  GoodResult(Busy(v, r, o), s)
    <2>1. ~(s.pos = BEFORE_STOP /\ ~s.visible)
      BY <1>1, <1>7
    <2>2. QED
      BY <1>2, <1>4, <2>1
  <1>8. GoodResult(Drive(s, FALSE), s) /\ GoodResult(Drive(s, s.pos >= AFTER_STOP), s)
    <2>1. CASE s.pos >= AFTER_STOP
      <3>1. (s.pos >= AFTER_STOP) = TRUE
        BY <2>1, Zenon
      <3>2. Drive(s, s.pos >= AFTER_STOP) = Done("full", "lane", None)
        BY <3>1, Zenon DEF Drive
      <3>3. QED
        BY <1>5, <1>6, <2>1, <3>2, Zenon DEF Drive
    <2>2. CASE ~(s.pos >= AFTER_STOP)
      <3>1. (s.pos >= AFTER_STOP) = FALSE
        BY <1>1, <2>2, SMT
      <3>2. Drive(s, s.pos >= AFTER_STOP) = Busy("full", "lane", None)
        BY <3>1, Zenon DEF Drive
      <3>3. QED
        BY <1>5, <3>2, Zenon DEF Drive
    <2>3. QED
      BY <2>1, <2>2
  <1>9. GoodResult(cmd_ignore(s), s)
    BY <1>8 DEF cmd_ignore
  <1> HIDE DEF Busy, Done
  <1>10. GoodResult(cmd_stop(s), s)
    <2>1. CASE s.pos = BEFORE_STOP /\ s.visible
      BY <1>5, <2>1, Zenon DEF cmd_stop, Busy
    <2>2. CASE s.pos >= AFTER_STOP
      <3>1. s.pos # BEFORE_STOP
        BY <1>1, <2>2
      <3>2. cmd_stop(s) = Result(s.last \/ s.late, s.pos, "stop", "lane", None)
        BY <2>2, <3>1, Zenon DEF cmd_stop
      <3>3. CASE s.last \/ s.late
        <4>1. (s.last \/ s.late) = TRUE
          BY <3>3, Zenon
        <4>2. QED
          BY <1>6, <2>2, <3>2, <4>1, Zenon DEF Done
      <3>4. CASE ~(s.last \/ s.late)
        <4>1. (s.last \/ s.late) = FALSE
          BY <3>4, Zenon
        <4>2. QED
          BY <1>6, <2>2, <3>2, <4>1, Zenon DEF Busy
      <3>5. QED
        BY <3>3, <3>4
    <2>3. CASE ~(s.pos = BEFORE_STOP /\ s.visible) /\ ~(s.pos >= AFTER_STOP)
      BY <1>8, <2>3, Zenon DEF cmd_stop
    <2>4. QED
      BY <2>1, <2>2, <2>3
  <1>11. GoodResult(cmd_park(s), s)
    <2>1. CASE s.pos = BEFORE_STOP
      <3>1. s.pos # AFTER_STOP /\ s.pos # PARKED /\ s.pos # UNPARKING
        BY <2>1 DEF PARKED, UNPARKING
      <3>2. cmd_park(s) = Result(FALSE, s.pos, "full", "lane", IF s.visible THEN "left" ELSE None)
        BY <2>1, <3>1, Zenon DEF cmd_park
      <3>3. CASE s.visible
        BY <1>7, <3>2, <3>3, Zenon DEF Busy
      <3>4. CASE ~s.visible
        BY <1>5, <3>2, <3>4, Zenon DEF Busy
      <3>5. QED
        BY <3>3, <3>4
    <2>2. CASE s.pos = AFTER_STOP
      <3>1. /\ s.pos >= AFTER_STOP /\ PARKED \in Nat /\ PARKED >= s.pos
            /\ PARKED # BEFORE_STOP /\ s.pos # BEFORE_STOP
            /\ s.pos # PARKED /\ s.pos # UNPARKING
        BY <2>2 DEF PARKED, UNPARKING
      <3>2. GoodResult(Done("slow", "lane", "left"), s)
        BY <1>3, <3>1, Zenon DEF Done
      <3>3. GoodResult(Result(FALSE, PARKED, "slow", "lane", "left"), s)
        BY <1>2, <3>1, Zenon
      <3>4. GoodResult(Busy("slow", "right", "left"), s) /\ GoodResult(Busy("slow", "lane", "left"), s)
        BY <1>7, <3>1, Zenon
      <3>5. cmd_park(s) = IF s.dist < Past40cm THEN Busy("slow", "right", "left")
                          ELSE IF s.dist < Past80cm THEN Busy("slow", "lane", "left")
                          ELSE IF s.last THEN Done("slow", "lane", "left")
                          ELSE Result(FALSE, PARKED, "slow", "lane", "left")
        BY <2>2, <3>1, Zenon DEF cmd_park, Busy, Done
      <3>6. QED
        BY <3>2, <3>3, <3>4, <3>5, Zenon
    <2>3. CASE s.pos = PARKED
      <3>1. /\ s.pos >= AFTER_STOP /\ UNPARKING \in Nat /\ UNPARKING >= s.pos
            /\ UNPARKING # BEFORE_STOP /\ s.pos # BEFORE_STOP
            /\ s.pos # AFTER_STOP /\ s.pos # UNPARKING
        BY <2>3 DEF PARKED, UNPARKING
      <3>2. GoodResult(Result(FALSE, UNPARKING, "stop", "lane", None), s)
        BY <1>2, <3>1, Zenon
      <3>3. GoodResult(Busy("stop", "lane", None), s)
        BY <1>6, <3>1, Zenon
      <3>4. cmd_park(s) = Result(FALSE, IF s.late THEN UNPARKING ELSE s.pos, "stop", "lane", None)
        BY <2>3, <3>1, Zenon DEF cmd_park
      <3>5. QED
        BY <3>2, <3>3, <3>4, Zenon DEF Busy
    <2>4. CASE s.pos = UNPARKING
      <3>1. /\ s.pos >= AFTER_STOP /\ s.pos # BEFORE_STOP
            /\ s.pos # AFTER_STOP /\ s.pos # PARKED
        BY <2>4 DEF PARKED, UNPARKING
      <3>2. GoodResult(Done("full", "lane", "left"), s)
        BY <1>3, <3>1, Zenon DEF Done
      <3>3. GoodResult(Busy("full", "left", "left"), s)
        BY <1>7, <3>1, Zenon
      <3>4. cmd_park(s) = IF s.dist < Past25cm THEN Busy("full", "left", "left")
                          ELSE Done("full", "lane", "left")
        BY <2>4, <3>1, Zenon DEF cmd_park, Busy, Done
      <3>5. QED
        BY <3>2, <3>3, <3>4, Zenon
    <2>5. CASE s.pos \notin {BEFORE_STOP, AFTER_STOP, PARKED, UNPARKING}
      BY <1>8, <2>5, Zenon DEF cmd_park
    <2>6. QED
      BY <2>1, <2>2, <2>3, <2>4, <2>5
  <1>12. ASSUME NEW level, NEW o \in {"left", "right"}
         PROVE  GoodResult(Follow(s, level, o), s)
    <2>1. CASE s.pos >= AFTER_STOP /\ s.dist < level
      BY <1>7, <2>1, Zenon DEF Follow, Busy
    <2>2. CASE ~(s.pos >= AFTER_STOP /\ s.dist < level)
      BY <1>8, <2>2, Zenon DEF Follow
    <2>3. QED
      BY <2>1, <2>2
  <1>13. GoodResult(cmd_enter(s), s)
    BY <1>12 DEF cmd_enter
  <1>14. ASSUME s.pos = BEFORE_STOP /\ s.visible, NEW o \in {"left", "right"}
         PROVE  GoodResult(Busy("full", "lane", o), s)
    BY <1>7, <1>14
  <1>15. GoodResult(cmd_continue(s), s)
    BY <1>12, <1>14, Zenon DEF cmd_continue, Busy
  <1>16. GoodResult(cmd_exit(s), s)
    BY <1>12, <1>14, Zenon DEF cmd_exit, Busy
  <1>17. QED
    BY <1>9, <1>10, <1>11, <1>13, <1>15, <1>16 DEF func, Cmds

(***************************************************************************)
(* What a frame does.                                                      *)
(***************************************************************************)

(* The fetch takes the head of a list of commands and nothing else. *)
LEMMA FetchTyped ==
    ASSUME TypeOK
    PROVE  /\ Fetched \in Cmds \union {None}
           /\ Rest \in Seq(Cmds)
           /\ Fetched = None => current = None /\ queue = <<>> /\ Rest = queue
           /\ Fetched # None /\ current = None => queue # <<>>
  <1>1. current \in Cmds \union {None} /\ queue \in Seq(Cmds)
    BY DEF TypeOK
  <1>2. CASE current = None /\ queue # <<>>
    <2>1. Head(queue) \in Cmds /\ Tail(queue) \in Seq(Cmds)
      BY <1>1, <1>2
    <2>2. None \notin Cmds
      BY DEF None, Cmds
    <2>3. QED
      BY <1>2, <2>1, <2>2 DEF Fetched, Rest
  <1>3. CASE ~(current = None /\ queue # <<>>)
    BY <1>1, <1>3 DEF Fetched, Rest
  <1>4. QED
    BY <1>2, <1>3

(* struct state is filled in with what the frame shows. *)
LEMMA StateTyped ==
    ASSUME TypeOK, NEW visible \in BOOLEAN, NEW passed \in BOOLEAN, NEW l \in BOOLEAN,
           NEW d \in Levels, NEW read \in Levels
    PROVE  /\ StateOf(visible, passed, l, d, read) \in CmdState
           /\ StateOf(visible, passed, l, d, read).visible = visible
           /\ passed => StateOf(visible, passed, l, d, read).pos = pos + 1
           /\ ~passed => StateOf(visible, passed, l, d, read).pos = pos
  <1> DEFINE p == IF passed THEN pos + 1 ELSE pos
             b == IF passed THEN FALSE ELSE l
             k == IF passed THEN 0 ELSE read
             f == IF passed THEN 0 ELSE d
             e == (Rest = <<>>)
  <1>1. p \in Nat \ {0}
    BY DEF TypeOK
  <1>2. b \in BOOLEAN /\ e \in BOOLEAN
    BY Zenon
  <1>3. k \in Levels /\ f \in Levels
    BY DEF Levels
  <1>4. StateOf(visible, passed, l, d, read)
          = [visible |-> visible, last |-> e, pos |-> p, late |-> b, dist |-> k, driven |-> f]
    BY Zenon DEF StateOf
  <1>5. (passed => p = pos + 1) /\ (~passed => p = pos)
    OBVIOUS
  <1> HIDE DEF p, b, k, f, e
  <1>6. QED
    BY <1>1, <1>2, <1>3, <1>4, <1>5 DEF CmdState

(* The inputs of a frame. *)
LEMMA FrameInputs ==
    ASSUME TypeOK, AnyFrame
    PROVE  \E empty, visible, passed, l \in BOOLEAN, d, read \in Levels :
              obj_execute(empty, visible, passed, l, d, read)
  <1>1. PICK d \in Driven : \E read \in Reading(d), empty, visible, passed, l \in BOOLEAN :
                               obj_execute(empty, visible, passed, l, d, read)
    BY Zenon DEF AnyFrame
  <1>2. d \in Levels
    BY <1>1 DEF Driven, Levels, Past80cm, TypeOK
  <1>3. Reading(d) \subseteq Levels
    BY <1>2 DEF Reading, Levels, TypeOK
  <1>4. QED
    BY <1>1, <1>2, <1>3, Zenon

(* A command that finishes leaves pos at BEFORE_STOP, however many lines   *)
(* it has passed.                                                          *)
LEMMA FinishedPos ==
    ASSUME NEW p \in Nat, p >= AFTER_STOP
    PROVE  PosAfterFinish(p) = BEFORE_STOP
  BY DEF PosAfterFinish

(* The invariant that the other properties rest on. *)
ObjInv == TypeOK /\ FreshStart

(* Running the fetched command keeps it. *)
LEMMA RunInvariant ==
    ASSUME ObjInv, NEW visible \in BOOLEAN, NEW passed \in BOOLEAN, NEW l \in BOOLEAN,
           NEW d \in Levels, NEW read \in Levels, Fetched # None,
           RunCommand(StateOf(visible, passed, l, d, read))
    PROVE  /\ pos' \in Nat /\ pos' >= BEFORE_STOP
           /\ late' \in BOOLEAN /\ dist' \in Levels /\ top' \in Levels
           /\ current' \in Cmds \union {None} /\ current' \in {Fetched, None}
           /\ current' = None => pos' = BEFORE_STOP /\ completed' = completed + 1
                                 /\ (passed \/ pos >= AFTER_STOP)
           /\ current' # None => completed' = completed /\ (pos' = BEFORE_STOP <=> ~passed /\ pos = BEFORE_STOP)
           /\ current' # None /\ pos' = BEFORE_STOP /\ ~visible => opt' = None
           /\ vel' \in {"stop", "approach", "slow", "full"}
           /\ rot' \in {"lane", "left", "right"}
           /\ opt' \in {None, "left", "right"}
  <1> DEFINE s == StateOf(visible, passed, l, d, read)
             r == func(Fetched, s)
  <1>1. s \in CmdState /\ s.visible = visible /\ (passed => s.pos = pos + 1) /\ (~passed => s.pos = pos)
    <2>1. TypeOK
      BY DEF ObjInv
    <2> HIDE DEF s
    <2>2. s = StateOf(visible, passed, l, d, read)
      BY DEF s
    <2>3. QED
      BY <2>1, <2>2, StateTyped, SMT
  <1>2. Fetched \in Cmds
    BY FetchTyped DEF ObjInv
  <1>3. GoodResult(r, s)
    BY <1>1, <1>2, FuncResult, Zenon
  <1>4. /\ vel' = r.vel
        /\ rot' = r.rot
        /\ opt' = r.opt
        /\ late' = (IF r.pos = s.pos THEN s.late ELSE FALSE)
        /\ dist' = (IF r.pos = s.pos THEN s.driven ELSE 0)
        /\ top' \in Tops(r.pos)
        /\ pos' = (IF r.finished THEN PosAfterFinish(r.pos) ELSE r.pos)
        /\ current' = (IF r.finished THEN None ELSE Fetched)
        /\ completed' = (IF r.finished THEN completed + 1 ELSE completed)
    BY Zenon DEF RunCommand
  <1>5. pos \in Nat /\ pos >= BEFORE_STOP
    BY DEF ObjInv, TypeOK
  <1> HIDE DEF r, s
  <1>6. s.late \in BOOLEAN /\ s.driven \in Levels /\ s.pos \in Nat /\ s.pos >= BEFORE_STOP
    BY <1>1 DEF CmdState
  <1>7. late' \in BOOLEAN
    BY <1>4, <1>6, Zenon
  <1>8. dist' \in Levels /\ top' \in Levels
    BY <1>4, <1>6, ObjectiveAssumption DEF Levels, Tops, ObjInv, TypeOK
  <1>9. r.pos \in Nat /\ r.pos >= s.pos /\ (r.pos = BEFORE_STOP <=> s.pos = BEFORE_STOP)
    BY <1>3 DEF GoodResult
  <1>10. vel' \in {"stop", "approach", "slow", "full"} /\ rot' \in {"lane", "left", "right"}
         /\ opt' \in {None, "left", "right"}
    BY <1>3, <1>4, Zenon DEF GoodResult
  <1>11. None \notin Cmds
    BY DEF None, Cmds
  <1>12. CASE r.finished
    <2>1. s.pos >= AFTER_STOP
      BY <1>3, <1>12, Zenon DEF GoodResult
    <2>2. PosAfterFinish(r.pos) = BEFORE_STOP
      BY <1>6, <1>9, <2>1, FinishedPos
    <2>3. pos' = BEFORE_STOP /\ current' = None /\ completed' = completed + 1
      BY <1>4, <1>12, <2>2, Zenon
    <2>4. passed \/ pos >= AFTER_STOP
      BY <1>1, <2>1, Zenon
    <2>5. pos' \in Nat /\ pos' >= BEFORE_STOP
      BY <2>3
    <2>6. QED
      BY <1>7, <1>8, <1>10, <2>3, <2>4, <2>5, Zenon
  <1>13. CASE ~r.finished
    <2>1. pos' = r.pos /\ current' = Fetched /\ completed' = completed
      BY <1>4, <1>13, Zenon
    <2>2. pos' \in Nat /\ pos' >= BEFORE_STOP
      BY <1>6, <1>9, <2>1
    <2>3. s.pos = BEFORE_STOP <=> ~passed /\ pos = BEFORE_STOP
      <3>1. CASE passed
        BY <1>1, <1>5, <3>1
      <3>2. CASE ~passed
        BY <1>1, <3>2, Zenon
      <3>3. QED
        BY <3>1, <3>2
    <2>4. pos' = BEFORE_STOP /\ ~visible => opt' = None
      BY <1>1, <1>3, <1>4, <1>9, <2>1, Zenon DEF GoodResult
    <2>5. current' # None
      BY <1>2, <1>11, <2>1
    <2>6. QED
      BY <1>2, <1>7, <1>8, <1>9, <1>10, <2>1, <2>2, <2>3, <2>4, <2>5, Zenon
  <1>14. QED
    BY <1>12, <1>13

(* A frame keeps it. *)
LEMMA ExecuteInvariant ==
    ASSUME ObjInv, NEW empty \in BOOLEAN, NEW visible \in BOOLEAN, NEW passed \in BOOLEAN,
           NEW l \in BOOLEAN, NEW d \in Levels, NEW read \in Levels, obj_execute(empty, visible, passed, l, d, read)
    PROVE  ObjInv'
  <1> DEFINE s == StateOf(visible, passed, l, d, read)
  <1>1. TypeOK /\ FreshStart
    BY DEF ObjInv
  <1>2. /\ mpc' \in {"check", "execute"} /\ queue' = Rest
        /\ lines' = (IF current = None THEN 0 ELSE lines) + (IF passed /\ ~empty THEN 1 ELSE 0)
        /\ IF Fetched = None THEN Idle(s) ELSE RunCommand(s)
        /\ Frame(empty, visible, passed)
        /\ UNCHANGED <<active, requests, accepted>>
    BY Zenon DEF obj_execute
  <1>3. active' \in BOOLEAN /\ requests' \in 0 .. MaxRequests /\ accepted' \in Seq(Cmds)
    BY <1>1, <1>2, Zenon DEF TypeOK
  <1>4. queue' \in Seq(Cmds)
    BY <1>1, <1>2, FetchTyped, Zenon
  <1>5. stop_valid' \in BOOLEAN
    BY <1>1, <1>2, Zenon DEF Frame, TypeOK
  <1>6. lines' \in Nat
    BY <1>1, <1>2 DEF TypeOK
  <1>7. s \in CmdState
    BY <1>1, StateTyped, Zenon
  <1> DEFINE Stepped == /\ current' \in Cmds \union {None} /\ pos' \in Nat /\ pos' >= BEFORE_STOP
                      /\ late' \in BOOLEAN /\ dist' \in Levels /\ top' \in Levels
                      /\ opt' \in {None, "left", "right"} /\ rot' \in {"lane", "left", "right"}
                      /\ vel' \in {"stop", "approach", "slow", "full"}
                      /\ completed' \in Nat
                      /\ (current' = None /\ queue' # <<>> => pos' = BEFORE_STOP)
  <1>8. ASSUME Fetched = None PROVE Stepped
    <2>1. Idle(s) /\ queue' = <<>>
      BY <1>1, <1>2, <1>8, FetchTyped, Zenon
    <2> HIDE DEF s
    <2>2. pos' \in Nat /\ pos' >= BEFORE_STOP
      BY <1>7, <2>1 DEF Idle, CmdState
    <2>3. late' \in BOOLEAN /\ dist' \in Levels /\ top' \in Levels
      BY <1>1, <1>7, <2>1, ObjectiveAssumption DEF Idle, CmdState, Tops, TypeOK
    <2>4. QED
      BY <1>1, <2>1, <2>2, <2>3, Zenon DEF Idle, TypeOK
  <1>9. ASSUME Fetched # None PROVE Stepped
    <2>1. RunCommand(s)
      BY <1>2, <1>9, Zenon
    <2>2. completed' \in {completed, completed + 1}
      BY <1>9, <2>1, RunInvariant, Zenon
    <2>3. completed' \in Nat
      BY <1>1, <2>2 DEF TypeOK
    <2>4. QED
      BY <1>9, <2>1, <2>3, RunInvariant, Zenon
  <1>10. Stepped
    BY <1>8, <1>9, Zenon
  <1>11. TypeOK'
    BY <1>2, <1>3, <1>4, <1>5, <1>6, <1>10, Zenon DEF TypeOK
  <1>12. FreshStart'
    BY <1>10, Zenon DEF FreshStart
  <1>13. QED
    BY <1>11, <1>12 DEF ObjInv

(* A mission that queue_create accepts is a list of commands. *)
LEMMA ValidTyped ==
    ASSUME NEW m \in Missions, Valid(m)
    PROVE  m \in Seq(Cmds)
  <1>1. m \in Seq(STRING)
    BY ObjectiveAssumption
  <1>2. QED
    BY <1>1 DEF Valid

(* A request of the remote keeps it. *)
LEMMA ServerInvariant ==
    ASSUME ObjInv, Server
    PROVE  ObjInv'
  <1>1. TypeOK /\ FreshStart
    BY DEF ObjInv
  <1>2. requests' \in 0 .. MaxRequests
    <2>1. Request
      BY Zenon DEF Server, SetMission, AppendMission, RefuseMission, obj_set_state
    <2>2. QED
      BY <1>1, <2>1, ObjectiveAssumption DEF Request, TypeOK
  <1>3. ASSUME Restart
        PROVE  /\ pos' \in Nat /\ pos' >= BEFORE_STOP /\ pos' = BEFORE_STOP
               /\ late' \in BOOLEAN /\ dist' \in Levels /\ top' \in Levels
               /\ stop_valid' \in BOOLEAN /\ opt' \in {None, "left", "right"}
    <2>1. pos' \in Nat /\ pos' >= BEFORE_STOP
      BY <1>3 DEF Restart
    <2>2. Past80cm \in Levels
      BY DEF Past80cm, Levels
    <2>3. QED
      BY <1>3, <2>1, <2>2, Zenon DEF Restart
  <1>4. ASSUME NEW m \in Missions, SetMission(m)
        PROVE  ObjInv'
    <2>1. m \in Seq(Cmds) /\ Restart
      BY <1>4, ValidTyped, Zenon DEF SetMission
    <2>2. current' = None /\ queue' = m /\ accepted' = m /\ completed' \in Nat /\ lines' \in Nat
      BY <1>4 DEF SetMission
    <2>3. TypeOK'
      BY <1>1, <1>2, <1>3, <1>4, <2>1, <2>2, Zenon DEF TypeOK, SetMission
    <2>4. QED
      BY <1>3, <2>1, <2>3, Zenon DEF ObjInv, FreshStart
  <1>5. ASSUME NEW m \in Missions, AppendMission(m)
        PROVE  ObjInv'
    <2>1. m \in Seq(Cmds) /\ Restart
      BY <1>5, ValidTyped, Zenon DEF AppendMission
    <2>2. queue' \in Seq(Cmds) /\ accepted' \in Seq(Cmds)
      BY <1>1, <1>5, <2>1 DEF AppendMission, TypeOK
    <2>3. TypeOK'
      BY <1>1, <1>2, <1>3, <1>5, <2>1, <2>2, Zenon DEF TypeOK, AppendMission
    <2>4. QED
      BY <1>3, <2>1, <2>3, Zenon DEF ObjInv, FreshStart
  <1>6. ASSUME NEW m \in Missions, RefuseMission(m)
        PROVE  ObjInv'
    BY <1>1, <1>2, <1>6, Zenon DEF ObjInv, TypeOK, FreshStart, RefuseMission, cmdvars, outputs, history
  <1>7. ASSUME NEW state \in BOOLEAN, obj_set_state(state)
        PROVE  ObjInv'
    BY <1>1, <1>2, <1>7, Zenon DEF ObjInv, TypeOK, FreshStart, obj_set_state, cmdvars, outputs, history
  <1>8. QED
    BY <1>4, <1>5, <1>6, <1>7 DEF Server

(* Every step keeps it. *)
LEMMA NextInvariant ==
    ASSUME ObjInv, [Next]_vars
    PROVE  ObjInv'
  <1>1. CASE Server
    BY <1>1, ServerInvariant
  <1>2. CASE obj_active
    BY <1>2, Zenon DEF ObjInv, TypeOK, FreshStart, obj_active, cmdvars, outputs, history
  <1>3. CASE UNCHANGED vars
    BY <1>3, Zenon DEF ObjInv, TypeOK, FreshStart, vars, cmdvars, outputs, history
  <1>4. ASSUME NEW empty \in BOOLEAN, NEW visible \in BOOLEAN, NEW passed \in BOOLEAN,
               NEW l \in BOOLEAN, NEW d \in Levels, NEW read \in Levels, obj_execute(empty, visible, passed, l, d, read)
        PROVE  ObjInv'
    BY <1>4, ExecuteInvariant
  <1>5. QED
    BY <1>1, <1>2, <1>3, <1>4, FrameInputs DEF Next, Main, ManualTurn, ObjInv

(* The invariant holds, on any road and whatever the remote does. *)
THEOREM ObjInvariant == Spec => []ObjInv
  <1>1. Init => ObjInv
    <2> SUFFICES ASSUME Init PROVE ObjInv
      OBVIOUS
    <2>1. pos \in Nat /\ pos >= BEFORE_STOP /\ requests \in 0 .. MaxRequests
          /\ completed \in Nat /\ lines \in Nat /\ queue \in Seq(Cmds) /\ accepted \in Seq(Cmds)
          /\ top \in Levels
      BY ObjectiveAssumption DEF Init, Levels, Past80cm
    <2>2. QED
      BY <2>1, Zenon DEF Init, ObjInv, TypeOK, FreshStart
  <1>2. ObjInv /\ [Next]_vars => ObjInv'
    BY NextInvariant
  <1>3. QED
    BY <1>1, <1>2, PTL DEF Spec

(* Type correctness of the mission handler. *)
THEOREM TypeCorrect == Spec => []TypeOK
  <1>1. ObjInv => TypeOK
    BY DEF ObjInv
  <1>2. QED
    BY <1>1, ObjInvariant, PTL

(* Whenever the next frame takes a new command, pos is BEFORE_STOP:        *)
(* obj_execute finishes a command only past its line and then undoes all   *)
(* changes of pos, and obj_set_mission resets pos whenever it makes the    *)
(* list non-empty.                                                         *)
THEOREM StartsFresh == Spec => []FreshStart
  <1>1. ObjInv => FreshStart
    BY DEF ObjInv
  <1>2. QED
    BY <1>1, ObjInvariant, PTL

(***************************************************************************)
(* The mission list.                                                       *)
(***************************************************************************)

(* q is what remains of a when n elements have been taken. *)
Remains(q, a, n) == n =< Len(a) /\ q = SubSeq(a, n + 1, Len(a))

(* The same, element by element. *)
LEMMA RemainsElements ==
    ASSUME NEW q \in Seq(Cmds), NEW a \in Seq(Cmds), NEW n \in Nat
    PROVE  Remains(q, a, n) <=> /\ Len(q) = Len(a) - n
                                /\ \A i \in 1 .. Len(q) : q[i] = a[n + i]
  <1>1. ASSUME Remains(q, a, n)
        PROVE  Len(q) = Len(a) - n /\ \A i \in 1 .. Len(q) : q[i] = a[n + i]
    <2>1. n =< Len(a) /\ q = SubSeq(a, n + 1, Len(a))
      BY <1>1 DEF Remains
    <2>2. Len(q) = Len(a) - n
      BY <2>1
    <2>3. ASSUME NEW i \in 1 .. Len(q) PROVE q[i] = a[n + i]
      BY <2>1, <2>2
    <2>4. QED
      BY <2>2, <2>3
  <1>2. ASSUME Len(q) = Len(a) - n, \A i \in 1 .. Len(q) : q[i] = a[n + i]
        PROVE  Remains(q, a, n)
    <2> DEFINE t == SubSeq(a, n + 1, Len(a))
    <2>1. n =< Len(a)
      BY <1>2
    <2>2. t \in Seq(Cmds) /\ Len(t) = Len(q) /\ \A i \in 1 .. Len(q) : t[i] = q[i]
      BY <1>2, <2>1
    <2> HIDE DEF t
    <2>3. t = q
      BY <2>2, SeqEqual
    <2>4. QED
      BY <2>1, <2>3 DEF Remains, t
  <1>3. QED
    BY <1>1, <1>2

(* Finishing the first command of the rest. *)
LEMMA RemainsTail ==
    ASSUME NEW q \in Seq(Cmds), NEW a \in Seq(Cmds), NEW n \in Nat, Remains(q, a, n), q # <<>>
    PROVE  Remains(Tail(q), a, n + 1)
  <1>1. Len(q) = Len(a) - n /\ \A i \in 1 .. Len(q) : q[i] = a[n + i]
    BY RemainsElements
  <1>2. /\ Tail(q) \in Seq(Cmds) /\ Len(Tail(q)) = Len(q) - 1 /\ n + 1 \in Nat
        /\ \A i \in 1 .. Len(Tail(q)) : Tail(q)[i] = q[i + 1]
    BY DEF Remains
  <1>3. Len(Tail(q)) = Len(a) - (n + 1) /\ \A i \in 1 .. Len(Tail(q)) : Tail(q)[i] = a[(n + 1) + i]
    BY <1>1, <1>2
  <1>4. QED
    BY <1>2, <1>3, RemainsElements

(* Extending both. *)
LEMMA RemainsAppend ==
    ASSUME NEW q \in Seq(Cmds), NEW a \in Seq(Cmds), NEW m \in Seq(Cmds), NEW n \in Nat,
           Remains(q, a, n)
    PROVE  Remains(q \o m, a \o m, n)
  <1>1. Len(q) = Len(a) - n /\ \A i \in 1 .. Len(q) : q[i] = a[n + i]
    BY RemainsElements
  <1>2. /\ q \o m \in Seq(Cmds) /\ Len(q \o m) = Len(q) + Len(m)
        /\ a \o m \in Seq(Cmds) /\ Len(a \o m) = Len(a) + Len(m)
    OBVIOUS
  <1>3. ASSUME NEW i \in 1 .. Len(q \o m)
        PROVE  (q \o m)[i] = (a \o m)[n + i]
    BY <1>1, <1>2
  <1>4. Len(q \o m) = Len(a \o m) - n
    BY <1>1, <1>2
  <1>5. QED
    BY <1>2, <1>3, <1>4, RemainsElements, Zenon

(* Fetching moves the head of the list into current: get_miss sees no      *)
(* difference.                                                             *)
LEMMA FetchRemaining ==
    ASSUME TypeOK, Fetched # None
    PROVE  obj_remaining = <<Fetched>> \o Rest
  <1>1. queue \in Seq(Cmds)
    BY DEF TypeOK
  <1>2. CASE current = None
    <2>1. queue # <<>>
      BY <1>2, FetchTyped
    <2>2. queue = <<Head(queue)>> \o Tail(queue)
      BY <1>1, <2>1
    <2>3. QED
      BY <1>2, <2>1, <2>2, Zenon DEF obj_remaining, Fetched, Rest
  <1>3. CASE current # None
    BY <1>3, Zenon DEF obj_remaining, Fetched, Rest
  <1>4. QED
    BY <1>2, <1>3

(* A command in front of a list. *)
LEMMA ConsTail ==
    ASSUME NEW c \in Cmds, NEW q \in Seq(Cmds)
    PROVE  /\ <<c>> \o q \in Seq(Cmds) /\ <<c>> \o q # <<>> /\ Tail(<<c>> \o q) = q
  <1>1. <<c>> \in Seq(Cmds) /\ Len(<<c>>) = 1
    OBVIOUS
  <1>2. <<c>> \o q \in Seq(Cmds) /\ Len(<<c>> \o q) = Len(q) + 1
    BY <1>1
  <1>3. Tail(<<c>> \o q) \in Seq(Cmds) /\ Len(Tail(<<c>> \o q)) = Len(q)
    BY <1>2
  <1>4. \A i \in 1 .. Len(q) : Tail(<<c>> \o q)[i] = q[i]
    BY <1>1, <1>2, <1>3
  <1>5. QED
    BY <1>2, <1>3, <1>4, SeqEqual

(* A frame either leaves the rest of the mission alone or completes its    *)
(* first command.                                                          *)
LEMMA ExecuteOrder ==
    ASSUME ObjInv, MissionOrder, NEW empty \in BOOLEAN, NEW visible \in BOOLEAN,
           NEW passed \in BOOLEAN, NEW l \in BOOLEAN, NEW d \in Levels, NEW read \in Levels,
           obj_execute(empty, visible, passed, l, d, read)
    PROVE  MissionOrder'
  <1> DEFINE s == StateOf(visible, passed, l, d, read)
  <1>1. TypeOK /\ accepted \in Seq(Cmds) /\ completed \in Nat /\ accepted' = accepted
    BY DEF ObjInv, TypeOK, obj_execute
  <1>2. queue' = Rest /\ IF Fetched = None THEN Idle(s) ELSE RunCommand(s)
    BY Zenon DEF obj_execute
  <1>3. CASE Fetched = None
    <2>1. UNCHANGED <<current, queue, completed>>
      BY <1>1, <1>2, <1>3, FetchTyped, Zenon DEF Idle
    <2>2. QED
      BY <1>1, <2>1, Zenon DEF MissionOrder, obj_remaining
  <1>4. CASE Fetched # None
    <2>1. Fetched \in Cmds /\ Rest \in Seq(Cmds)
      BY <1>1, <1>4, FetchTyped, Zenon
    <2>2. Remains(<<Fetched>> \o Rest, accepted, completed)
      BY <1>1, <1>4, FetchRemaining, Zenon DEF Remains, MissionOrder
    <2>3. RunCommand(s)
      BY <1>2, <1>4, Zenon
    <2>4. CASE current' = None
      <3>1. completed' = completed + 1 /\ obj_remaining' = Rest
        BY <1>2, <1>4, <2>3, <2>4, RunInvariant, Zenon DEF obj_remaining
      <3>2. <<Fetched>> \o Rest \in Seq(Cmds) /\ <<Fetched>> \o Rest # <<>> /\ Tail(<<Fetched>> \o Rest) = Rest
        BY <2>1, ConsTail, Zenon
      <3>3. Remains(Tail(<<Fetched>> \o Rest), accepted, completed + 1)
        BY <1>1, <2>2, <3>2, RemainsTail, Zenon
      <3>4. QED
        BY <1>1, <3>1, <3>2, <3>3, Zenon DEF Remains, MissionOrder
    <2>5. CASE current' # None
      <3>1. completed' = completed /\ current' = Fetched
        BY <1>4, <2>3, <2>5, RunInvariant, Zenon
      <3>2. obj_remaining' = <<Fetched>> \o Rest
        BY <1>2, <2>5, <3>1, Zenon DEF obj_remaining
      <3>3. QED
        BY <1>1, <2>2, <3>1, <3>2, Zenon DEF Remains, MissionOrder
    <2>6. QED
      BY <2>4, <2>5
  <1>5. QED
    BY <1>3, <1>4

(* set_miss starts the list anew. *)
LEMMA SetOrder ==
    ASSUME ObjInv, NEW m \in Missions, SetMission(m)
    PROVE  MissionOrder'
  <1>1. m \in Seq(Cmds)
    BY ValidTyped DEF SetMission
  <1>2. obj_remaining' = m /\ accepted' = m /\ completed' = 0
    BY Zenon DEF SetMission, obj_remaining
  <1>3. Remains(m, m, 0)
    <2>1. Len(m) = Len(m) - 0 /\ \A i \in 1 .. Len(m) : m[i] = m[0 + i]
      BY <1>1
    <2>2. QED
      BY <1>1, <2>1, RemainsElements
  <1>4. QED
    BY <1>2, <1>3, Zenon DEF Remains, MissionOrder

(* app_miss extends the accepted mission and its rest alike. *)
LEMMA AppendOrder ==
    ASSUME ObjInv, MissionOrder, NEW m \in Missions, AppendMission(m)
    PROVE  MissionOrder'
  <1>1. m \in Seq(Cmds)
    BY ValidTyped DEF AppendMission
  <1>2. /\ current \in Cmds \union {None} /\ queue \in Seq(Cmds) /\ accepted \in Seq(Cmds)
        /\ completed \in Nat
    BY DEF ObjInv, TypeOK
  <1>3. current' = current /\ queue' = queue \o m /\ accepted' = accepted \o m /\ completed' = completed
    BY DEF AppendMission
  <1>4. obj_remaining \in Seq(Cmds) /\ obj_remaining' = obj_remaining \o m
    <2>1. CASE current = None
      BY <1>2, <1>3, <2>1, Zenon DEF obj_remaining
    <2>2. CASE current # None
      <3>1. current \in Cmds
        BY <1>2, <2>2
      <3>2. <<current>> \in Seq(Cmds) /\ <<current>> \o queue \in Seq(Cmds)
        BY <1>2, <3>1
      <3>3. <<current>> \o (queue \o m) = (<<current>> \o queue) \o m
        BY <1>1, <1>2, <3>2, ConcatAssociative
      <3>4. QED
        BY <1>3, <2>2, <3>2, <3>3, Zenon DEF obj_remaining
    <2>3. QED
      BY <2>1, <2>2
  <1>5. Remains(obj_remaining \o m, accepted \o m, completed)
    <2>1. Remains(obj_remaining, accepted, completed)
      BY Zenon DEF Remains, MissionOrder
    <2>2. QED
      BY <1>1, <1>2, <1>4, <2>1, RemainsAppend, Zenon
  <1>6. QED
    BY <1>3, <1>4, <1>5, Zenon DEF Remains, MissionOrder

(* Steps that touch neither the list nor the current command. *)
LEMMA QuietOrder ==
    ASSUME MissionOrder, UNCHANGED <<current, queue, accepted, completed>>
    PROVE  MissionOrder'
  BY Zenon DEF MissionOrder, obj_remaining

(* get_miss answers exactly the commands of the accepted mission that have *)
(* not been completed, in their order, for any missions the remote sends   *)
(* and however its requests interleave with the frames.                    *)
THEOREM MissionKept == Spec => []MissionOrder
  <1>1. Init => MissionOrder
    <2> SUFFICES ASSUME Init PROVE MissionOrder
      OBVIOUS
    <2>1. obj_remaining = <<>> /\ accepted = <<>> /\ completed = 0
      BY Zenon DEF Init, obj_remaining
    <2>2. QED
      BY <2>1 DEF MissionOrder
  <1>2. ObjInv /\ MissionOrder /\ [Next]_vars => MissionOrder'
    <2> SUFFICES ASSUME ObjInv, MissionOrder, [Next]_vars PROVE MissionOrder'
      OBVIOUS
    <2>1. ASSUME NEW m \in Missions, SetMission(m) \/ AppendMission(m)
          PROVE  MissionOrder'
      BY <2>1, SetOrder, AppendOrder
    <2>2. ASSUME NEW m \in Missions, RefuseMission(m)
          PROVE  MissionOrder'
      BY <2>2, QuietOrder DEF RefuseMission, cmdvars, history
    <2>3. ASSUME NEW state \in BOOLEAN, obj_set_state(state)
          PROVE  MissionOrder'
      BY <2>3, QuietOrder DEF obj_set_state, cmdvars, history
    <2>4. CASE obj_active
      BY <2>4, QuietOrder DEF obj_active, cmdvars, history
    <2>5. CASE UNCHANGED vars
      BY <2>5, QuietOrder DEF vars, cmdvars, history
    <2>6. ASSUME NEW empty \in BOOLEAN, NEW visible \in BOOLEAN, NEW passed \in BOOLEAN,
                 NEW l \in BOOLEAN, NEW d \in Levels, NEW read \in Levels, obj_execute(empty, visible, passed, l, d, read)
          PROVE  MissionOrder'
      BY <2>6, ExecuteOrder
    <2>7. QED
      BY <2>1, <2>2, <2>3, <2>4, <2>5, <2>6, FrameInputs
         DEF Next, Server, Main, ManualTurn, ObjInv
  <1>3. QED
    BY <1>1, <1>2, ObjInvariant, PTL DEF Spec

(***************************************************************************)
(* The road, when the camera delivers every frame and the remote does not  *)
(* append to a running command.                                            *)
(***************************************************************************)

(* Before a frame, pos tells how the frame's command stands to its line. *)
LEMMA FrameStart ==
    ASSUME ObjInv, PosMatchesRoad, Fetched # None
    PROVE  pos = BEFORE_STOP <=> (IF current = None THEN 0 ELSE lines) = 0
  <1>1. CASE current = None
    BY <1>1, FetchTyped DEF ObjInv, FreshStart
  <1>2. CASE current # None
    BY <1>2, Zenon DEF PosMatchesRoad
  <1>3. QED
    BY <1>1, <1>2

(* A frame keeps pos and the road in step. *)
LEMMA ExecuteRoad ==
    ASSUME ObjInv, PosMatchesRoad, ~EmptyFrames, NEW empty \in BOOLEAN, NEW visible \in BOOLEAN,
           NEW passed \in BOOLEAN, NEW l \in BOOLEAN, NEW d \in Levels, NEW read \in Levels,
           obj_execute(empty, visible, passed, l, d, read)
    PROVE  /\ PosMatchesRoad'
           /\ completed' > completed => lines' >= 1
           /\ OptionsOnlyAtLine'
  <1> DEFINE s == StateOf(visible, passed, l, d, read)
             k == IF current = None THEN 0 ELSE lines
  <1>1. /\ TypeOK /\ completed \in Nat /\ lines \in Nat /\ pos \in Nat /\ pos >= BEFORE_STOP
    BY DEF ObjInv, TypeOK
  <1>2. ~empty /\ stop_valid' = visible
    BY Zenon DEF obj_execute, Frame
  <1>3. lines' = k + (IF passed /\ ~empty THEN 1 ELSE 0)
    BY Zenon DEF obj_execute
  <1>4. IF Fetched = None THEN Idle(s) ELSE RunCommand(s)
    BY Zenon DEF obj_execute
  <1>5. k \in Nat
    BY <1>1
  <1> HIDE DEF s
  <1>6. (passed => lines' = k + 1) /\ (~passed => lines' = k)
    <2>1. CASE passed
      BY <1>2, <1>3, <2>1
    <2>2. CASE ~passed
      BY <1>3, <1>5, <2>2
    <2>3. QED
      BY <2>1, <2>2
  <1>7. CASE Fetched = None
    <2>1. current' = None /\ completed' = completed
      BY <1>1, <1>4, <1>7, FetchTyped, Zenon DEF Idle
    <2>2. ~(completed' > completed)
      BY <1>1, <2>1
    <2>3. QED
      BY <2>1, <2>2, Zenon DEF PosMatchesRoad, OptionsOnlyAtLine
  <1>8. CASE Fetched # None
    <2>1. RunCommand(StateOf(visible, passed, l, d, read))
      BY <1>4, <1>8, Zenon DEF s
    <2>2. pos = BEFORE_STOP <=> k = 0
      BY <1>8, FrameStart
    <2>3. lines' = 0 <=> ~passed /\ pos = BEFORE_STOP
      <3> HIDE DEF k
      <3>1. CASE passed
        BY <1>5, <1>6, <3>1
      <3>2. CASE ~passed
        BY <1>6, <2>2, <3>2, Zenon
      <3>3. QED
        BY <3>1, <3>2
    <2>4. PosMatchesRoad'
      BY <1>8, <2>1, <2>3, RunInvariant, Zenon DEF PosMatchesRoad
    <2>5. OptionsOnlyAtLine'
      BY <1>2, <1>8, <2>1, RunInvariant, Zenon DEF OptionsOnlyAtLine
    <2>6. completed' > completed => lines' >= 1
      <3>1. CASE current' = None
        <4>1. passed \/ pos >= AFTER_STOP
          BY <1>8, <2>1, <3>1, RunInvariant, Zenon
        <4>2. lines' # 0
          BY <1>1, <2>3, <4>1
        <4>3. lines' \in Nat
          <5> HIDE DEF k
          <5>1. QED
            BY <1>5, <1>6
        <4>4. QED
          BY <4>2, <4>3
      <3>2. CASE current' # None
        <4>1. completed' = completed
          BY <1>8, <2>1, <3>2, RunInvariant, Zenon
        <4>2. QED
          BY <1>1, <4>1
      <3>3. QED
        BY <3>1, <3>2
    <2>7. QED
      BY <2>4, <2>5, <2>6
  <1>9. QED
    BY <1>7, <1>8

(* What the road properties say of one step. *)
RoadStep ==
    /\ PosMatchesRoad'
    /\ completed' > completed => lines' >= 1
    /\ OptionsOnlyAtLine'

(* Every step keeps them. *)
LEMMA NextRoad ==
    ASSUME ObjInv, PosMatchesRoad, OptionsOnlyAtLine, ~EmptyFrames, ~AppendRunning, [Next]_vars
    PROVE  RoadStep
  <1>1. completed \in Nat
    BY DEF ObjInv, TypeOK
  <1>2. ASSUME current' = None, completed' \in {0, completed}
        PROVE  RoadStep
    <2>1. ~(completed' > completed)
      BY <1>1, <1>2
    <2>2. QED
      BY <1>2, <2>1, Zenon DEF RoadStep, PosMatchesRoad, OptionsOnlyAtLine
  <1>3. ASSUME UNCHANGED <<current, pos, lines, completed, stop_valid, opt>>
        PROVE  RoadStep
    <2>1. ~(completed' > completed)
      BY <1>1, <1>3
    <2>2. QED
      BY <1>3, <2>1, Zenon DEF RoadStep, PosMatchesRoad, OptionsOnlyAtLine
  <1>4. ASSUME NEW m \in Missions, SetMission(m)
        PROVE  RoadStep
    BY <1>2, <1>4 DEF SetMission
  <1>5. ASSUME NEW m \in Missions, AppendMission(m)
        PROVE  RoadStep
    BY <1>2, <1>5 DEF AppendMission
  <1>6. ASSUME NEW m \in Missions, RefuseMission(m)
        PROVE  RoadStep
    BY <1>3, <1>6 DEF RefuseMission, cmdvars, outputs, history
  <1>7. ASSUME NEW state \in BOOLEAN, obj_set_state(state)
        PROVE  RoadStep
    BY <1>3, <1>7 DEF obj_set_state, cmdvars, outputs, history
  <1>8. CASE obj_active
    BY <1>3, <1>8 DEF obj_active, cmdvars, outputs, history
  <1>9. CASE UNCHANGED vars
    BY <1>3, <1>9 DEF vars, cmdvars, outputs, history
  <1>10. ASSUME NEW empty \in BOOLEAN, NEW visible \in BOOLEAN, NEW passed \in BOOLEAN,
                NEW l \in BOOLEAN, NEW d \in Levels, NEW read \in Levels, obj_execute(empty, visible, passed, l, d, read)
         PROVE  RoadStep
    BY <1>10, ExecuteRoad, Zenon DEF RoadStep
  <1>11. QED
    BY <1>4, <1>5, <1>6, <1>7, <1>8, <1>9, <1>10, FrameInputs
       DEF Next, Server, Main, ManualTurn, ObjInv

(* The invariant of the road. *)
RoadInv == ObjInv /\ PosMatchesRoad /\ OptionsOnlyAtLine

(* It holds if the camera delivers every frame and the remote appends to   *)
(* no running command.                                                     *)
THEOREM RoadInvariant ==
    ASSUME ~EmptyFrames, ~AppendRunning
    PROVE  Spec => []RoadInv
  <1>1. Init => PosMatchesRoad /\ OptionsOnlyAtLine
    BY Zenon DEF Init, PosMatchesRoad, OptionsOnlyAtLine
  <1>2. ObjInv /\ PosMatchesRoad /\ OptionsOnlyAtLine /\ [Next]_vars
        => PosMatchesRoad' /\ OptionsOnlyAtLine'
    BY NextRoad DEF RoadStep
  <1>3. ObjInv /\ PosMatchesRoad /\ OptionsOnlyAtLine => RoadInv
    BY DEF RoadInv
  <1>4. QED
    BY <1>1, <1>2, <1>3, ObjInvariant, PTL DEF Spec

(* As long as the camera delivers every frame and the remote appends to no *)
(* running command, pos agrees with the road: the running command believes *)
(* its stopline to be ahead exactly if no line was passed since it began.  *)
THEOREM RoadAgrees ==
    ASSUME ~EmptyFrames, ~AppendRunning
    PROVE  Spec => []PosMatchesRoad
  <1>1. RoadInv => PosMatchesRoad
    BY DEF RoadInv
  <1>2. QED
    BY <1>1, RoadInvariant, PTL

(* Under the same conditions, no lane line is ignored far from a stopline. *)
THEOREM OptionsCleared ==
    ASSUME ~EmptyFrames, ~AppendRunning
    PROVE  Spec => []OptionsOnlyAtLine
  <1>1. RoadInv => OptionsOnlyAtLine
    BY DEF RoadInv
  <1>2. QED
    BY <1>1, RoadInvariant, PTL

(* Under the same conditions, a command finishes only after a stopline     *)
(* that was tracked to the bottom of the picture.                          *)
THEOREM FinishedPastLine ==
    ASSUME ~EmptyFrames, ~AppendRunning
    PROVE  Spec => FinishNeedsLine
  <1>1. RoadInv /\ [Next]_vars => [completed' > completed => lines' >= 1]_vars
    BY NextRoad DEF RoadInv, RoadStep
  <1>2. QED
    BY <1>1, RoadInvariant, PTL DEF Spec, FinishNeedsLine
=============================================================================

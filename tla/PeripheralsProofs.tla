------------------------- MODULE PeripheralsProofs --------------------------
(***************************************************************************)
(* Proofs about the parts that measure and act, for every size of the      *)
(* picture, every width of the counters and every value of a command.      *)
(***************************************************************************)
EXTENDS Peripherals, TLAPS

(***************************************************************************)
(* The control module.                                                     *)
(***************************************************************************)

(* Arithmetic on floats gives floats. *)
LEMMA FloatClosed ==
    ASSUME NEW a \in Float, NEW b \in Float
    PROVE  Add(a, b) \in Float /\ Mul(a, b) \in Float /\ Neg(a) \in Float
  <1>1. CASE NaN \in {a, b}
    BY <1>1, CtrlAssumption DEF Float, Add, Mul, Neg
  <1>2. CASE NaN \notin {a, b}
    <2>1. a \in Int /\ b \in Int
      BY <1>2 DEF Float
    <2>2. a + b \in Int /\ a * b \in Int /\ -a \in Int
      BY <2>1
    <2>3. QED
      BY <1>2, <2>2 DEF Float, Add, Mul, Neg
  <1>3. QED
    BY <1>1, <1>2

(* Whatever it is given, NaN too, Clamp stays within the limit. *)
LEMMA ClampRange ==
    ASSUME NEW s \in Sides, NEW x \in Float
    PROVE  Clamp(s, x) \in Int /\ -Limit[s] =< Clamp(s, x) /\ Clamp(s, x) =< Limit[s]
  <1>1. Limit[s] \in {2000, 10000}
    BY DEF Limit, Sides
  <1>2. CASE x = NaN
    BY <1>1, <1>2, CtrlAssumption DEF Clamp, MIN, MAX, Less
  <1>3. CASE x # NaN
    BY <1>1, <1>3, CtrlAssumption DEF Clamp, MIN, MAX, Less, Float
  <1>4. QED
    BY <1>2, <1>3

(* So the pulse widths stay within the range of servo and motor. *)
LEMMA PulseRange ==
    ASSUME NEW s \in Sides, NEW x \in Float
    PROVE  /\ Pulse(Clamp(s, x)) \in Int
           /\ Neutral - Limit[s] \div 20 =< Pulse(Clamp(s, x))
           /\ Pulse(Clamp(s, x)) =< Neutral + Limit[s] \div 20
  <1>1. Limit[s] \in {2000, 10000}
    BY DEF Limit, Sides
  <1>2. QED
    BY <1>1, ClampRange DEF Pulse, Neutral

(* The regulator and a direct value give a float. *)
LEMMA SignalFloat ==
    /\ \A v \in PD : pd_ctrl(v) \in Float
    /\ \A s \in Sides, v \in Float : Signal(s, v) \in Float
  <1>1. ASSUME NEW v \in PD PROVE pd_ctrl(v) \in Float
    <2>1. /\ v.err \in Float /\ v.kp \in Float /\ v.err_sum \in Float /\ v.ki \in Float
          /\ v.err_prev \in Float /\ v.kd \in Float /\ 100 \in Float
      BY DEF PD, Float
    <2>2. /\ Mul(v.err, v.kp) \in Float /\ Mul(v.err_sum, v.ki) \in Float
          /\ Add(v.err, Neg(v.err_prev)) \in Float
      BY <2>1, FloatClosed
    <2>3. QED
      BY <2>1, <2>2, FloatClosed DEF pd_ctrl
  <1>2. ASSUME NEW s \in Sides, NEW v \in Float PROVE Signal(s, v) \in Float
    <2>1. VEL_NEUTRAL \in Float /\ VEL_K \in Float /\ 1000 \in Float
      BY DEF VEL_NEUTRAL, VEL_K, Float
    <2>2. QED
      BY <2>1, FloatClosed DEF Signal
  <1>3. QED
    BY <1>1, <1>2

CtrlInv == TypeOK /\ ServoRange

(* The registers and gains set at start-up are within range. *)
LEMMA CtrlInit == Init => CtrlInv
  <1> SUFFICES ASSUME Init PROVE CtrlInv
    OBVIOUS
  <1>1. \A s \in Sides : PD_DEFAULT(s) \in PD
    BY DEF PD_DEFAULT, PD, Float
  <1>2. TypeOK
    BY <1>1, CtrlAssumption DEF Init, TypeOK, Neutral
  <1>3. ServoRange
    BY DEF Init, ServoRange, Limit, Neutral, Sides
  <1>4. QED
    BY <1>2, <1>3 DEF CtrlInv

(* A command whose signal becomes the pulse width of its side. *)
LEMMA PulseStep ==
    ASSUME CtrlInv, NEW s \in Sides, NEW x \in Float, NEW p \in PD, NEW e \in Seq(Values),
           Count, SetPulse(s, x), pd' = [pd EXCEPT ![s] = p], errs' = [errs EXCEPT ![s] = e]
    PROVE  CtrlInv'
  <1>1. n' \in 0 .. MaxCmds
    BY CtrlAssumption DEF CtrlInv, TypeOK, Count
  <1>2. pd' \in [Sides -> PD] /\ errs' \in [Sides -> Seq(Values)]
    BY DEF CtrlInv, TypeOK
  <1>3. ocr' = [ocr EXCEPT ![s] = Pulse(Clamp(s, x))]
    BY DEF SetPulse
  <1>4. ocr' \in [Sides -> Int]
    BY <1>3, PulseRange DEF CtrlInv, TypeOK
  <1>5. ServoRange'
    BY <1>3, PulseRange DEF CtrlInv, TypeOK, ServoRange
  <1>6. QED
    BY <1>1, <1>2, <1>4, <1>5 DEF CtrlInv, TypeOK

(* The control module keeps its types and the range of its pulse widths. *)
LEMMA CtrlNext == CtrlInv /\ Next => CtrlInv'
  <1> SUFFICES ASSUME CtrlInv, Next PROVE CtrlInv'
    OBVIOUS
  <1>1. Values \subseteq Float /\ 0 \in Float
    BY CtrlAssumption DEF Float
  <1>2. CASE reset
    <2>1. pd' = [s \in Sides |-> PD_DEFAULT(s)] /\ ocr' = [s \in Sides |-> Neutral]
          /\ errs' = [s \in Sides |-> <<>>] /\ Count
      BY <1>2 DEF reset
    <2>2. \A s \in Sides : PD_DEFAULT(s) \in PD
      BY DEF PD_DEFAULT, PD, Float
    <2>3. n' \in 0 .. MaxCmds
      BY <2>1, CtrlAssumption DEF CtrlInv, TypeOK, Count
    <2>4. TypeOK'
      BY <2>1, <2>2, <2>3 DEF TypeOK, Neutral
    <2>5. ServoRange'
      BY <2>1 DEF ServoRange, Limit, Neutral, Sides
    <2>6. QED
      BY <2>4, <2>5 DEF CtrlInv
  <1>3. ASSUME NEW s \in Sides, NEW v \in Values, error(s, v)
        PROVE  CtrlInv'
    <2> DEFINE p == [pd[s] EXCEPT !.err_prev = pd[s].err, !.err = v,
                                  !.err_sum = Add(pd[s].err_sum, v)]
    <2>1. pd[s] \in PD /\ pd \in [Sides -> PD] /\ errs[s] \in Seq(Values)
      BY DEF CtrlInv, TypeOK
    <2>2. Add(pd[s].err_sum, v) \in Float /\ v \in Float
      BY <1>1, <2>1, FloatClosed DEF PD
    <2>3. p \in PD
      BY <2>1, <2>2 DEF PD
    <2>4. pd' = [pd EXCEPT ![s] = p]
      BY <1>3, <2>1 DEF error, PD
    <2>5. pd'[s] \in PD
      BY <2>1, <2>3, <2>4
    <2>6. pd_ctrl(pd'[s]) \in Float
      BY <2>5, SignalFloat
    <2>7. Count /\ SetPulse(s, pd_ctrl(pd'[s])) /\ errs' = [errs EXCEPT ![s] = Append(errs[s], v)]
      BY <1>3 DEF error
    <2>8. Append(errs[s], v) \in Seq(Values)
      BY <2>1
    <2> HIDE DEF p
    <2>9. QED
      BY <2>3, <2>4, <2>6, <2>7, <2>8, PulseStep
  <1>4. ASSUME NEW s \in Sides, NEW v \in Values, value(s, v)
        PROVE  CtrlInv'
    <2> DEFINE p == [pd[s] EXCEPT !.err = 0, !.err_sum = 0]
    <2>1. pd[s] \in PD /\ pd \in [Sides -> PD]
      BY DEF CtrlInv, TypeOK
    <2>2. p \in PD
      BY <1>1, <2>1 DEF PD
    <2>3. pd' = [pd EXCEPT ![s] = p]
      BY <1>4, <2>1 DEF value, PD
    <2>4. Signal(s, v) \in Float
      BY <1>1, SignalFloat
    <2>5. Count /\ SetPulse(s, Signal(s, v)) /\ errs' = [errs EXCEPT ![s] = <<>>]
      BY <1>4 DEF value
    <2>6. <<>> \in Seq(Values)
      OBVIOUS
    <2> HIDE DEF p
    <2>7. QED
      BY <2>2, <2>3, <2>4, <2>5, <2>6, PulseStep
  <1>5. ASSUME NEW s \in Sides, NEW v \in Values, NEW k \in {"kp", "kd"}, param(s, k, v)
        PROVE  CtrlInv'
    <2>1. pd[s] \in PD /\ pd \in [Sides -> PD] /\ v \in Float
      BY <1>1 DEF CtrlInv, TypeOK
    <2>2. [pd[s] EXCEPT ![k] = v] \in PD
      BY <2>1 DEF PD
    <2>3. pd' = [pd EXCEPT ![s] = [pd[s] EXCEPT ![k] = v]]
      BY <1>5 DEF param
    <2>4. pd' \in [Sides -> PD]
      BY <2>1, <2>2, <2>3
    <2>5. n' \in 0 .. MaxCmds
      BY <1>5, CtrlAssumption DEF CtrlInv, TypeOK, Count, param
    <2>6. QED
      BY <1>5, <2>4, <2>5 DEF param, CtrlInv, TypeOK, ServoRange
  <1>6. CASE nothing
    BY <1>6 DEF nothing, vars, CtrlInv, TypeOK, ServoRange
  <1>7. QED
    BY <1>2, <1>3, <1>4, <1>5, <1>6 DEF Next

(***************************************************************************)
(* The stopline tracker.                                                   *)
(***************************************************************************)

(* Why a ghost does not last: a line that is kept without being seen costs *)
(* certainty, which is limited, and is lost at the threshold.  The         *)
(* estimate of a line that counts is inside the mask, where it cannot fall *)
(* off the upper end and take the certainty with it.                       *)
Certainty ==
    /\ ip.valid => missed + ip.vis =< 2 * thresh_stop_vis
    /\ ip.valid /\ missed > 0 => ip.vis > thresh_stop_vis
    /\ ip.valid \/ ip.vis > 0 => ip.y >= C!mask_end_y

CameraInv == C!TypeOK /\ Certainty

(* An estimate as a frame leaves it to ip_process. *)
Estimate(e) ==
    /\ e.y \in Int /\ e.diff \in Nat
    /\ e.vis \in -1 .. 2 * thresh_stop_vis + 1 /\ e.valid \in BOOLEAN

(* The numbers of the mask. *)
LEMMA MaskNumbers ==
    /\ C!mask_end_y \in Nat /\ C!mask_end_y \in C!Rows
    /\ 2 * C!mask_end_y =< HEIGHT
    /\ \A y \in Int : y >= C!mask_end_y /\ ~C!AtBottom(y) => y \in C!Rows
    /\ \A y \in Int : C!NearTop(y) => ~C!AtBottom(y)
  BY CameraAssumption DEF C!mask_end_y, C!Rows, C!AtBottom, C!NearTop

(* The tracker starts without a line. *)
LEMMA CameraInit == C!Init => CameraInv
  <1> SUFFICES ASSUME C!Init PROVE CameraInv
    OBVIOUS
  <1>1. /\ ip = [y |-> 0, diff |-> 0, vis |-> 0, valid |-> FALSE] /\ missed = 0
        /\ res = [visible |-> FALSE, passed |-> FALSE]
    BY DEF C!Init, C!Reset
  <1>2. C!TypeOK
    BY <1>1, MaskNumbers, CameraAssumption DEF C!TypeOK
  <1>3. Certainty
    BY <1>1 DEF Certainty
  <1>4. QED
    BY <1>2, <1>3 DEF CameraInv

(* ip_process keeps the types, whatever the estimate, and shows a line     *)
(* only if the estimate is a line inside the mask.                         *)
LEMMA ProcessResult ==
    ASSUME NEW e, Estimate(e), C!Process(e)
    PROVE  /\ ip'.y \in C!Rows /\ ip'.diff \in Nat
           /\ ip'.vis \in 0 .. 2 * thresh_stop_vis
           /\ ip'.valid = (e.valid /\ ~C!AtBottom(e.y))
           /\ res' \in [visible : BOOLEAN, passed : BOOLEAN]
           /\ res'.visible = ip'.valid /\ res'.passed = (C!AtBottom(e.y) /\ e.valid)
           /\ ip'.vis > 0 => ip'.vis =< e.vis
           /\ e.y >= C!mask_end_y /\ ~C!AtBottom(e.y) /\ e.vis \in 0 .. 2 * thresh_stop_vis
                => ip'.vis = e.vis
  <1>1. /\ thresh_stop_vis \in Nat /\ e.vis \in Int
        /\ e.y \in Int /\ C!AtBottom(e.y) \in BOOLEAN
    BY CameraAssumption DEF Estimate, C!AtBottom
  <1>2. /\ C!Limit(e.vis) \in 0 .. 2 * thresh_stop_vis
        /\ C!Limit(e.vis) > 0 => C!Limit(e.vis) =< e.vis
        /\ e.vis \in 0 .. 2 * thresh_stop_vis => C!Limit(e.vis) = e.vis
    BY <1>1 DEF C!Limit, C!Larger, C!Smaller
  <1> DEFINE out == e.y < C!mask_end_y \/ C!AtBottom(e.y)
  <1>3. /\ ip' = [y |-> IF out THEN C!mask_end_y ELSE e.y, diff |-> IF out THEN 0 ELSE e.diff,
                  vis |-> IF out THEN 0 ELSE C!Limit(e.vis),
                  valid |-> e.valid /\ ~C!AtBottom(e.y)]
        /\ res' = [visible |-> ip'.valid, passed |-> C!AtBottom(e.y) /\ e.valid]
    BY DEF C!Process, C!Passed
  <1>4. /\ ip'.y = (IF out THEN C!mask_end_y ELSE e.y)
        /\ ip'.diff = (IF out THEN 0 ELSE e.diff)
        /\ ip'.vis = (IF out THEN 0 ELSE C!Limit(e.vis))
        /\ ip'.valid = (e.valid /\ ~C!AtBottom(e.y))
    BY <1>3, Zenon
  <1>5. ip'.y \in C!Rows
    BY <1>1, <1>4, MaskNumbers
  <1>6. ip'.diff \in Nat
    BY <1>4, MaskNumbers DEF Estimate
  <1>7. /\ ip'.vis \in 0 .. 2 * thresh_stop_vis
        /\ ip'.vis > 0 => ip'.vis =< e.vis
        /\ e.y >= C!mask_end_y /\ ~C!AtBottom(e.y) /\ e.vis \in 0 .. 2 * thresh_stop_vis
             => ip'.vis = e.vis
    BY <1>1, <1>2, <1>4, MaskNumbers
  <1>8. e.valid \in BOOLEAN
    BY DEF Estimate
  <1>9. ip'.valid \in BOOLEAN /\ (C!AtBottom(e.y) /\ e.valid) \in BOOLEAN
    BY <1>1, <1>4, <1>8, Zenon
  <1>10. /\ res' \in [visible : BOOLEAN, passed : BOOLEAN]
         /\ res'.visible = ip'.valid /\ res'.passed = (C!AtBottom(e.y) /\ e.valid)
    BY <1>3, <1>9, Zenon
  <1>11. QED
    BY <1>4, <1>5, <1>6, <1>7, <1>10, Zenon

(* The two kinds of estimate: a line seen close to the last one, *)
LEMMA SeenEstimate ==
    ASSUME CameraInv, NEW y \in Found
    PROVE  /\ Estimate(C!Seen(y)) /\ C!Seen(y).y = y
           /\ C!Seen(y).valid = (ip.valid \/ C!NearTop(y))
  <1>1. y \in Int /\ C!NearTop(y) \in BOOLEAN
    BY MaskNumbers, CameraAssumption DEF C!Rows, C!NearTop
  <1>2. /\ C!Seen(y).y = y /\ C!Seen(y).vis = ip.vis + 1
        /\ C!Seen(y).diff = C!Larger(ip.y - y, 0)
        /\ C!Seen(y).valid = (ip.valid \/ C!NearTop(y))
    BY Zenon DEF C!Seen
  <1>3. ip.y \in Int
    BY CameraAssumption, MaskNumbers DEF CameraInv, C!TypeOK, C!Rows
  <1>4. C!Larger(ip.y - y, 0) \in Nat
    BY <1>1, <1>3, MaskNumbers DEF C!Larger
  <1>5. ip.vis + 1 \in -1 .. 2 * thresh_stop_vis + 1
    BY CameraAssumption DEF CameraInv, C!TypeOK
  <1>6. (ip.valid \/ C!NearTop(y)) \in BOOLEAN
    BY <1>1, Zenon DEF CameraInv, C!TypeOK
  <1>7. QED
    BY <1>1, <1>2, <1>4, <1>5, <1>6 DEF Estimate

(* and a line that is kept or lost. *)
LEMMA UnseenEstimate ==
    ASSUME CameraInv
    PROVE  /\ Estimate(C!Unseen)
           /\ C!Unseen.vis = ip.vis - 1
           /\ C!Unseen.valid = (ip.valid /\ ip.vis - 1 > thresh_stop_vis)
           /\ ip.vis - 1 > thresh_stop_vis => C!Unseen.y >= C!mask_end_y
  <1>1. /\ C!Unseen.y = (IF ip.vis - 1 > thresh_stop_vis THEN ip.y + ip.diff ELSE C!mask_end_y)
        /\ C!Unseen.diff = ip.diff /\ C!Unseen.vis = ip.vis - 1
        /\ C!Unseen.valid = (ip.valid /\ ip.vis - 1 > thresh_stop_vis)
    BY Zenon DEF C!Unseen
  <1>2. ip.y \in Int /\ ip.diff \in Nat /\ ip.vis \in Nat /\ thresh_stop_vis \in Nat
    BY CameraAssumption, MaskNumbers DEF CameraInv, C!TypeOK, C!Rows
  <1>3. C!Unseen.y \in Int /\ (ip.vis - 1 > thresh_stop_vis => C!Unseen.y >= C!mask_end_y)
    BY <1>1, <1>2, MaskNumbers DEF CameraInv, Certainty
  <1>4. (ip.valid /\ ip.vis - 1 > thresh_stop_vis) \in BOOLEAN
    BY Zenon DEF CameraInv, C!TypeOK
  <1>5. ip.vis - 1 \in -1 .. 2 * thresh_stop_vis + 1
    BY CameraAssumption DEF CameraInv, C!TypeOK
  <1>6. QED
    BY <1>1, <1>3, <1>4, <1>5 DEF Estimate, CameraInv, C!TypeOK

(* A frame with a line, one without, and a reset keep the invariant. *)
LEMMA SeenKeeps == CameraInv /\ C!seen_frame => CameraInv'
  <1> SUFFICES ASSUME CameraInv, C!seen_frame PROVE CameraInv'
    OBVIOUS
  <1>1. PICK y \in Found : C!Process(C!Seen(y)) /\ missed' = 0
    BY DEF C!seen_frame
  <1>2. Estimate(C!Seen(y))
    BY <1>1, SeenEstimate
  <1>3. /\ ip'.y \in C!Rows /\ ip'.diff \in Nat
        /\ ip'.vis \in 0 .. 2 * thresh_stop_vis
        /\ res' \in [visible : BOOLEAN, passed : BOOLEAN]
        /\ ip'.valid = (C!Seen(y).valid /\ ~C!AtBottom(C!Seen(y).y))
    BY <1>1, <1>2, ProcessResult
  <1>4. ip'.valid \in BOOLEAN
    BY <1>3, Zenon
  <1>5. C!TypeOK'
    BY <1>1, <1>3, <1>4 DEF C!TypeOK
  <1>6. Certainty'
    BY <1>1, <1>3, MaskNumbers, CameraAssumption DEF Certainty, C!Rows
  <1>7. QED
    BY <1>5, <1>6 DEF CameraInv

(* A frame without a line: the tracked one is guessed or lost. *)
LEMMA UnseenKeeps == CameraInv /\ C!unseen_frame => CameraInv'
  <1> SUFFICES ASSUME CameraInv, C!unseen_frame PROVE CameraInv'
    OBVIOUS
  <1> DEFINE e == C!Unseen
  <1>1. C!Process(e) /\ missed' = (IF ip'.valid THEN missed + 1 ELSE 0)
    BY DEF C!unseen_frame
  <1>2. /\ Estimate(e) /\ e.vis = ip.vis - 1
        /\ e.valid = (ip.valid /\ ip.vis - 1 > thresh_stop_vis)
        /\ ip.vis - 1 > thresh_stop_vis => e.y >= C!mask_end_y
    BY UnseenEstimate
  <1> HIDE DEF e
  <1>3. /\ ip'.y \in C!Rows /\ ip'.diff \in Nat
        /\ ip'.vis \in 0 .. 2 * thresh_stop_vis
        /\ ip'.valid = (e.valid /\ ~C!AtBottom(e.y))
        /\ res' \in [visible : BOOLEAN, passed : BOOLEAN]
        /\ e.y >= C!mask_end_y /\ ~C!AtBottom(e.y) /\ e.vis \in 0 .. 2 * thresh_stop_vis
             => ip'.vis = e.vis
    BY <1>1, <1>2, ProcessResult
  <1>4. ip'.valid \in BOOLEAN
    BY <1>3, Zenon
  <1>5. missed' \in Nat
    BY <1>1 DEF CameraInv, C!TypeOK
  <1>6. C!TypeOK'
    BY <1>3, <1>4, <1>5 DEF C!TypeOK
  <1>7. ASSUME ip'.valid
        PROVE  ip.valid /\ ip.vis - 1 > thresh_stop_vis /\ ip'.vis = ip.vis - 1
    <2>1. e.valid /\ ~C!AtBottom(e.y)
      BY <1>3, <1>7, Zenon
    <2>2. ip.valid /\ ip.vis - 1 > thresh_stop_vis
      BY <1>2, <2>1, Zenon
    <2>3. e.vis \in 0 .. 2 * thresh_stop_vis /\ e.y >= C!mask_end_y
      BY <1>2, <2>2, CameraAssumption DEF CameraInv, C!TypeOK
    <2>4. QED
      BY <1>2, <1>3, <2>1, <2>2, <2>3
  <1>8. Certainty'
    BY <1>1, <1>3, <1>7, CameraAssumption, MaskNumbers DEF CameraInv, C!TypeOK, Certainty, C!Rows
  <1>9. QED
    BY <1>6, <1>8 DEF CameraInv

(* ip_reset forgets the line. *)
LEMMA ResetKeeps == CameraInv /\ C!ip_reset => CameraInv'
  <1> SUFFICES ASSUME CameraInv, C!ip_reset PROVE CameraInv'
    OBVIOUS
  <1>1. /\ ip' = [y |-> mask_width_top, diff |-> 0, vis |-> 0, valid |-> FALSE]
        /\ missed' = 0 /\ res' = res
    BY DEF C!ip_reset, C!Reset
  <1>2. C!TypeOK'
    BY <1>1, MaskNumbers, CameraAssumption DEF CameraInv, C!TypeOK
  <1>3. Certainty'
    BY <1>1, MaskNumbers, CameraAssumption DEF Certainty
  <1>4. QED
    BY <1>2, <1>3 DEF CameraInv

(* Every frame keeps the bound on guesses. *)
LEMMA CameraNext == CameraInv /\ C!Next => CameraInv'
  <1>1. CameraInv /\ C!empty_frame => CameraInv'
    BY DEF C!empty_frame, C!vars, CameraInv, C!TypeOK, Certainty
  <1>2. QED
    BY <1>1, SeenKeeps, UnseenKeeps, ResetKeeps DEF C!Next

(* What a frame reports. *)
LEMMA CameraReports ==
    ASSUME CameraInv, C!seen_frame \/ C!unseen_frame
    PROVE  (res'.passed => ip.valid) /\ (res'.visible => ~res'.passed)
  <1>1. ASSUME NEW e, Estimate(e), C!Process(e), C!AtBottom(e.y) /\ e.valid => ip.valid
        PROVE  (res'.passed => ip.valid) /\ (res'.visible => ~res'.passed)
    <2>1. /\ ip'.valid = (e.valid /\ ~C!AtBottom(e.y)) /\ res'.visible = ip'.valid
          /\ res'.passed = (C!AtBottom(e.y) /\ e.valid)
      BY <1>1, ProcessResult
    <2>2. QED
      BY <1>1, <2>1, Zenon
  <1>2. CASE C!seen_frame
    <2>1. PICK y \in Found : C!Process(C!Seen(y))
      BY <1>2 DEF C!seen_frame
    <2>2. /\ Estimate(C!Seen(y)) /\ C!Seen(y).y = y
          /\ C!Seen(y).valid = (ip.valid \/ C!NearTop(y))
      BY <2>1, SeenEstimate
    <2>3. y \in Int
      BY MaskNumbers, CameraAssumption DEF C!Rows
    <2>4. C!AtBottom(C!Seen(y).y) /\ C!Seen(y).valid => ip.valid
      BY <2>2, <2>3, MaskNumbers, Zenon
    <2>5. QED
      BY <1>1, <2>1, <2>2, <2>4
  <1>3. CASE C!unseen_frame
    <2>1. C!Process(C!Unseen)
      BY <1>3 DEF C!unseen_frame
    <2>2. Estimate(C!Unseen) /\ (C!Unseen.valid => ip.valid)
      BY UnseenEstimate, Zenon
    <2>3. QED
      BY <1>1, <2>1, <2>2
  <1>4. QED
    BY <1>2, <1>3

(***************************************************************************)
(* The sensor module.                                                      *)
(***************************************************************************)

(* Numbers that differ by a multiple of the modulus are the same modulo it. *)
LEMMA SameModulo ==
    ASSUME NEW a \in Nat, NEW b \in Nat, NEW k \in Int, a = b + k * Modulus
    PROVE  a % Modulus = b % Modulus
  <1>1. Modulus \in Nat \ {0}
    BY SensAssumption
  <1> DEFINE q == a \div Modulus
             r == a % Modulus
             s == b \div Modulus
             t == b % Modulus
  <1>2. /\ q \in Int /\ r \in 0 .. Modulus - 1 /\ a = Modulus * q + r
        /\ s \in Int /\ t \in 0 .. Modulus - 1 /\ b = Modulus * s + t
    BY <1>1
  <1> HIDE DEF q, r, s, t
  <1>3. r - t = Modulus * (s + k - q)
    BY <1>1, <1>2
  <1> DEFINE d == s + k - q
  <1>4. d \in Int /\ r - t = Modulus * d
    BY <1>2, <1>3
  <1> HIDE DEF d
  <1>5. d >= 1 => Modulus * d >= Modulus
    BY <1>1, <1>4
  <1>6. d =< -1 => Modulus * d =< -Modulus
    BY <1>1, <1>4
  <1>7. d = 0
    BY <1>1, <1>2, <1>4, <1>5, <1>6
  <1>8. r = t
    BY <1>1, <1>2, <1>4, <1>7
  <1>9. QED
    BY <1>8 DEF r, t

(* A counter that is counted up. *)
LEMMA CountUp ==
    ASSUME NEW x \in 0 .. Modulus - 1
    PROVE  (x + 1) % Modulus = IF x + 1 = Modulus THEN 0 ELSE x + 1
  <1>1. Modulus \in Nat \ {0}
    BY SensAssumption
  <1>2. CASE x + 1 = Modulus
    <2>1. x + 1 = 0 + 1 * Modulus
      BY <1>1, <1>2
    <2>2. (x + 1) % Modulus = 0 % Modulus
      BY <1>1, <2>1, SameModulo
    <2>3. 0 % Modulus = 0
      BY <1>1
    <2>4. QED
      BY <1>2, <2>2, <2>3
  <1>3. CASE x + 1 # Modulus
    <2>1. x + 1 \in 0 .. Modulus - 1
      BY <1>1, <1>3
    <2>2. (x + 1) % Modulus = x + 1
      BY <1>1, <2>1
    <2>3. QED
      BY <1>3, <2>2
  <1>4. QED
    BY <1>2, <1>3

(* The counters wrap each on its own, yet together they hold the number of *)
(* edges counted, modulo the width of their sum.                           *)
Counted == \E k \in Int : served = left + right + k * Modulus

(* Every edge counted has been raised, and so has every flag. *)
Flag(w) == IF w \in flags THEN 1 ELSE 0
Raised == served + Flag("INT0") + Flag("INT1") =< edges

(* Until it runs out the timer shows the time since the last edge counted. *)
Timed == age =< WT_TOP => tcnt = age

(* The loop between its steps: what it has read of the counters so far is  *)
(* of the instant of the snapshot, since no routine runs in between; what  *)
(* it has written of the struct is what it has read.                       *)
Loop ==
    /\ spi # "none" => pc \notin S!Masked
    /\ pc = "period" => local.count = snap.count /\ period = snap.period
    /\ pc \in {"distance", "velocity"} => local = snap
    /\ pc = "velocity" => sensors.count = local.count
    /\ pc # "velocity" => sensors = saved

SensInv == S!TypeOK /\ Counted /\ Raised /\ Timed /\ S!VelocityFresh /\ Loop

(* So the sum the loop computes is the number of edges counted. *)
LEMMA SumIsCount ==
    ASSUME S!TypeOK, Counted
    PROVE  (left + right) % Modulus = served % Modulus
  <1>1. left \in Nat /\ right \in Nat /\ served \in Nat /\ Modulus \in Nat
    BY SensAssumption DEF S!TypeOK
  <1>2. PICK k \in Int : served = left + right + k * Modulus
    BY DEF Counted
  <1>3. left + right \in Nat /\ served = (left + right) + k * Modulus
    BY <1>1, <1>2
  <1>4. QED
    BY <1>1, <1>3, SameModulo

(* Counting one edge in either counter. *)
LEMMA CountedUp ==
    ASSUME NEW x \in 0 .. Modulus - 1, NEW y \in 0 .. Modulus - 1, NEW c \in Nat,
           \E k \in Int : c = x + y + k * Modulus
    PROVE  /\ (x + 1) % Modulus \in 0 .. Modulus - 1
           /\ \E k \in Int : c + 1 = ((x + 1) % Modulus) + y + k * Modulus
  <1>1. Modulus \in Nat \ {0} /\ x \in Nat /\ y \in Nat
    BY SensAssumption
  <1>2. PICK k \in Int : c = x + y + k * Modulus
    OBVIOUS
  <1>3. CASE x + 1 = Modulus
    <2>1. (x + 1) % Modulus = 0
      BY <1>3, CountUp
    <2>2. (k + 1) * Modulus = k * Modulus + Modulus
      BY <1>1
    <2>3. c + 1 = 0 + y + (k + 1) * Modulus
      BY <1>1, <1>2, <1>3, <2>2
    <2>4. k + 1 \in Int /\ c + 1 = ((x + 1) % Modulus) + y + (k + 1) * Modulus
      BY <2>1, <2>3
    <2>5. (x + 1) % Modulus \in 0 .. Modulus - 1
      BY <1>1, <2>1
    <2>6. QED
      BY <2>4, <2>5, Zenon
  <1>4. CASE x + 1 # Modulus
    <2>1. (x + 1) % Modulus = x + 1
      BY <1>4, CountUp
    <2>2. k * Modulus \in Int
      BY <1>1
    <2>3. c + 1 = (x + 1) + y + k * Modulus
      BY <1>1, <1>2, <2>2
    <2>4. x + 1 \in 0 .. Modulus - 1
      BY <1>1, <1>4
    <2>5. QED
      BY <2>1, <2>3, <2>4
  <1>5. QED
    BY <1>3, <1>4

(* The sensor module starts with everything empty. *)
LEMMA SensInit == S!Init => SensInv
  <1> SUFFICES ASSUME S!Init PROVE SensInv
    OBVIOUS
  <1> USE SensAssumption DEF S!Init
  <1>1. S!SENS_EMPTY \in S!Data
    BY DEF S!SENS_EMPTY, S!Data
  <1>2. S!TypeOK
    BY <1>1 DEF S!TypeOK, S!MaxAge
  <1>3. Counted
    <2>1. served = left + right + 0 * Modulus
      OBVIOUS
    <2>2. QED
      BY <2>1 DEF Counted
  <1>4. Raised /\ Timed /\ S!VelocityFresh /\ Loop
    BY DEF Raised, Flag, Timed, S!VelocityFresh, Loop
  <1>5. QED
    BY <1>2, <1>3, <1>4 DEF SensInv

(* The hardware. *)
LEMMA HardwareKeeps == SensInv /\ (S!edge \/ S!tick) => SensInv'
  <1> SUFFICES ASSUME SensInv, S!edge \/ S!tick PROVE SensInv'
    OBVIOUS
  <1> USE SensAssumption DEF SensInv, S!device, S!loop
  <1>1. CASE S!edge
    <2>1. PICK w \in {"INT0", "INT1"} : flags' = flags \union {w}
      BY <1>1 DEF S!edge
    <2>2. /\ edges < MaxEdges /\ edges' = edges + 1
          /\ UNCHANGED <<left, right, period, tcnt, spi, pc, local, sensors, served, age, snap, saved>>
      BY <1>1 DEF S!edge
    <2>3. Raised'
      BY <2>1, <2>2 DEF S!TypeOK, Raised, Flag
    <2>4. S!TypeOK'
      BY <2>1, <2>2 DEF S!TypeOK
    <2>5. Counted' /\ Timed' /\ S!VelocityFresh' /\ Loop'
      BY <2>1, <2>2 DEF Counted, Timed, S!VelocityFresh, Loop
    <2>6. QED
      BY <2>3, <2>4, <2>5
  <1>2. CASE S!tick
    <2>1. /\ tcnt' = (IF tcnt = WT_TOP THEN 0 ELSE tcnt + 1)
          /\ age' = (IF age < S!MaxAge THEN age + 1 ELSE age)
          /\ flags' = (IF tcnt = WT_TOP THEN flags \union {"TIMER1"} ELSE flags)
          /\ UNCHANGED <<left, right, period, spi, pc, local, sensors, edges, served, snap, saved>>
      BY <1>2 DEF S!tick
    <2>2. S!TypeOK' /\ Timed' /\ S!VelocityFresh'
      BY <2>1 DEF S!TypeOK, S!MaxAge, Timed, S!VelocityFresh
    <2>3. Counted' /\ Raised' /\ Loop'
      BY <2>1 DEF Counted, Raised, Flag, Loop
    <2>4. QED
      BY <2>2, <2>3
  <1>3. QED
    BY <1>1, <1>2

(* The interrupt routines. *)
LEMMA RoutinesKeep == SensInv /\ S!Routines => SensInv'
  <1> SUFFICES ASSUME SensInv, S!Routines PROVE SensInv'
    OBVIOUS
  <1> USE SensAssumption DEF SensInv, S!loop, S!device
  <1>1. CASE S!INT0
    <2>1. /\ S!InterruptsOn /\ "INT0" \in flags /\ flags' = flags \ {"INT0"}
          /\ left' = (left + 1) % Modulus /\ period' = tcnt /\ tcnt' = 0
          /\ served' = served + 1 /\ age' = 0
          /\ UNCHANGED <<right, spi, pc, local, sensors, edges, snap, saved>>
      BY <1>1 DEF S!INT0
    <2>2. left' \in 0 .. Modulus - 1 /\ Counted'
      <3>1. left \in 0 .. Modulus - 1 /\ right \in 0 .. Modulus - 1 /\ served \in Nat
        BY DEF S!TypeOK
      <3>2. \E k \in Int : served = left + right + k * Modulus
        BY Zenon DEF Counted
      <3>3. /\ (left + 1) % Modulus \in 0 .. Modulus - 1
            /\ \E k \in Int : served + 1 = ((left + 1) % Modulus) + right + k * Modulus
        BY <3>1, <3>2, CountedUp, Zenon
      <3>4. QED
        BY <2>1, <3>3, Zenon DEF Counted
    <2>3. Raised' /\ served' =< edges
      BY <2>1 DEF S!TypeOK, Raised, Flag
    <2>4. S!TypeOK'
      BY <2>1, <2>2, <2>3 DEF S!TypeOK, S!MaxAge
    <2>5. Timed' /\ S!VelocityFresh' /\ Loop'
      BY <2>1 DEF S!TypeOK, Timed, S!VelocityFresh, Loop, S!InterruptsOn, S!Masked
    <2>6. QED
      BY <2>2, <2>3, <2>4, <2>5
  <1>2. CASE S!INT1
    <2>1. /\ S!InterruptsOn /\ "INT1" \in flags /\ flags' = flags \ {"INT1"}
          /\ right' = (right + 1) % Modulus /\ served' = served + 1
          /\ UNCHANGED <<left, period, tcnt, spi, pc, local, sensors, edges, age, snap, saved>>
      BY <1>2 DEF S!INT1
    <2>2. right' \in 0 .. Modulus - 1 /\ Counted'
      <3>1. left \in 0 .. Modulus - 1 /\ right \in 0 .. Modulus - 1 /\ served \in Nat
        BY DEF S!TypeOK
      <3>2. \E k \in Int : served = right + left + k * Modulus
        BY <3>1 DEF Counted
      <3>3. /\ (right + 1) % Modulus \in 0 .. Modulus - 1
            /\ \E k \in Int : served + 1 = ((right + 1) % Modulus) + left + k * Modulus
        BY <3>1, <3>2, CountedUp, Zenon
      <3>4. \A x \in 0 .. Modulus - 1 : x + left = left + x
        BY <3>1
      <3>5. QED
        BY <2>1, <3>3, <3>4, Zenon DEF Counted
    <2>3. Raised' /\ served' =< edges
      BY <2>1 DEF S!TypeOK, Raised, Flag
    <2>4. S!TypeOK'
      BY <2>1, <2>2, <2>3 DEF S!TypeOK
    <2>5. Timed' /\ S!VelocityFresh' /\ Loop'
      BY <2>1 DEF Timed, S!VelocityFresh, Loop
    <2>6. QED
      BY <2>2, <2>3, <2>4, <2>5
  <1>3. CASE S!TIMER1
    <2>1. /\ S!InterruptsOn /\ flags = {"TIMER1"} /\ flags' = {} /\ period' = WT_TOP
          /\ UNCHANGED <<left, right, tcnt, spi, pc, local, sensors, edges, served, age, snap, saved>>
      BY <1>3 DEF S!TIMER1, S!truth
    <2>2. S!TypeOK' /\ Counted' /\ Timed' /\ S!VelocityFresh'
      BY <2>1 DEF S!TypeOK, Counted, Timed, S!VelocityFresh
    <2>3. Raised' /\ Loop'
      BY <2>1 DEF Raised, Flag, Loop, S!InterruptsOn, S!Masked
    <2>4. QED
      BY <2>2, <2>3
  <1>4. QED
    BY <1>1, <1>2, <1>3 DEF S!Routines

(* The SPI routine. *)
LEMMA SpiKeeps == SensInv /\ (S!spi_begin \/ S!spi_end) => SensInv'
  <1> SUFFICES ASSUME SensInv, S!spi_begin \/ S!spi_end PROVE SensInv'
    OBVIOUS
  <1> USE SensAssumption DEF SensInv, S!loop, S!device, S!truth
  <1>1. UNCHANGED <<left, right, period, tcnt, flags, pc, local, edges, served, age, snap>>
    BY DEF S!spi_begin, S!spi_end
  <1>2. Counted' /\ Raised' /\ Timed' /\ S!VelocityFresh'
    BY <1>1 DEF Counted, Raised, Flag, Timed, S!VelocityFresh
  <1>3. CASE S!spi_begin
    <2>1. S!InterruptsOn /\ spi' \in {"GET", "RST"} /\ UNCHANGED <<sensors, saved>>
      BY <1>3 DEF S!spi_begin
    <2>2. S!TypeOK' /\ Loop'
      BY <1>1, <2>1 DEF S!TypeOK, Loop, S!InterruptsOn
    <2>3. QED
      BY <1>2, <2>2
  <1>4. CASE S!spi_end
    <2>1. /\ spi # "none" /\ spi' = "none"
          /\ \/ sensors' = S!SENS_EMPTY /\ saved' = S!SENS_EMPTY
             \/ UNCHANGED <<sensors, saved>>
      BY <1>4 DEF S!spi_end
    <2>2. S!SENS_EMPTY \in S!Data
      BY DEF S!SENS_EMPTY, S!Data
    <2>3. S!TypeOK' /\ Loop'
      BY <1>1, <2>1, <2>2 DEF S!TypeOK, Loop, S!Masked
    <2>4. QED
      BY <1>2, <2>3
  <1>5. QED
    BY <1>3, <1>4

(* The main loop. *)
LEMMA LoopKeeps == SensInv /\ S!Main => SensInv'
  <1> SUFFICES ASSUME SensInv, S!Main PROVE SensInv'
    OBVIOUS
  <1> USE SensAssumption DEF SensInv, S!device, S!truth, S!Step, S!Idle
  <1>1. UNCHANGED <<left, right, period, tcnt, flags, spi, edges, served, age>> /\ spi = "none"
    BY DEF S!Main, S!read_count, S!read_period, S!save_distance, S!save_velocity
  <1>2. Counted' /\ Raised' /\ Timed' /\ S!VelocityFresh'
    BY <1>1 DEF Counted, Raised, Flag, Timed, S!VelocityFresh
  <1>3. \A r \in S!Data : r = [count |-> r.count, period |-> r.period]
    BY DEF S!Data
  <1>4. CASE S!read_count
    <2>1. /\ pc = "count" /\ pc' = "period" /\ UNCHANGED <<sensors, saved>>
          /\ local' = [local EXCEPT !.count = (left + right) % Modulus]
          /\ snap' = [count |-> served % Modulus, period |-> period]
      BY <1>4 DEF S!read_count
    <2>2. (left + right) % Modulus = served % Modulus
      BY SumIsCount
    <2>3. served % Modulus \in 0 .. Modulus - 1
      BY DEF S!TypeOK
    <2>4. /\ local' \in S!Data /\ snap' \in S!Data
          /\ local'.count = snap'.count /\ snap'.period = period
      BY <2>1, <2>2, <2>3 DEF S!TypeOK, S!Data
    <2>5. S!TypeOK'
      BY <1>1, <2>1, <2>4 DEF S!TypeOK
    <2>6. Loop'
      BY <1>1, <2>1, <2>4 DEF Loop
    <2>7. QED
      BY <1>2, <2>5, <2>6
  <1>5. CASE S!read_period
    <2>1. /\ pc = "period" /\ pc' = "distance" /\ UNCHANGED <<sensors, saved, snap>>
          /\ local' = [local EXCEPT !.period = period]
      BY <1>5 DEF S!read_period
    <2>2. local' \in S!Data /\ local'.count = local.count /\ local'.period = period
      BY <2>1 DEF S!TypeOK, S!Data
    <2>3. local' = snap
      <3>1. local'.count = snap.count /\ local'.period = snap.period
        BY <2>1, <2>2 DEF Loop
      <3>2. snap \in S!Data
        BY DEF S!TypeOK
      <3>3. QED
        BY <1>3, <2>2, <3>1, <3>2
    <2>4. S!TypeOK' /\ Loop'
      BY <1>1, <2>1, <2>2, <2>3 DEF S!TypeOK, Loop
    <2>5. QED
      BY <1>2, <2>4
  <1>6. CASE S!save_distance
    <2>1. /\ pc = "distance" /\ pc' = "velocity" /\ UNCHANGED <<local, snap, saved>>
          /\ sensors' = [sensors EXCEPT !.count = local.count]
      BY <1>6 DEF S!save_distance
    <2>2. sensors' \in S!Data /\ sensors'.count = local.count
      BY <2>1 DEF S!TypeOK, S!Data
    <2>3. S!TypeOK' /\ Loop'
      BY <1>1, <2>1, <2>2 DEF S!TypeOK, Loop
    <2>4. QED
      BY <1>2, <2>3
  <1>7. CASE S!save_velocity
    <2>1. /\ pc = "velocity" /\ pc' = "count" /\ UNCHANGED <<local, snap>> /\ saved' = snap
          /\ sensors' = [sensors EXCEPT !.period = local.period]
      BY <1>7 DEF S!save_velocity
    <2>2. /\ sensors' \in S!Data /\ sensors'.count = local.count
          /\ sensors'.period = local.period
      BY <2>1 DEF S!TypeOK, S!Data, Loop
    <2>3. sensors' = local
      BY <1>3, <2>2 DEF S!TypeOK
    <2>4. S!TypeOK' /\ Loop'
      BY <1>1, <2>1, <2>2, <2>3 DEF S!TypeOK, Loop
    <2>5. QED
      BY <1>2, <2>4
  <1>8. QED
    BY <1>4, <1>5, <1>6, <1>7 DEF S!Main

(* Neither the hardware, nor an interrupt routine, nor the loop breaks it. *)
LEMMA SensNext == SensInv /\ S!Next => SensInv'
  BY HardwareKeeps, RoutinesKeep, SpiKeeps, LoopKeeps DEF S!Next

(***************************************************************************)
(* All three.                                                              *)
(***************************************************************************)
IInv == CtrlInv /\ SensInv /\ CameraInv

Step == CtrlStep \/ SensStep \/ CameraStep

(* A part the behaviour does not follow stays as it is. *)
LEMMA Unfollowed ==
    /\ CtrlInv /\ UNCHANGED vars => CtrlInv'
    /\ SensInv /\ UNCHANGED sensVars => SensInv'
    /\ CameraInv /\ UNCHANGED cameraVars => CameraInv'
  <1>1. CtrlInv /\ UNCHANGED vars => CtrlInv'
    BY DEF vars, CtrlInv, TypeOK, ServoRange
  <1>2. SensInv /\ UNCHANGED sensVars => SensInv'
    BY DEF sensVars, SensInv, S!TypeOK, Counted, Raised, Flag, Timed, S!VelocityFresh, Loop
  <1>3. CameraInv /\ UNCHANGED cameraVars => CameraInv'
    BY DEF cameraVars, CameraInv, C!TypeOK, Certainty
  <1>4. QED
    BY <1>1, <1>2, <1>3

(* A step of one module leaves the other two alone. *)
LEMMA StepInvariant == IInv /\ [Step]_all => IInv'
  <1>1. IInv /\ CtrlStep => IInv'
    BY CtrlNext, Unfollowed DEF IInv, CtrlStep
  <1>2. IInv /\ SensStep => IInv'
    BY SensNext, Unfollowed DEF IInv, SensStep
  <1>3. IInv /\ CameraStep => IInv'
    BY CameraNext, Unfollowed DEF IInv, CameraStep
  <1>4. IInv /\ UNCHANGED all => IInv'
    BY Unfollowed DEF IInv, all
  <1>5. QED
    BY <1>1, <1>2, <1>3, <1>4 DEF Step

(* The invariants of the control module, the sensor module and the tracker *)
(* hold in every behaviour, for every input, interrupt and frame.          *)
THEOREM PeripheralsInvariant == PeripheralsSpec => []IInv
  <1>1. PeripheralsInit => IInv
    BY CtrlInit, SensInit, CameraInit DEF PeripheralsInit, IInv
  <1>2. PeripheralsSpec => PeripheralsInit /\ [][Step]_all
    BY DEF PeripheralsSpec, Step
  <1>3. QED
    BY <1>1, <1>2, StepInvariant, PTL

(* The state of the control module, the sensor module and the tracker      *)
(* stays within its types: the counters within their width, the tracker's  *)
(* estimate within the picture.                                            *)
THEOREM TypesCorrect == PeripheralsSpec => []AllTypesOK
  <1>1. IInv => AllTypesOK
    BY DEF IInv, CtrlInv, SensInv, CameraInv, AllTypesOK
  <1>2. QED
    BY <1>1, PeripheralsInvariant, PTL

(* No value, error or gain that arrives drives servo or motor out of range. *)
THEOREM ServosSafe == PeripheralsSpec => []ServoRange
  <1>1. IInv => ServoRange
    BY DEF IInv, CtrlInv
  <1>2. QED
    BY <1>1, PeripheralsInvariant, PTL

(* The struct the SPI routine sends is of one instant, for every width of  *)
(* the counters (Loop, Counted).                                           *)
THEOREM NeverTorn == PeripheralsSpec => []StructWhole
  <1>1. IInv => StructWhole
    BY DEF IInv, SensInv, Loop, StructWhole, S!StructWhole, S!InterruptsOn, S!Masked
  <1>2. QED
    BY <1>1, PeripheralsInvariant, PTL

(* A line that has gone is shown for less than thresh_stop_vis frames, for *)
(* every size of the picture and every threshold (Certainty).              *)
THEOREM GhostsVanish == PeripheralsSpec => []GhostBound
  <1>1. IInv => GhostBound
    BY CameraAssumption
       DEF IInv, CameraInv, C!TypeOK, Certainty, GhostBound, C!GhostBound, C!Larger
  <1>2. QED
    BY <1>1, PeripheralsInvariant, PTL

(* A velocity other than zero is of a wheel whose last edge was counted    *)
(* within the timer's range, for every range: the timer raises its         *)
(* interrupt on the tick that leaves it (Timed).                           *)
THEOREM VelocityCurrent == PeripheralsSpec => []VelocityFresh
  <1>1. IInv => VelocityFresh
    BY DEF IInv, SensInv, VelocityFresh
  <1>2. QED
    BY <1>1, PeripheralsInvariant, PTL

(* No line is reported passed that was not shown, none shown and passed at *)
(* once, for every size of the picture.                                    *)
THEOREM FramesHonest == PeripheralsSpec => FrameContract
  <1>1. IInv => [C!FrameStep]_C!vars
    BY CameraReports DEF IInv, C!FrameStep
  <1>2. QED
    BY <1>1, PeripheralsInvariant, PTL DEF FrameContract, C!FrameContract
=============================================================================

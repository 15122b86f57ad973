---------------------------- MODULE Peripherals -----------------------------
(***************************************************************************)
(* The parts of the taxi that measure and act: the control module (Ctrl),  *)
(* the sensor module (Sens) and the camera's stopline tracker (Camera).    *)
(* They share nothing and exchange nothing with each other; so a behaviour *)
(* here follows one of them, and the others stay as they were switched on. *)
(***************************************************************************)
EXTENDS Ctrl

CONSTANTS WT_TOP, Modulus, MaxEdges, HEIGHT, mask_width_top, thresh_stop_vis, Found

ASSUME SensAssumption ==
    WT_TOP \in Nat \ {0} /\ Modulus \in Nat \ {0} /\ MaxEdges \in Nat

ASSUME CameraAssumption ==
    /\ HEIGHT \in Nat \ {0} /\ mask_width_top \in Nat /\ thresh_stop_vis \in Nat
    /\ Found \subseteq Int \ {-1}   \* -1 is line_pos_y's way to say that there is none

VARIABLES
    which,   \* the part the behaviour follows
    left, right, period, tcnt, flags, spi, pc, local, sensors, edges, served, age, snap, saved,
    ip, res, missed

S == INSTANCE Sens
C == INSTANCE Camera

sensVars == <<left, right, period, tcnt, flags, spi, pc, local, sensors, edges, served, age,
              snap, saved>>
cameraVars == <<ip, res, missed>>
all == <<which, vars, sensVars, cameraVars>>

PeripheralsInit == which \in {"ctrl", "sens", "camera"} /\ Init /\ S!Init /\ C!Init

CtrlStep == which = "ctrl" /\ Next /\ UNCHANGED <<which, sensVars, cameraVars>>
SensStep == which = "sens" /\ S!Next /\ UNCHANGED <<which, vars, cameraVars>>
CameraStep == which = "camera" /\ C!Next /\ UNCHANGED <<which, vars, sensVars>>

PeripheralsSpec ==
    /\ PeripheralsInit
    /\ [][CtrlStep \/ SensStep \/ CameraStep]_all
    /\ which = "sens" => S!Fairness

(* The properties of Sens and Camera, here under their own names. *)
AllTypesOK == TypeOK /\ S!TypeOK /\ C!TypeOK
StructWhole == S!StructWhole
VelocityFresh == S!VelocityFresh
StandstillSeen == which = "sens" => S!StandstillSeen
GhostBound == C!GhostBound
EstimateReturns == C!EstimateReturns
FrameContract == C!FrameContract
=============================================================================

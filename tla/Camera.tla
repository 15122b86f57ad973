------------------------------- MODULE Camera -------------------------------
(***************************************************************************)
(* The stopline tracker of the image processing,                           *)
(* src/src/comm/ip/img_proc.cpp, which main runs on every frame (through   *)
(* obj_execute).  What OpenCV finds in a frame is an input: the row of the *)
(* stopline, or none.  Rows count from the top.  is_stopline compares the  *)
(* ends of what was found with the estimated line, but the row is that of  *)
(* the found line prolonged to the middle of the lane (line_pos_y): it may *)
(* be anywhere, off the mask and off the picture too.                      *)
(***************************************************************************)
EXTENDS Integers

CONSTANTS
    HEIGHT,          \* rows of the picture
    mask_width_top,  \* 0.55 * WIDTH
    thresh_stop_vis, \* how often a line must be seen before a miss is forgiven
    Found            \* rows at which a line is found

VARIABLES
    ip,      \* struct ip: stop.y, stop_diff, stop_vis, stop_valid
    res,     \* struct ip_res: stopline_visible, stopline_passed
    missed   \* history: how many frames a line taken as visible has been unseen for

vars == <<ip, res, missed>>

(* set_constants: the mask leaves the lower half of the picture; fractions *)
(* are cut off where the code stores an int, and kept in comparisons.      *)
mask_end_y == HEIGHT \div 2
NearTop(y) == 10 * y < 10 * mask_end_y + 2 * HEIGHT
AtBottom(y) == 10 * y > 9 * HEIGHT

Rows == mask_end_y .. HEIGHT - 1

Larger(a, b) == IF a > b THEN a ELSE b
Smaller(a, b) == IF a < b THEN a ELSE b

(* ip_reset puts the estimate at row mask_width_top, a width. *)
Reset(y) == [y |-> y, diff |-> 0, vis |-> 0, valid |-> FALSE]

(* ip_init calls ip_reset before set_constants: all constants are zero. *)
Init ==
    /\ ip = Reset(0)
    /\ res = [visible |-> FALSE, passed |-> FALSE]
    /\ missed = 0

ip_reset ==
    /\ ip' = Reset(mask_width_top)
    /\ missed' = 0
    /\ UNCHANGED res

(* The estimate from a frame with the line at row y, *)
Seen(y) ==
    [y |-> y, diff |-> Larger(ip.y - y, 0), vis |-> ip.vis + 1,
     valid |-> ip.valid \/ NearTop(y)]

(* and from one without: after enough sightings the line is assumed to     *)
(* have moved by stop_diff, else it is lost.                               *)
Unseen ==
    LET kept == ip.vis - 1 > thresh_stop_vis IN
    [y |-> IF kept THEN ip.y + ip.diff ELSE mask_end_y, diff |-> ip.diff,
     vis |-> ip.vis - 1, valid |-> ip.valid /\ kept]

(* Mutant: the certainty is not limited. *)
Limit_low(vis) == Larger(vis, 0)

(* Visibility certainty stays between zero and twice the threshold. *)
Limit(vis) == Smaller(Larger(vis, 0), 2 * thresh_stop_vis)

(* Mutant: any line that reaches the bottom is a stopline passed. *)
Passed_any(e) == AtBottom(e.y)

(* A line that reaches the bottom was passed, if it had appeared near the  *)
(* top.                                                                    *)
Passed(e) == AtBottom(e.y) /\ e.valid

(* ip_process, from the estimate e to the new state and the result.  Off   *)
(* either end of the mask the estimate goes back to the top.               *)
Process(e) ==
    LET out == e.y < mask_end_y \/ AtBottom(e.y) IN
    /\ ip' = [y |-> IF out THEN mask_end_y ELSE e.y, diff |-> IF out THEN 0 ELSE e.diff,
              vis |-> IF out THEN 0 ELSE Limit(e.vis), valid |-> e.valid /\ ~AtBottom(e.y)]
    /\ res' = [visible |-> ip'.valid, passed |-> Passed(e)]

seen_frame == \E y \in Found : Process(Seen(y)) /\ missed' = 0

unseen_frame == Process(Unseen) /\ missed' = (IF ip'.valid THEN missed + 1 ELSE 0)

(* An empty frame: ip_process returns; what the caller then reads as its   *)
(* result is modelled in Objective.                                        *)
empty_frame == UNCHANGED vars

Next == seen_frame \/ unseen_frame \/ empty_frame \/ ip_reset

-----------------------------------------------------------------------------

(* Type invariant: the estimate is in the mask, except after a reset. *)
TypeOK ==
    /\ ip.y \in Rows \union {0, mask_width_top}
    /\ ip.diff \in Nat
    /\ ip.vis \in 0 .. 2 * thresh_stop_vis
    /\ ip.valid \in BOOLEAN /\ res \in [visible : BOOLEAN, passed : BOOLEAN]
    /\ missed \in Nat

(* "Om linjen inte skulle upptaeckas under en bild flyttas uppskattningen  *)
(* tillbaka till toppen av ROI:n": a frame without a line puts the         *)
(* estimate back to the top.  The code moves it on instead while the line  *)
(* has been seen often enough (Unseen).                                    *)
EstimateReturns == [][unseen_frame => ip'.y = mask_end_y]_vars

(* A line that is no longer in the picture is not shown to the commands,   *)
(* which brake for it, for longer than thresh_stop_vis - 1 frames, however *)
(* long it has been seen before (the limit of stop_vis in ip_process).     *)
GhostBound == ip.valid => missed < Larger(thresh_stop_vis, 1)

(* A frame that is honest about lines passed and lines ahead. *)
FrameStep ==
    seen_frame \/ unseen_frame => (res'.passed => ip.valid) /\ (res'.visible => ~res'.passed)

(* What module Objective assumes of a frame: no line is reported passed    *)
(* that was not shown before, and none is shown and passed at once (valid  *)
(* and the rows compared in ip_process).                                   *)
FrameContract == [][FrameStep]_vars
=============================================================================

-------------------------------- MODULE Ctrl --------------------------------
(***************************************************************************)
(* The control module, src/src/avr/ctrl.c: what its main loop does with    *)
(* the commands that spi_accept returns.  SpiLink shows which commands     *)
(* those are; a value may be any, a damaged one too, since the checksum    *)
(* does not protect it (AcceptedIntact).                                   *)
(*                                                                         *)
(* A value, an error or a gain is an integer number of tenths; a signal    *)
(* (what becomes a pulse width) is in units of 1/10000.  The floats are    *)
(* thus exact, but for NaN, which is kept: it compares with nothing.       *)
(***************************************************************************)
EXTENDS Integers, Sequences, SequencesExt

CONSTANTS
    Values,   \* what a write may carry, in tenths
    NaN,      \* the float that is not a number
    MaxCmds   \* bound: commands in a behaviour

ASSUME CtrlAssumption ==
    /\ Values \subseteq Int \union {NaN}
    /\ NaN \notin Int
    /\ MaxCmds \in Nat

Sides == {"vel", "rot"}
Float == Int \union {NaN}
PD == [kp : Float, ki : Float, kd : Float, err : Float, err_prev : Float, err_sum : Float]

VARIABLES
    pd,     \* the two struct pd_values, vel and rot
    ocr,    \* OCR_VEL and OCR_ROT, the pulse widths
    n,      \* history: commands so far
    errs    \* history: the errors of each side since its last value or reset

vars == <<pd, ocr, n, errs>>

(***************************************************************************)
(* Floats.                                                                 *)
(***************************************************************************)
Add(a, b) == IF NaN \in {a, b} THEN NaN ELSE a + b
Mul(a, b) == IF NaN \in {a, b} THEN NaN ELSE a * b
Neg(a) == IF a = NaN THEN NaN ELSE -a
Less(a, b) == NaN \notin {a, b} /\ a < b

(* The macros of ctrl.c; a comparison with NaN takes the second branch. *)
MIN(a, b) == IF Less(a, b) THEN a ELSE b
MAX(a, b) == IF Less(b, a) THEN a ELSE b

(***************************************************************************)
(* The control law and the pulse width.                                    *)
(***************************************************************************)
VEL_K == 58
VEL_NEUTRAL == 600
Limit == [s \in Sides |-> IF s = "vel" THEN 2000 ELSE 10000]

PD_DEFAULT(s) ==
    [kp |-> IF s = "vel" THEN 10 ELSE 25, ki |-> 0, kd |-> IF s = "vel" THEN 0 ELSE 19,
     err |-> 0, err_prev |-> 0, err_sum |-> 0]

(* pd_ctrl, as a signal. *)
pd_ctrl(v) ==
    Mul(100, Add(Add(Mul(v.err, v.kp), Mul(v.err_sum, v.ki)),
                 Mul(Add(v.err, Neg(v.err_prev)), v.kd)))

(* Mutant: the bounds are not applied. *)
Clamp_none(s, x) == IF x = NaN THEN Limit[s] ELSE x

Clamp(s, x) == MIN(MAX(-Limit[s], x), Limit[s])

(* Duty cycle and pulse width of a signal: 1500 is neutral, 1000 and 2000  *)
(* are the ends.                                                           *)
Neutral == 1500
Pulse(x) == (20 * Neutral + x) \div 20

(* A value that is set directly, as a signal. *)
Signal(s, v) ==
    IF s = "vel" /\ ~(v # NaN /\ v =< 0)
      THEN Add(VEL_NEUTRAL, Mul(v, VEL_K))
      ELSE Mul(v, 1000)

(***************************************************************************)
(* The commands.                                                           *)
(***************************************************************************)
Count == n < MaxCmds /\ n' = n + 1

SetPulse(s, x) == ocr' = [ocr EXCEPT ![s] = Pulse(Clamp(s, x))]

(* reset, at power-up and for RST. *)
Init ==
    /\ pd = [s \in Sides |-> PD_DEFAULT(s)]
    /\ ocr = [s \in Sides |-> Neutral]
    /\ n = 0
    /\ errs = [s \in Sides |-> <<>>]

reset ==
    /\ Count
    /\ pd' = [s \in Sides |-> PD_DEFAULT(s)]
    /\ ocr' = [s \in Sides |-> Neutral]
    /\ errs' = [s \in Sides |-> <<>>]

(* BF_WRITE, BF_MOD_REG and BF_ERR_VAL: a control error. *)
error(s, v) ==
    /\ Count
    /\ pd' = [pd EXCEPT ![s].err_prev = pd[s].err, ![s].err = v,
                        ![s].err_sum = Add(pd[s].err_sum, v)]
    /\ SetPulse(s, pd_ctrl(pd'[s]))
    /\ errs' = [errs EXCEPT ![s] = Append(@, v)]

(* Mutant: the last error survives. *)
value_keeps_err(s, v) ==
    /\ Count
    /\ pd' = [pd EXCEPT ![s].err_sum = 0]
    /\ SetPulse(s, Signal(s, v))
    /\ errs' = [errs EXCEPT ![s] = <<>>]

(* BF_WRITE and BF_MOD_REG: a value; the regulator starts anew. *)
value(s, v) ==
    /\ Count
    /\ pd' = [pd EXCEPT ![s].err = 0, ![s].err_sum = 0]
    /\ SetPulse(s, Signal(s, v))
    /\ errs' = [errs EXCEPT ![s] = <<>>]

(* BF_WRITE alone: a control parameter. *)
param(s, k, v) ==
    /\ Count
    /\ pd' = [pd EXCEPT ![s] = [@ EXCEPT ![k] = v]]
    /\ UNCHANGED <<ocr, errs>>

(* SYN, which asks for nothing, and a command that is none. *)
nothing == UNCHANGED vars

Next ==
    \/ reset
    \/ \E s \in Sides, v \in Values :
         error(s, v) \/ value(s, v) \/ (\E k \in {"kp", "kd"} : param(s, k, v))
    \/ nothing

Spec == Init /\ [][Next]_vars

(***************************************************************************)
(* Properties.                                                             *)
(***************************************************************************)
TypeOK ==
    /\ pd \in [Sides -> PD]
    /\ ocr \in [Sides -> Int]
    /\ n \in 0 .. MaxCmds
    /\ errs \in [Sides -> Seq(Values)]

(* Whatever values, errors and gains arrive, NaN and absurd ones too, the  *)
(* pulse widths stay what servo and motor stand: 1400 to 1600 for the      *)
(* motor, 1000 to 2000 for the steering.                                   *)
ServoRange ==
    \A s \in Sides : Neutral - Limit[s] \div 20 =< ocr[s] /\ ocr[s] =< Neutral + Limit[s] \div 20

(* The law the regulator is meant to follow, over the errors e_1 .. e_m    *)
(* since the last value or reset: kp e_m + ki (e_1 + .. + e_m) +           *)
(* kd (e_m - e_{m-1}), with e_0 = 0.                                       *)
Law(es, kp, ki, kd) ==
    LET m == Len(es)
        prev == IF m = 1 THEN 0 ELSE es[m - 1]
        sum == FoldLeft(Add, 0, es)
    IN  Mul(100, Add(Add(Mul(kp, es[m]), Mul(ki, sum)), Mul(kd, Add(es[m], Neg(prev)))))

(* An error makes the pulse width the law demands over exactly the errors  *)
(* since the last value or reset of that side: nothing of an earlier       *)
(* regulation, of the other side or of a former gain is left in it.        *)
RegulatorLaw ==
    [][\A s \in Sides :
         Len(errs'[s]) > Len(errs[s]) =>
           ocr'[s] = Pulse(Clamp(s, Law(errs'[s], pd[s].kp, pd[s].ki, pd[s].kd)))]_vars
=============================================================================

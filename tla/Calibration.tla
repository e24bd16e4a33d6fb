---------------------------- MODULE Calibration ----------------------------
(***************************************************************************)
(* ReadCalibrationFromSettings (src/src/calibrate.c), run once by          *)
(* APP_Tasks during initialisation, before the audio DMAs start: copy the  *)
(* settings record from flash, replace a blank record by the defaults,     *)
(* replace every out-of-range calibration point by its default (and show   *)
(* "Bad calibration data" when one was), then derive the coefficients the  *)
(* audio path uses: per input w, inputCalibrations[w].Brf and .mABrf        *)
(* (volts = code * Brf + mABrf, algorithm_step); per output 2d+i,          *)
(* halfState[d].Erf[i] and .Dd[i] (code = (int)(volts * Erf) - Dd).        *)
(*                                                                         *)
(* inData[6] holds the X, Y, Z points of each half (entry 3d+i), outData   *)
(* the A, B points (entry 2d+i).  Output (d, i) is calibrated through      *)
(* input entry 3d+i (the comment's  zeroOut = A + B * D).                  *)
(*                                                                         *)
(* The float coefficients are exact rationals here, kept reduced so that   *)
(* equal values are equal records; float rounding is not modelled.  Erf   *)
(* is kept divided by 0x400000 (the factor its formula carries).  The      *)
(* int64 fixed-point coefficients (Br, D, Er) are not read by the audio    *)
(* path and are left out.                                                  *)
(***************************************************************************)
EXTENDS Integers, TLC

CONSTANTS InPoints,   \* (zeroIn, threeVolt) pairs an inData entry may hold
          OutPoints   \* (zeroOut, halfOut) pairs an outData entry may hold

VARIABLES nvm,                \* the settings record in flash
          settings,           \* the RAM copy, after the checks
          inputCalibrations,  \* [Brf, mABrf] per input
          halfState,          \* [A, Brf, Erf, Dd] per half
          badCalibration,     \* "Bad calibration data" was displayed
          pc                  \* "boot" before the call, "done" after

vars == <<nvm, settings, inputCalibrations, halfState, badCalibration, pc>>

Inputs == 0 .. 5
Outputs == 0 .. 3
Halves == 0 .. 1

-----------------------------------------------------------------------------
(* Exact rationals.                                                        *)

RECURSIVE GCD(_, _)
GCD(a, b) == IF b = 0 THEN a ELSE GCD(b, a % b)

Abs(x) == IF x < 0 THEN -x ELSE x

\* num / den in lowest terms, den > 0 (den = 0 is a division by zero).
Frac(num, den) ==
    IF den = 0 THEN [num |-> num, den |-> 0]
    ELSE LET g == GCD(Abs(num), Abs(den))
             s == IF den < 0 THEN -1 ELSE 1
         IN [num |-> s * (num \div g), den |-> s * (den \div g)]

Inv(f) == Frac(f.den, f.num)

\* (int)( a * 2^k / n ) for n > 0: truncation toward zero, computed by long
\* division one bit at a time so no intermediate exceeds 2n.
RECURSIVE ShiftQR(_, _, _)
ShiftQR(a, n, k) ==
    IF k = 0 THEN <<a \div n, a % n>>
    ELSE LET p == ShiftQR(a, n, k - 1)
         IN <<2 * p[1] + (2 * p[2]) \div n, (2 * p[2]) % n>>

TruncShift(a, n, k) ==
    IF a < 0 THEN -ShiftQR(-a, n, k)[1] ELSE ShiftQR(a, n, k)[1]

ASSUME \A a \in -40 .. 40, n \in 1 .. 9, k \in 0 .. 4 :
           TruncShift(a, n, k) = IF a < 0 THEN -((-a * 2^k) \div n)
                                          ELSE (a * 2^k) \div n

-----------------------------------------------------------------------------
(* checkValidRange and CheckValidCalibration( 1 ).                         *)

checkValidRange(v, min, max) == ~(v < min \/ v > max)

ZeroInOK(p)    == checkValidRange(p.zeroIn, -1048576, 1048576)
ThreeVoltOK(p) == checkValidRange(p.threeVolt, 1048576, 3670016)
ZeroOutOK(q)   == checkValidRange(q.zeroOut, -1048576, 1048576)
HalfOutOK(q)   == checkValidRange(q.halfOut, 2097152, 6291456)

\* The points after CheckValidCalibration( 1 ): every field out of range
\* set to its default.
FixedSettings(s) ==
    [in  |-> [c \in Inputs |->
                [zeroIn    |-> IF ZeroInOK(s.in[c]) THEN s.in[c].zeroIn ELSE 0,
                 threeVolt |-> IF ThreeVoltOK(s.in[c]) THEN s.in[c].threeVolt
                                                      ELSE 2516582]],
     out |-> [c \in Outputs |->
                [zeroOut |-> IF ZeroOutOK(s.out[c]) THEN s.out[c].zeroOut ELSE 0,
                 halfOut |-> IF HalfOutOK(s.out[c]) THEN s.out[c].halfOut
                                                   ELSE 4194304]]]

\* A check whose output loop forgets bad = 1.
CheckValidCalibrationInputsOnly(s) ==
    \A c \in Inputs : ZeroInOK(s.in[c]) /\ ThreeVoltOK(s.in[c])

\* Its result, !bad: no field was out of range.
CheckValidCalibration(s) ==
    /\ \A c \in Inputs : ZeroInOK(s.in[c]) /\ ThreeVoltOK(s.in[c])
    /\ \A c \in Outputs : ZeroOutOK(s.out[c]) /\ HalfOutOK(s.out[c])

\* threeVolt == 0 || threeVolt == 0xffffffff (the int compared as unsigned).
Wiped(s) == s.in[0].threeVolt \in {0, -1}

DefaultSettings ==
    [in  |-> [c \in Inputs |-> [zeroIn |-> 0, threeVolt |-> 2516582]],
     out |-> [c \in Outputs |-> [zeroOut |-> 0, halfOut |-> 4194304]]]

-----------------------------------------------------------------------------
(* The coefficients.                                                       *)

\* static const BYTE inputMap[2][3] = { 0, 1, 4, 2, 3, 5 };  with its two
\* halves' Y and Z swapped.
InputMapSwapped == [d \in Halves |-> IF d = 0 THEN (0 :> 0 @@ 1 :> 4 @@ 2 :> 1)
                                              ELSE (0 :> 2 @@ 1 :> 5 @@ 2 :> 3)]

InputMap == [d \in Halves |-> IF d = 0 THEN (0 :> 0 @@ 1 :> 1 @@ 2 :> 4)
                                       ELSE (0 :> 2 @@ 1 :> 3 @@ 2 :> 5)]

\* static const BYTE half[6], in[6]: the half and position of input w.
HalfOf == [w \in Inputs |-> <<0, 0, 1, 1, 0, 1>>[w + 1]]
InOf   == [w \in Inputs |-> <<0, 1, 0, 1, 2, 2>>[w + 1]]

\* Bf without its zero test.
BfUnguarded(p) == Frac(p.threeVolt - p.zeroIn, 3)

\* double Bf = threeVolt - zeroIn; if ( Bf == 0.0 ) Bf = (3<<23)/10.0;
\* Bf = Bf / 3.0;
Bf(p) == IF p.threeVolt - p.zeroIn = 0 THEN Frac(3 * 2^23, 30)
                                       ELSE Frac(p.threeVolt - p.zeroIn, 3)

\* An output whose offset is taken as zeroIn - zeroOut.
OutputCoefficientsSwapped(p, q) ==
    LET n == IF q.halfOut - q.zeroOut = 0 THEN 3774873 ELSE q.halfOut - q.zeroOut
        b == Bf(p)
    IN [Erf |-> Frac(b.num, b.den * n), Dd |-> TruncShift(p.zeroIn - q.zeroOut, n, 22)]

(***************************************************************************)
(* Output (d, i) from input point p and output point q: n = halfOut -      *)
(* zeroOut (0x399999 if 0); Df = (zeroOut - zeroIn)/Bf, Ef = n/(Bf *       *)
(* 0x400000); Dd = (int)(Df/Ef), Erf = 1/Ef.                                *)
(***************************************************************************)
OutputCoefficients(p, q) ==
    LET n == IF q.halfOut - q.zeroOut = 0 THEN 3774873 ELSE q.halfOut - q.zeroOut
        b == Bf(p)
    IN [Erf |-> Frac(b.num, b.den * n), Dd |-> TruncShift(q.zeroOut - p.zeroIn, n, 22)]

\* The loop over d and i: halfState[d] from inData[3d+i] and outData[2d+i].
HalfCoefficients(s) ==
    [d \in Halves |->
       [A   |-> [i \in 0 .. 2 |-> s.in[3 * d + i].zeroIn],
        Brf |-> [i \in 0 .. 2 |-> Inv(Bf(s.in[3 * d + i]))],
        Erf |-> [i \in 0 .. 1 |->
                   OutputCoefficients(s.in[3 * d + i], s.out[2 * d + i]).Erf],
        Dd  |-> [i \in 0 .. 1 |->
                   OutputCoefficients(s.in[3 * d + i], s.out[2 * d + i]).Dd]]]

\* ... and A[ inputMap[d][i] ] = zeroIn.
InputOffsets(s) ==
    [w \in Inputs |->
       LET di == CHOOSE di \in Halves \X (0 .. 2) : InputMap[di[1]][di[2]] = w
       IN s.in[3 * di[1] + di[2]].zeroIn]

\* The loop over w: Brf = halfState[half[w]].Brf[in[w]], mABrf = -A[w] * Brf.
InputTable(hs, A) ==
    [w \in Inputs |->
       LET b == hs[HalfOf[w]].Brf[InOf[w]]
       IN [Brf |-> b, mABrf |-> Frac(-A[w] * b.num, b.den)]]

-----------------------------------------------------------------------------
Zero == Frac(0, 1)

\* Flash holds any record of the given points; the RAM tables are zero.
Init ==
    /\ nvm \in [in : [Inputs -> InPoints], out : [Outputs -> OutPoints]]
    /\ settings = [in  |-> [c \in Inputs |-> [zeroIn |-> 0, threeVolt |-> 0]],
                   out |-> [c \in Outputs |-> [zeroOut |-> 0, halfOut |-> 0]]]
    /\ inputCalibrations = [w \in Inputs |-> [Brf |-> Zero, mABrf |-> Zero]]
    /\ halfState = [d \in Halves |-> [A   |-> [i \in 0 .. 2 |-> 0],
                                      Brf |-> [i \in 0 .. 2 |-> Zero],
                                      Erf |-> [i \in 0 .. 1 |-> Zero],
                                      Dd  |-> [i \in 0 .. 1 |-> 0]]]
    /\ badCalibration = FALSE
    /\ pc = "boot"

ReadCalibrationFromSettings ==
    /\ pc = "boot"
    /\ LET copied == IF Wiped(nvm) THEN DefaultSettings ELSE nvm
           fixed  == FixedSettings(copied)
           hs     == HalfCoefficients(fixed)
       IN /\ settings' = fixed
          /\ badCalibration' = ~CheckValidCalibration(copied)
          /\ halfState' = hs
          /\ inputCalibrations' = InputTable(hs, InputOffsets(fixed))
    /\ pc' = "done"
    /\ UNCHANGED nvm

Next == ReadCalibrationFromSettings

Spec == Init /\ [][Next]_vars
-----------------------------------------------------------------------------
Fracs == [num : Int, den : Nat \ {0}]

TypeOK ==
    /\ pc \in {"boot", "done"}
    /\ badCalibration \in BOOLEAN
    /\ \A w \in Inputs : inputCalibrations[w] \in [Brf : Fracs, mABrf : Fracs]
    /\ \A d \in Halves :
          /\ \A i \in 0 .. 2 : halfState[d].Brf[i] \in Fracs
          /\ \A i \in 0 .. 1 : halfState[d].Erf[i] \in Fracs /\ halfState[d].Dd[i] \in Int

(***************************************************************************)
(* The reference: spec 4.6 and the derivation in calibrate.c's comment.    *)
(* A stored point is used if it lies in its documented range and replaced  *)
(* by its default otherwise; a blank record (reference code 0 or erased)   *)
(* is all defaults.  Input point (Z, R): B = (R - Z)/3, volts = (code -    *)
(* Z)/B, with the fallback span (3<<23)/10 for R = Z.  Output point (Zo,   *)
(* H) measured through input point (Z, R): D = (Zo - Z)/B, E = (H - Zo)/(B *   *)
(* 0x400000), code = volts/E - D/E.                                        *)
(***************************************************************************)
Effective(s) ==
    IF Wiped(s) THEN DefaultSettings
    ELSE [in  |-> [c \in Inputs |->
                     [zeroIn    |-> IF ZeroInOK(s.in[c]) THEN s.in[c].zeroIn ELSE 0,
                      threeVolt |-> IF ThreeVoltOK(s.in[c]) THEN s.in[c].threeVolt
                                                           ELSE 2516582]],
          out |-> [c \in Outputs |->
                     [zeroOut |-> IF ZeroOutOK(s.out[c]) THEN s.out[c].zeroOut ELSE 0,
                      halfOut |-> IF HalfOutOK(s.out[c]) THEN s.out[c].halfOut
                                                        ELSE 4194304]]]

SpecB(p) == IF p.threeVolt = p.zeroIn THEN Frac(25165824, 30)
                                      ELSE Frac(p.threeVolt - p.zeroIn, 3)

\* volts = code * (1/B) + (-Z/B)
SpecInput(p) == [Brf   |-> Inv(SpecB(p)),
                 mABrf |-> Frac(-p.zeroIn * SpecB(p).den, SpecB(p).num)]

\* 1/E (divided by 0x400000) and (int)(D/E) = (int)((Zo - Z) * 0x400000 / n)
SpecOutput(p, q) ==
    LET n == q.halfOut - q.zeroOut
    IN [Erf |-> Frac(SpecB(p).num, SpecB(p).den * n),
        Dd  |-> TruncShift(q.zeroOut - p.zeroIn, n, 22)]

(***************************************************************************)
(* Each input converts by one calibration point: the gain                  *)
(* (halfState[half[w]].Brf[in[w]]) and the offset (from A[w], filled      *)
(* through inputMap) that algorithm_step applies to input w are the spec's *)
(* conversion of one and the same validated inData entry, however the     *)
(* stored points are valid, invalid, degenerate or erased.  inputMap and   *)
(* half/in are two hand-written tables that must be inverse.              *)
(***************************************************************************)
InputsCalibrated ==
    pc = "done" =>
        \A w \in Inputs : \E e \in Inputs :
            inputCalibrations[w] = SpecInput(Effective(nvm).in[e])

(***************************************************************************)
(* Output o's conversion (halfState[o div 2].Erf/Dd[o mod 2], applied to   *)
(* outputVoltages[o] by algorithm_step) is the spec's conversion for its   *)
(* validated outData entry o measured through the very inData entry that  *)
(* input o converts by: a voltage passed from input o to output o (the     *)
(* default algorithm) comes out as the calibrated voltage.                *)
(***************************************************************************)
OutputsCalibrated ==
    pc = "done" =>
        \A o \in Outputs : \E e \in Inputs :
            /\ inputCalibrations[o] = SpecInput(Effective(nvm).in[e])
            /\ [Erf |-> halfState[o \div 2].Erf[o % 2],
                Dd  |-> halfState[o \div 2].Dd[o % 2]]
                 = SpecOutput(Effective(nvm).in[e], Effective(nvm).out[o])

(***************************************************************************)
(* Defaults are reported (spec 4.6 and 7): "Bad calibration data" is shown *)
(* exactly when a stored point was replaced by a default, except for a     *)
(* blank record, whose defaults are silent.                                *)
(***************************************************************************)
WarnedOfDefaults ==
    pc = "done" => (badCalibration <=> ~Wiped(nvm) /\ Effective(nvm) # nvm)
=============================================================================

--------------------------- MODULE MCCalibration ---------------------------
(***************************************************************************)
(* The calibration points flash may hold, per entry:                       *)
(*   in:  a measured point; a degenerate one (zero span, the fallback);    *)
(*        one out of range in both fields; an erased one (0xffffffff),     *)
(*        which at entry 0 marks the record blank;                         *)
(*   out: a measured point; one out of range in both fields.               *)
(* Entries are chosen independently: 4^6 * 2^4 records.                   *)
(***************************************************************************)
EXTENDS Calibration

MCInPoints ==
    { [zeroIn |-> 2048,     threeVolt |-> 2514944],
      [zeroIn |-> 1048576,  threeVolt |-> 1048576],
      [zeroIn |-> -1048577, threeVolt |-> 3670017],
      [zeroIn |-> -1,       threeVolt |-> -1] }

MCOutPoints ==
    { [zeroOut |-> -1024,   halfOut |-> 4190208],
      [zeroOut |-> 1048577, halfOut |-> 2097151] }
=============================================================================

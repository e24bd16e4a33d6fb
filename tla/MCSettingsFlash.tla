--------------------------- MODULE MCSettingsFlash ---------------------------
(***************************************************************************)
(* SettingsFlash for TLC.  At the first power-up the settings row is       *)
(* erased (a new module), or holds a record an earlier run wrote: FIRST    *)
(* with functions LFO and FM DRUM, or TWIN with the same pair, which a     *)
(* hold of the left button in an expert mode leaves behind.                *)
(***************************************************************************)
EXTENDS SettingsFlash

MCInitFlash ==
    {ErasedRow,
     Record(FIRST, [i \in {0, 1} |-> IF i = 0 THEN 1 ELSE 6]),
     Record(TWIN, [i \in {0, 1} |-> IF i = 0 THEN 1 ELSE 6])}

\* Both encoders still, or encoder 0 one detent clockwise and encoder 1
\* one detent counterclockwise.
MCEncInputs == {[i \in {0, 1} |-> 0], [i \in {0, 1} |-> IF i = 0 THEN 1 ELSE -1]}

\* Both pots at the top of their range (Z.value = 8 * 4095).
MCZInputs == {[i \in {0, 1} |-> 32760]}
=============================================================================

------------------------------ MODULE MCUartRx ------------------------------
(* The receive thread alone, on a line that may carry any byte of a small   *)
(* alphabet at any time (noise included).                                   *)
EXTENDS UartRx

CONSTANTS LineBytes,  \* the bytes that occur on the line
          MaxBytes    \* bound on the bytes read

VARIABLE read         \* the bytes read so far

MCInit == Init /\ read = 0

MCNext ==
  /\ read < MaxBytes
  /\ read' = read + 1
  /\ \E ch \in LineBytes \cup {TimeoutByte} : GetByte(ch)

MCSpec == MCInit /\ [][MCNext]_<<vars, read>>
=============================================================================

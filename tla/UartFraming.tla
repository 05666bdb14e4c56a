---------------------------- MODULE UartFraming ----------------------------
(***************************************************************************)
(* What the receive side of the serial link promises to the frame handler: *)
(* every frame handed over is a contiguous run of bytes of the line that   *)
(* is well formed, no byte of the line belongs to two frames, and the      *)
(* promise may only be broken while the line carries a length byte the     *)
(* receive buffer has no room for (or one that announces no data at all).  *)
(***************************************************************************)
EXTENDS UartFrame

VARIABLES pending,  \* bytes of the line that may still become a frame
          out,      \* the frames handed over so far
          broken    \* the promise no longer holds

Init == pending = << >> /\ out = << >> /\ broken = FALSE

\* A byte is looked at and kept, or everything so far is given up.
Take ==
  /\ ~broken
  /\ \E b \in Byte : pending' \in {Append(pending, b), << >>}
  /\ UNCHANGED <<out, broken>>

\* A byte completes a frame, and the frame is handed over.
Deliver ==
  /\ ~broken
  /\ \E b \in Byte :
       /\ WellFormed(Append(pending, b))
       /\ out' = Append(out, Body(Append(pending, b)))
  /\ pending' = << >>
  /\ UNCHANGED broken

\* Only a frame under way with an impossible length byte breaks the promise.
Break ==
  /\ ~broken
  /\ Len(pending) >= 4 /\ pending[4] \notin SaneLen
  /\ broken' = TRUE

Next == Take \/ Deliver \/ Break \/ (broken /\ broken')

Spec == Init /\ [][Next]_<<pending, out, broken>>
=============================================================================

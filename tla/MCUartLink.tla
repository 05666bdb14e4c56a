----------------------------- MODULE MCUartLink -----------------------------
(* Two kinds of frames, one with a single data byte and one with three.  The *)
(* first data byte of the second is larger than rxbuf and the sum of the     *)
(* first is the first sync byte: the bytes a damaged frame is most easily    *)
(* mistaken for.                                                             *)
EXTENDS UartLink, TLC

Short == 0 :> 1 @@ 1 :> 2 @@ 2 :> 7
Long  == 0 :> 2 @@ 1 :> 4 @@ 2 :> 9 @@ 3 :> 0 @@ 4 :> 2

TwoMessages == {Short, Long}

\* The prototypes' messages hold the bytes that frame them.
TwoStates == {<<6, 7, 1, 0, 5>>, <<9, 0, 7, 6, 1>>}
=============================================================================

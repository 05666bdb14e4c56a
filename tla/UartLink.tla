------------------------------ MODULE UartLink ------------------------------
(***************************************************************************)
(* The serial link: the Zigbee coordinator (external firmware) transmits   *)
(* frames, the line may lose a byte or carry a byte of noise, and the      *)
(* receive thread of zbclient.c (UartRx), or of a prototype (ProtoRx),     *)
(* parses what arrives.                                                    *)
(*                                                                         *)
(* serialGetchar() waits at most ten seconds.  When the line is idle that  *)
(* long the parser is fed the byte 0xff, whatever state it is in.          *)
(***************************************************************************)
EXTENDS UartRx

CONSTANTS Messages,   \* bodies cmd, len, data of the frames transmitted
          States5,    \* messages of a prototype's coordinator, IDH .. STATE3
          AA, C0, AB, \* the bytes that frame those
          Noise,      \* bytes noise can produce
          MaxSent,    \* bound on the frames transmitted
          MaxFaults   \* bound on the bytes lost or inserted

VARIABLES prog,    \* the program on the line: "zbclient" or "zbserver"
          rx_step, i, rebuf, printed,   \* of ProtoRx
          todo,    \* bytes of the current frame still on the line
          msg,     \* the body of the last frame transmitted
          sent,    \* number of frames transmitted
          faults,  \* number of bytes lost or inserted
          clean    \* the current frame met a parser in WW_STATE and no fault

\* A frame of the protocol carries at least a byte of data and fits rxbuf; the
\* byte of a timeout, 0xff, and the second byte of a prototype's frame begin no
\* frame.
ASSUME LinkAssumption ==
  /\ \A b \in Messages : b[1] \in SaneLen /\ b \in [0 .. b[1] -> Byte]
  /\ \A m \in States5 : m \in Seq(Byte) /\ Len(m) = 5
  /\ Noise \subseteq Byte
  /\ TimeoutByte # SYNC1
  /\ {AA, C0, AB} \subseteq Byte /\ AA # C0
  /\ MaxSent \in Nat /\ MaxFaults \in Nat

Proto == INSTANCE ProtoRx

proto    == <<rx_step, i, rebuf, printed>>
line     == <<todo, msg, sent, faults, clean>>
linkVars == <<vars, proto, prog, line>>

\* The receive thread of the program takes a byte.
Take(ch) ==
  /\ \/ prog = "zbclient" /\ GetByte(ch) /\ UNCHANGED proto
     \/ prog = "zbserver" /\ Proto!PGetByte(ch) /\ UNCHANGED vars
  /\ UNCHANGED prog

\* The parser is where a frame can begin.
Ready == IF prog = "zbclient" THEN state = "WW" /\ stray = 0 ELSE rx_step # "C0"

\* The bytes of a frame on the line.
Encode(b) ==
  <<SYNC1, SYNC2>> \o [n \in 1 .. b[1] + 1 |-> b[n-1]] \o <<Checksum(b, b[1])>>

LinkInit ==
  /\ Init /\ Proto!PInit /\ prog \in {"zbclient", "zbserver"}
  /\ todo = << >> /\ msg = << >> /\ sent = 0 /\ faults = 0 /\ clean = FALSE

\* The coordinator starts a frame.
Transmit ==
  /\ todo = << >> /\ sent < MaxSent
  /\ \/ prog = "zbclient" /\ \E b \in Messages : todo' = Encode(b) /\ msg' = b
     \/ prog = "zbserver" /\ \E m \in States5 : todo' = Proto!send_usart(m) /\ msg' = m
  /\ sent' = sent + 1
  /\ clean' = Ready
  /\ UNCHANGED <<vars, proto, prog, faults>>

\* The receive thread takes the next byte of the line.
Receive ==
  /\ todo # << >>
  /\ Take(Head(todo))
  /\ todo' = Tail(todo)
  /\ UNCHANGED <<msg, sent, faults, clean>>

\* The idle line: serialGetchar() gives up.
Timeout ==
  /\ todo = << >>
  /\ Take(TimeoutByte)
  /\ UNCHANGED line

LoseByte ==
  /\ todo # << >> /\ faults < MaxFaults
  /\ todo' = Tail(todo)
  /\ faults' = faults + 1 /\ clean' = FALSE
  /\ UNCHANGED <<vars, proto, prog, msg, sent>>

NoiseByte ==
  /\ faults < MaxFaults
  /\ \E ch \in Noise : Take(ch)
  /\ faults' = faults + 1 /\ clean' = FALSE
  /\ UNCHANGED <<todo, msg, sent>>

\* The link is followed up to the first store outside rxbuf.
LinkNext ==
  /\ stray = 0
  /\ Transmit \/ Receive \/ Timeout \/ LoseByte \/ NoiseByte

\* serialGetchar() always returns: with a byte, or after its timeout.
LinkSpec ==
  /\ LinkInit /\ [][LinkNext]_linkVars
  /\ WF_linkVars(stray = 0 /\ (Receive \/ Timeout))

-----------------------------------------------------------------------------
(* Properties.                                                             *)

\* A frame that meets the parser in WW_STATE and is not damaged is handed to
\* recieve_usart(), once and unchanged, with its last byte; whatever was lost,
\* inserted or timed out before it.
CleanFrameArrives ==
  [][prog = "zbclient" /\ todo # << >> /\ todo' = << >> /\ clean'
       => /\ state' = "WW"
          /\ out' = Append(out, msg)]_linkVars

\* The coordinator's frames never make the thread write past rxbuf: it takes a
\* lost or an inserted byte, after which any byte may be taken for a length.
OverrunNeedsFault == stray = 1 => faults > 0

\* A frame under way with a possible length byte is always finished or given
\* up, even if the rest of it never comes: the timeout bytes push the parser
\* back to WW_STATE.
SaneFrameEnds ==
  (state = "DATA" /\ LEN_Token \in SaneLen /\ stray = 0) ~> (state = "WW")

\* The prototypes' parser takes a frame that is not damaged, also while it still
\* waits for the C0 of an earlier one, with whatever bytes the message is made
\* of: it is printed once and unchanged with its last byte.
ProtoFrameArrives ==
  [][prog = "zbserver" /\ todo # << >> /\ todo' = << >> /\ clean'
       => /\ rx_step' = "START"
          /\ printed' = Append(printed, msg)]_linkVars

\* A frame of a prototype that has begun is ended, if not by its own bytes then
\* by those of the next one or by the timeout: the parser is never lost.
ProtoFrameEnds == (rx_step = "C0") ~> (rx_step = "START")
=============================================================================

------------------------------- MODULE UartRx -------------------------------
(***************************************************************************)
(* The serial receive thread of the gateway: thread() of zbclient.c.       *)
(*                                                                         *)
(* Each turn of its loop takes one byte from serialGetchar() and runs one  *)
(* case of the switch on the global `state'.  One action below is one case.*)
(* serialGetchar() returns -1 after ten seconds of silence; the assignment *)
(* to the uint8_t ch makes that the byte 0xff, so that a byte, real or not,*)
(* always comes: see TimeoutByte.                                          *)
(*                                                                         *)
(* rxbuf has BUFSIZE bytes but is indexed by a length byte of the line.  A *)
(* store past its end goes to an unknown neighbouring global: StrayStore   *)
(* lets it hit any of the parser's own globals, or memory the model does   *)
(* not show.                                                               *)
(***************************************************************************)
EXTENDS UartFrame

VARIABLES
  state,        \* WW_STATE .. FCS_STATE, or another value of the uint8_t
  LEN_Token,    \* length byte of the frame under way
  tempDataLen,  \* data bytes read so far, a uint8_t
  rxbuf,        \* receive buffer
  frame,        \* history: bytes of the line from the 0x55 that was taken
  stray,        \* history: 0 until a store leaves rxbuf, then 1
  out           \* history: frames handed to recieve_usart()

history == <<frame, stray, out>>
vars    == <<state, LEN_Token, tempDataLen, rxbuf, frame, stray, out>>

Framing == INSTANCE UartFraming WITH pending <- frame, broken <- (stray = 1)

States == {"WW", "AA", "CMD", "LEN", "DATA", "FCS", "other"}

\* serialGetchar() = -1, converted to uint8_t.
TimeoutByte == MOD - 1

Init ==
  /\ state = "WW" /\ tempDataLen = 0 /\ LEN_Token = 0
  /\ rxbuf = [i \in 0 .. BUFSIZE-1 |-> 0]
  /\ frame = << >> /\ stray = 0 /\ out = << >>

-----------------------------------------------------------------------------
(* The cases of the switch.                                                *)

\* The history follows the frame under way until a store leaves rxbuf.
Keep(ch) == IF stray = 1 THEN << >> ELSE Append(frame, ch)

WwByte(ch) ==
  /\ state = "WW"
  /\ IF ch = SYNC1 THEN state' = "AA" /\ frame' = Keep(ch)
                   ELSE UNCHANGED <<state, frame>>
  /\ UNCHANGED <<LEN_Token, tempDataLen, rxbuf, stray, out>>

AaByte(ch) ==
  /\ state = "AA"
  /\ IF ch = SYNC2 THEN state' = "CMD" /\ frame' = Keep(ch)
                   ELSE state' = "WW"  /\ frame' = << >>
  /\ UNCHANGED <<LEN_Token, tempDataLen, rxbuf, stray, out>>

CmdByte(ch) ==
  /\ state = "CMD"
  /\ rxbuf' = [rxbuf EXCEPT ![0] = ch]
  /\ state' = "LEN"
  /\ frame' = Keep(ch)
  /\ UNCHANGED <<LEN_Token, tempDataLen, stray, out>>

\* Mutant: tempDataLen is not reset for a new frame.
LenByteNoReset(ch) ==
  /\ state = "LEN"
  /\ LEN_Token' = ch
  /\ rxbuf' = [rxbuf EXCEPT ![1] = ch]
  /\ state' = "DATA"
  /\ frame' = Keep(ch)
  /\ UNCHANGED <<tempDataLen, stray, out>>

LenByte(ch) ==
  /\ state = "LEN"
  /\ LEN_Token' = ch
  /\ tempDataLen' = 0
  /\ rxbuf' = [rxbuf EXCEPT ![1] = ch]
  /\ state' = "DATA"
  /\ frame' = Keep(ch)
  /\ UNCHANGED <<stray, out>>

\* Mutant: one data byte too many is awaited.
AfterDataLate(count, length) == IF count = length THEN "FCS" ELSE "DATA"

\* The comparison is made in int: LEN_Token - 1 may be -1.
AfterData(count, length) == IF count = length - 1 THEN "FCS" ELSE "DATA"

\* tempDataLen++ on a uint8_t.
Inc(n) == (n + 1) % MOD

\* A store of v past the end of rxbuf.
StrayStore(v) ==
  /\ stray' = 1
  /\ \E victim \in {"elsewhere", "state", "LEN_Token", "tempDataLen"} :
       /\ tempDataLen' = IF victim = "tempDataLen" THEN v ELSE Inc(tempDataLen)
       /\ LEN_Token' = IF victim = "LEN_Token" THEN v ELSE LEN_Token
       /\ state' \in IF victim = "state" THEN States
                     ELSE {AfterData(tempDataLen', LEN_Token')}

DataByte(ch) ==
  /\ state = "DATA"
  /\ IF 2 + tempDataLen < BUFSIZE
       THEN /\ rxbuf' = [rxbuf EXCEPT ![2 + tempDataLen] = ch]
            /\ tempDataLen' = Inc(tempDataLen)
            /\ state' = AfterData(tempDataLen', LEN_Token)
            /\ UNCHANGED <<LEN_Token, stray>>
       ELSE StrayStore(ch) /\ UNCHANGED rxbuf
  /\ frame' = IF stray' = 1 THEN << >> ELSE Append(frame, ch)
  /\ UNCHANGED out

\* The bytes passed to recieve_usart(rxbuf, LEN_Token+1).
Received == [i \in 0 .. LEN_Token |-> rxbuf[i]]

\* The whole case: sum, store of the sum, hand-over if it is right, reset.
FcsByte(ch) ==
  /\ state = "FCS" /\ LEN_Token + 1 < BUFSIZE
  /\ LET crcout == Checksum(Received, LEN_Token)
     IN  /\ rxbuf' = [rxbuf EXCEPT ![LEN_Token + 1] = crcout]
         /\ out' = IF crcout = ch THEN Append(out, Received) ELSE out
  /\ state' = "WW"
  /\ frame' = << >>
  /\ UNCHANGED <<LEN_Token, tempDataLen, stray>>

\* The same case when the sum, or the bytes it is made of, lie outside rxbuf:
\* what is read and where the sum is stored are unknown.  The loop variable is
\* a uint8_t, so for the largest length byte the loop never ends: the thread
\* takes no further byte, and no action is enabled.
FcsByteOutside(ch) ==
  /\ state = "FCS" /\ LEN_Token + 1 \in BUFSIZE .. MOD-1
  /\ \E v \in Byte : /\ LEN_Token' \in {LEN_Token, v}
                    /\ tempDataLen' \in {tempDataLen, v}
  /\ out' \in {out, Append(out, rxbuf)}
  /\ state' = "WW"
  /\ stray' = 1
  /\ frame' = << >>
  /\ UNCHANGED rxbuf

\* default:
OtherByte(ch) ==
  /\ state = "other"
  /\ state' = "WW"
  /\ UNCHANGED <<LEN_Token, tempDataLen, rxbuf, history>>

\* One turn of the loop of thread().
GetByte(ch) ==
  \/ WwByte(ch)   \/ AaByte(ch)  \/ CmdByte(ch)        \/ LenByte(ch)
  \/ DataByte(ch) \/ FcsByte(ch) \/ FcsByteOutside(ch) \/ OtherByte(ch)

Next == \E ch \in Byte : GetByte(ch)

Spec == Init /\ [][Next]_vars

-----------------------------------------------------------------------------
(* Properties.                                                             *)

\* The globals keep their types, whatever the line carries: in particular
\* tempDataLen and LEN_Token stay bytes and rxbuf keeps its size.
TypeOK ==
  /\ state \in States
  /\ LEN_Token \in Byte /\ tempDataLen \in Byte
  /\ rxbuf \in [0 .. BUFSIZE-1 -> Byte]
  /\ stray \in {0, 1}
  /\ frame \in Seq(Byte)

\* The bytes of the frame under way are where recieve_usart() will look for
\* them, and the parser's position in the frame is the length of what it read:
\* what makes the hand-over of the last case right.
InFrame ==
  stray = 0 =>
    /\ state # "other"
    /\ state = "WW"   => frame = << >>
    /\ state = "AA"   => Len(frame) = 1
    /\ state = "CMD"  => Len(frame) = 2
    /\ state = "LEN"  => Len(frame) = 3
    /\ state = "DATA" => Len(frame) = 4 + tempDataLen
    /\ state = "FCS"  => Len(frame) = 3 + LEN_Token
    /\ Len(frame) > 0 => frame[1] = SYNC1
    /\ Len(frame) > 1 => frame[2] = SYNC2
    /\ Len(frame) > 3 => frame[4] = LEN_Token
    /\ \A i \in 3 .. Len(frame) : rxbuf[i-3] = frame[i]

\* The sum is only ever computed over a frame that has all its data: the
\* length byte is one that leaves at least one byte of data and, until a store
\* has left rxbuf, the data loop stops exactly there.
DataComplete ==
  stray = 0 =>
    /\ state = "DATA" /\ LEN_Token > 1 => tempDataLen < LEN_Token - 1
    /\ state = "FCS" => 1 < LEN_Token /\ LEN_Token < BUFSIZE
    /\ 2 + tempDataLen <= BUFSIZE

\* The receive thread implements the framing promise: what recieve_usart() is
\* given is always a contiguous, well-formed run of the line's bytes.
FramingSpec == Framing!Spec
=============================================================================

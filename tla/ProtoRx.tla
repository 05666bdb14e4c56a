------------------------------- MODULE ProtoRx -------------------------------
(***************************************************************************)
(* The serial side of the prototype servers (zbserver.c, and the same code *)
(* in zbserver-json.c and zbserver-weixin.c): frames of ten bytes,         *)
(*    AA C0 IDH IDL STATE1 STATE2 STATE3 REV CRC AB                        *)
(* made by send_usart() and taken apart by thread(), which prints those it *)
(* accepts.                                                                *)
(***************************************************************************)
EXTENDS Naturals, Sequences

CONSTANTS MOD,           \* number of values of a uint8_t
          AA, C0, AB     \* the bytes that frame a message

VARIABLES
  rx_step,   \* START_STATE, AA_STATE or C0_STATE
  i,         \* bytes in rebuf
  rebuf,     \* IDH .. CRC
  printed    \* history: the messages accepted, IDH .. STATE3

PInit == rx_step = "START" /\ i = 0 /\ rebuf = [n \in 0 .. 6 |-> 0] /\ printed = << >>

\* send_usart(id, state1, state2, state3), the id as its two bytes.  The sum is
\* made without REV, which is 0.
send_usart(m) ==
  <<AA, C0>> \o m \o <<0, (m[1] + m[2] + m[3] + m[4] + m[5]) % MOD, AB>>

StartByte(ch) ==
  /\ rx_step = "START"
  /\ rx_step' = IF ch = AA THEN "AA" ELSE "START"
  /\ UNCHANGED <<i, rebuf, printed>>

\* Mutant: a byte other than C0 makes the parser look for AA again.
AaByteStrict(ch) ==
  /\ rx_step = "AA"
  /\ rx_step' = IF ch = C0 THEN "C0" ELSE "START"
  /\ UNCHANGED <<i, rebuf, printed>>

\* The parser waits for C0 whatever comes before it.
AaByte(ch) ==
  /\ rx_step = "AA"
  /\ rx_step' = IF ch = C0 THEN "C0" ELSE "AA"
  /\ UNCHANGED <<i, rebuf, printed>>

FillByte(ch) ==
  /\ rx_step = "C0" /\ i < 7
  /\ rebuf' = [rebuf EXCEPT ![i] = ch] /\ i' = i + 1
  /\ UNCHANGED <<rx_step, printed>>

\* temp2, which includes REV.
Sum == (rebuf[0] + rebuf[1] + rebuf[2] + rebuf[3] + rebuf[4] + rebuf[5]) % MOD

\* Mutant: i is not set back.
LastByteKeeps(ch) ==
  /\ rx_step = "C0" /\ i = 7
  /\ rx_step' = IF ch = AB THEN "START" ELSE "C0"
  /\ printed' = IF ch = AB /\ rebuf[6] = Sum
                THEN Append(printed, [n \in 1 .. 5 |-> rebuf[n-1]]) ELSE printed
  /\ UNCHANGED <<i, rebuf>>

\* The tenth byte ends the frame, whether it is accepted or not.
LastByte(ch) ==
  /\ rx_step = "C0" /\ i = 7
  /\ rx_step' = "START" /\ i' = 0
  /\ printed' = IF ch = AB /\ rebuf[6] = Sum
                THEN Append(printed, [n \in 1 .. 5 |-> rebuf[n-1]]) ELSE printed
  /\ UNCHANGED rebuf

\* One turn of the loop of thread().
PGetByte(ch) == StartByte(ch) \/ AaByte(ch) \/ FillByte(ch) \/ LastByte(ch)
=============================================================================

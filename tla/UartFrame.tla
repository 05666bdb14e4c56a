----------------------------- MODULE UartFrame -----------------------------
(***************************************************************************)
(* The frames of the serial link between the Zigbee coordinator and the    *)
(* gateway, as the receive thread and send_usart() of zbclient.c have them:*)
(*                                                                         *)
(*     55 aa  cmd  len  data[1] .. data[len-1]  fcs                        *)
(*                                                                         *)
(* fcs is the sum of cmd, len and the data modulo 2^8.                     *)
(***************************************************************************)
EXTENDS Integers, Sequences

CONSTANTS MOD,      \* number of values of a uint8_t (256 in the code)
          BUFSIZE,  \* size of rxbuf (200 in the code)
          SYNC1,    \* 0x55
          SYNC2     \* 0xaa

ASSUME UartAssumption ==
  /\ MOD \in Nat /\ BUFSIZE \in Nat
  /\ 4 < BUFSIZE /\ BUFSIZE < MOD - 1
  /\ SYNC1 \in 0 .. MOD-1 /\ SYNC2 \in 0 .. MOD-1

Byte == 0 .. MOD-1

\* Conversion to uint8_t (total, so that its type needs no induction).
U8(x) == IF x \in Int THEN x % MOD ELSE 0

\* Sum modulo 2^8 of p[0] .. p[n].
Checksum(p, n) ==
  LET sum[i \in 0 .. n] == IF i = 0 THEN p[0] ELSE sum[i-1] + p[i]
  IN  U8(sum[n])

\* Length bytes that a frame of the protocol can carry: at least one byte of
\* data, and room in rxbuf for cmd, len, the data and the computed sum.
SaneLen == 2 .. BUFSIZE-2

\* cmd, len and data of a run of bytes, indexed from 0 as in rxbuf.
Body(s) == [i \in 0 .. s[4] |-> s[i+3]]

WellFormed(s) ==
  /\ Len(s) > 5
  /\ s[1] = SYNC1 /\ s[2] = SYNC2
  /\ s[4] \in SaneLen /\ Len(s) = s[4] + 4
  /\ s[Len(s)] = Checksum(Body(s), s[4])
=============================================================================

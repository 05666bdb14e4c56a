--------------------------- MODULE UartLinkProofs ---------------------------
(***************************************************************************)
(* Proofs about the serial receive thread for every size of the byte, of   *)
(* the buffer and every choice of the sync bytes; and about the link, for  *)
(* every set of messages and number of frames and faults.                  *)
(***************************************************************************)
EXTENDS UartLink, TLAPS

IInv == TypeOK /\ InFrame /\ DataComplete

\* A uint8_t is a byte whatever is converted to it.
LEMMA U8Type == \A x : U8(x) \in Byte
BY UartAssumption DEF U8, Byte

\* The sum the receive thread computes is a byte.
LEMMA ChecksumType == \A p, n : Checksum(p, n) \in Byte
BY U8Type DEF Checksum

\* What appending a byte to the history does.
LEMMA AppendFacts ==
  ASSUME NEW S, NEW s \in Seq(S), NEW x \in S
  PROVE  /\ Append(s, x) \in Seq(S)
         /\ Len(Append(s, x)) = Len(s) + 1
         /\ \A n \in 1 .. Len(s) : Append(s, x)[n] = s[n]
         /\ Append(s, x)[Len(s) + 1] = x
OBVIOUS

\* The history stays a sequence of bytes.
LEMMA KeepType == ASSUME TypeOK, NEW ch \in Byte PROVE Keep(ch) \in Seq(Byte)
BY DEF Keep, TypeOK

LEMMA InitIInv == Init => IInv
<1> SUFFICES ASSUME Init PROVE IInv
  OBVIOUS
<1>1. TypeOK
  BY UartAssumption DEF Init, TypeOK, Byte, States
<1>2. InFrame
  BY DEF Init, InFrame
<1>3. DataComplete
  BY UartAssumption DEF Init, DataComplete
<1> QED
  BY <1>1, <1>2, <1>3 DEF IInv

\* Each case of the switch keeps the types.
LEMMA StepTypeOK ==
  ASSUME TypeOK, NEW ch \in Byte, GetByte(ch) PROVE TypeOK'
<1>1. CASE WwByte(ch)
  BY <1>1, KeepType DEF WwByte, TypeOK, States
<1>2. CASE AaByte(ch)
  <2>1. (frame \in Seq(Byte))'
    <3>1. << >> \in Seq(Byte)
      OBVIOUS
    <3> QED
      BY <1>2, <3>1, KeepType DEF AaByte
  <2> QED
    BY <1>2, <2>1 DEF AaByte, TypeOK, States
<1>3. CASE CmdByte(ch)
  <2>1. (rxbuf \in [0 .. BUFSIZE-1 -> Byte])'
    BY <1>3, UartAssumption DEF CmdByte, TypeOK
  <2> QED
    BY <1>3, <2>1, KeepType DEF CmdByte, TypeOK, States
<1>4. CASE LenByte(ch)
  <2>1. (rxbuf \in [0 .. BUFSIZE-1 -> Byte])'
    BY <1>4, UartAssumption DEF LenByte, TypeOK
  <2>2. (tempDataLen \in Byte)'
    BY <1>4, UartAssumption DEF LenByte, Byte
  <2> QED
    BY <1>4, <2>1, <2>2, KeepType DEF LenByte, TypeOK, States
<1>5. CASE DataByte(ch)
  <2>1. (frame \in Seq(Byte))'
    BY <1>5, AppendFacts DEF DataByte, TypeOK
  <2>2. (rxbuf \in [0 .. BUFSIZE-1 -> Byte])'
    BY <1>5, UartAssumption DEF DataByte, TypeOK
  <2>3. (tempDataLen \in Byte /\ LEN_Token \in Byte)'
    BY <1>5, UartAssumption DEF DataByte, StrayStore, Inc, TypeOK, Byte
  <2>4. (stray \in {0, 1} /\ state \in States)'
    BY <1>5 DEF DataByte, StrayStore, AfterData, TypeOK, States
  <2> QED
    BY <2>1, <2>2, <2>3, <2>4 DEF TypeOK
<1>6. CASE FcsByte(ch)
  <2>1. (rxbuf \in [0 .. BUFSIZE-1 -> Byte])'
    BY <1>6, UartAssumption, ChecksumType DEF FcsByte, TypeOK
  <2> QED
    BY <1>6, <2>1 DEF FcsByte, TypeOK, States
<1>7. CASE FcsByteOutside(ch)
  BY <1>7 DEF FcsByteOutside, TypeOK, States
<1>8. CASE OtherByte(ch)
  BY <1>8 DEF OtherByte, history, TypeOK, States
<1> QED
  BY <1>1, <1>2, <1>3, <1>4, <1>5, <1>6, <1>7, <1>8 DEF GetByte

\* Each case of the switch keeps rxbuf in step with the line.
LEMMA StepInFrame ==
  ASSUME IInv, NEW ch \in Byte, GetByte(ch) PROVE InFrame'
<1>0. /\ TypeOK /\ InFrame /\ DataComplete
      /\ Len(frame) \in Nat
      /\ frame \in Seq(Byte)
      /\ tempDataLen \in Nat /\ LEN_Token \in Nat /\ ch \in Nat
  BY UartAssumption DEF IInv, TypeOK, Byte
<1>a. CASE stray' # 0
  BY <1>a DEF InFrame
<1>b. CASE stray' = 0
  <2>0. stray = 0
    BY <1>0, <1>b DEF GetByte, WwByte, AaByte, CmdByte, LenByte, DataByte,
      StrayStore, FcsByte, FcsByteOutside, OtherByte, history, TypeOK
  <2>a. /\ Len(Append(frame, ch)) = Len(frame) + 1
        /\ \A n \in 1 .. Len(frame) : Append(frame, ch)[n] = frame[n]
        /\ Append(frame, ch)[Len(frame) + 1] = ch
    BY <1>0, AppendFacts
  <2>1. CASE WwByte(ch)
    BY <1>0, <2>0, <2>a, <2>1 DEF WwByte, Keep, InFrame
  <2>2. CASE AaByte(ch)
    <3>1. CASE ch = SYNC2
      <4>1. state = "AA" /\ state' = "CMD" /\ frame' = Append(frame, ch)
        BY <2>0, <2>2, <3>1 DEF AaByte, Keep
      <4>2. Len(frame) = 1 /\ frame[1] = SYNC1
        BY <1>0, <2>0, <4>1 DEF InFrame
      <4>3. Len(frame') = 2 /\ frame'[1] = SYNC1 /\ frame'[2] = SYNC2
        BY <2>a, <3>1, <4>1, <4>2
      <4> QED
        BY <4>1, <4>3 DEF InFrame
    <3>2. CASE ch # SYNC2
      BY <2>2, <3>2 DEF AaByte, InFrame
    <3> QED
      BY <3>1, <3>2
  <2>3. CASE CmdByte(ch)
    <3>1. state = "CMD" /\ state' = "LEN" /\ frame' = Append(frame, ch)
      BY <2>0, <2>3 DEF CmdByte, Keep
    <3>2. Len(frame) = 2 /\ frame[1] = SYNC1 /\ frame[2] = SYNC2
      BY <1>0, <2>0, <3>1 DEF InFrame
    <3>3. /\ Len(frame') = 3 /\ frame'[1] = SYNC1 /\ frame'[2] = SYNC2
          /\ frame'[3] = ch
      BY <2>a, <3>1, <3>2
    <3>4. rxbuf'[0] = ch
      BY <2>3, UartAssumption DEF CmdByte, IInv, TypeOK
    <3>5. \A n \in 3 .. Len(frame') : rxbuf'[n-3] = frame'[n]
      BY <3>3, <3>4
    <3> QED
      BY <3>1, <3>3, <3>5 DEF InFrame
  <2>4. CASE LenByte(ch)
    <3>1. /\ state = "LEN" /\ state' = "DATA" /\ frame' = Append(frame, ch)
          /\ LEN_Token' = ch /\ tempDataLen' = 0
      BY <2>0, <2>4 DEF LenByte, Keep
    <3>2. /\ Len(frame) = 3 /\ frame[1] = SYNC1 /\ frame[2] = SYNC2
          /\ rxbuf[0] = frame[3]
      BY <1>0, <2>0, <3>1 DEF InFrame
    <3>3. /\ Len(frame') = 4 /\ frame'[1] = SYNC1 /\ frame'[2] = SYNC2
          /\ frame'[3] = frame[3] /\ frame'[4] = ch
      BY <2>a, <3>1, <3>2
    <3>4. rxbuf'[0] = rxbuf[0] /\ rxbuf'[1] = ch
      BY <2>4, UartAssumption DEF LenByte, IInv, TypeOK
    <3>5. \A n \in 3 .. Len(frame') : rxbuf'[n-3] = frame'[n]
      BY <3>2, <3>3, <3>4
    <3> QED
      BY <3>1, <3>3, <3>5 DEF InFrame
  <2>5. CASE DataByte(ch)
    <3>1. /\ state = "DATA" /\ frame' = Append(frame, ch)
          /\ 2 + tempDataLen < BUFSIZE
          /\ rxbuf' = [rxbuf EXCEPT ![2 + tempDataLen] = ch]
          /\ tempDataLen' = Inc(tempDataLen)
          /\ state' = AfterData(tempDataLen', LEN_Token)
          /\ LEN_Token' = LEN_Token
      BY <1>b, <2>5 DEF DataByte, StrayStore
    <3>2. tempDataLen' = tempDataLen + 1
      BY <1>0, <3>1, UartAssumption DEF Inc
    <3>3. /\ Len(frame) = 4 + tempDataLen /\ frame[1] = SYNC1
          /\ frame[2] = SYNC2 /\ frame[4] = LEN_Token
          /\ \A n \in 3 .. Len(frame) : rxbuf[n-3] = frame[n]
      BY <1>0, <2>0, <3>1 DEF InFrame
    <3>4. /\ Len(frame') = 5 + tempDataLen /\ frame'[1] = SYNC1
          /\ frame'[2] = SYNC2 /\ frame'[4] = LEN_Token
          /\ frame'[5 + tempDataLen] = ch
          /\ \A n \in 3 .. 4 + tempDataLen : frame'[n] = frame[n]
      BY <1>0, <2>a, <3>1, <3>3
    <3>5. /\ rxbuf'[2 + tempDataLen] = ch
          /\ \A n \in 0 .. 1 + tempDataLen : rxbuf'[n] = rxbuf[n]
      BY <1>0, <3>1, UartAssumption DEF TypeOK
    <3>6. \A n \in 3 .. Len(frame') : rxbuf'[n-3] = frame'[n]
      BY <1>0, <3>3, <3>4, <3>5
    <3>7. /\ state' = "DATA" \/ (state' = "FCS" /\ tempDataLen + 1 = LEN_Token - 1)
      BY <3>1, <3>2 DEF AfterData
    <3>8. /\ state' = "DATA" => Len(frame') = 4 + tempDataLen'
          /\ state' = "FCS"  => Len(frame') = 3 + LEN_Token'
      BY <1>0, <3>1, <3>2, <3>4, <3>7
    <3> QED
      BY <3>1, <3>4, <3>6, <3>7, <3>8 DEF InFrame
  <2>6. CASE FcsByte(ch)
    BY <2>6 DEF FcsByte, InFrame
  <2>7. CASE FcsByteOutside(ch)
    BY <1>b, <2>7 DEF FcsByteOutside
  <2>8. CASE OtherByte(ch)
    BY <1>0, <2>0, <2>8 DEF OtherByte, InFrame
  <2> QED
    BY <2>1, <2>2, <2>3, <2>4, <2>5, <2>6, <2>7, <2>8 DEF GetByte
<1> QED
  BY <1>a, <1>b

\* Each case of the switch keeps the data loop within its bounds.
LEMMA StepDataComplete ==
  ASSUME IInv, NEW ch \in Byte, GetByte(ch) PROVE DataComplete'
<1>0. /\ TypeOK /\ InFrame /\ DataComplete
      /\ tempDataLen \in Nat /\ LEN_Token \in Nat /\ ch \in Nat
      /\ MOD \in Nat /\ BUFSIZE \in Nat /\ 4 < BUFSIZE /\ BUFSIZE < MOD - 1
  BY UartAssumption DEF IInv, TypeOK, Byte
<1>1. CASE WwByte(ch) \/ AaByte(ch) \/ CmdByte(ch)
  BY <1>0, <1>1 DEF WwByte, AaByte, CmdByte, DataComplete
<1>2. CASE LenByte(ch)
  BY <1>0, <1>2 DEF LenByte, DataComplete
<1>3. CASE DataByte(ch) /\ stray' # 0
  BY <1>3 DEF DataComplete
<1>4. CASE DataByte(ch) /\ stray' = 0
  <2>1. /\ stray = 0 /\ state = "DATA"
        /\ 2 + tempDataLen < BUFSIZE
        /\ tempDataLen' = Inc(tempDataLen)
        /\ state' = AfterData(tempDataLen', LEN_Token)
        /\ LEN_Token' = LEN_Token
    BY <1>4 DEF DataByte, StrayStore
  <2>2. tempDataLen' = tempDataLen + 1
    BY <1>0, <2>1 DEF Inc
  <2> QED
    BY <1>0, <2>1, <2>2 DEF AfterData, DataComplete
<1>5. CASE FcsByte(ch) \/ FcsByteOutside(ch) \/ OtherByte(ch)
  BY <1>0, <1>5 DEF FcsByte, FcsByteOutside, OtherByte, history, DataComplete,
    InFrame
<1> QED
  BY <1>1, <1>2, <1>3, <1>4, <1>5 DEF GetByte

LEMMA StepIInv == IInv /\ [Next]_vars => IInv'
<1> SUFFICES ASSUME IInv, [Next]_vars PROVE IInv'
  OBVIOUS
<1>1. CASE Next
  <2>1. PICK ch \in Byte : GetByte(ch)
    BY <1>1 DEF Next
  <2> QED
    BY <2>1, StepTypeOK, StepInFrame, StepDataComplete DEF IInv
<1>2. CASE UNCHANGED vars
  BY <1>2 DEF vars, IInv, TypeOK, InFrame, DataComplete
<1> QED
  BY <1>1, <1>2

\* The inductive invariant: the parser's globals are typed, rxbuf mirrors the
\* bytes taken from the line, and the data loop stops where it should.
THEOREM SpecIInv == Spec => []IInv
BY InitIInv, StepIInv, PTL DEF Spec

\* Type correctness of the receive thread.
THEOREM SpecTypeOK == Spec => []TypeOK
<1>1. IInv => TypeOK
  BY DEF IInv
<1> QED
  BY <1>1, SpecIInv, PTL

\* Until a store leaves rxbuf, the buffer mirrors the line and the parser's
\* position is the number of bytes taken.
THEOREM SpecInFrame == Spec => []InFrame
<1>1. IInv => InFrame
  BY DEF IInv
<1> QED
  BY <1>1, SpecIInv, PTL

\* Until a store leaves rxbuf, the sum is only computed over complete data.
THEOREM SpecDataComplete == Spec => []DataComplete
<1>1. IInv => DataComplete
  BY DEF IInv
<1> QED
  BY <1>1, SpecIInv, PTL

-----------------------------------------------------------------------------
(* The receive thread implements the framing promise.                      *)

\* A well-formed run of bytes means the same in both modules.
LEMMA SameFormat ==
  /\ Framing!Byte = Byte
  /\ Framing!SaneLen = SaneLen
  /\ \A s : Framing!Body(s) = Body(s)
  /\ \A s : Framing!WellFormed(s) <=> WellFormed(s)
BY DEF Framing!Byte, Byte, Framing!SaneLen, SaneLen, Framing!Body, Body,
  Framing!WellFormed, WellFormed, Framing!Checksum, Checksum, Framing!U8, U8

\* When the sum is right, the bytes handed over are a well-formed run of the
\* line.
LEMMA DeliveredWellFormed ==
  ASSUME IInv, stray = 0, NEW ch \in Byte, FcsByte(ch),
         Checksum(Received, LEN_Token) = ch
  PROVE  /\ WellFormed(Append(frame, ch))
         /\ Body(Append(frame, ch)) = Received
<1> DEFINE s == Append(frame, ch)
<1>0. /\ TypeOK /\ InFrame /\ DataComplete
      /\ Len(frame) \in Nat /\ frame \in Seq(Byte)
      /\ LEN_Token \in Nat
      /\ MOD \in Nat /\ BUFSIZE \in Nat /\ 4 < BUFSIZE /\ BUFSIZE < MOD - 1
  BY UartAssumption DEF IInv, TypeOK, Byte
<1>1. state = "FCS" /\ LEN_Token + 1 < BUFSIZE
  BY DEF FcsByte
<1>2. 1 < LEN_Token
  BY <1>0, <1>1 DEF DataComplete
<1>3. /\ Len(frame) = 3 + LEN_Token
      /\ frame[1] = SYNC1 /\ frame[2] = SYNC2 /\ frame[4] = LEN_Token
      /\ \A n \in 3 .. Len(frame) : rxbuf[n-3] = frame[n]
  BY <1>0, <1>1, <1>2 DEF InFrame
<1>4. /\ Len(s) = 4 + LEN_Token
      /\ \A n \in 1 .. 3 + LEN_Token : s[n] = frame[n]
      /\ s[4 + LEN_Token] = ch
  BY <1>0, <1>3, AppendFacts
<1>5. s[1] = SYNC1 /\ s[2] = SYNC2 /\ s[4] = LEN_Token
  BY <1>0, <1>2, <1>3, <1>4
<1>6. \A n \in 0 .. LEN_Token : s[n+3] = rxbuf[n]
  <2> SUFFICES ASSUME NEW n \in 0 .. LEN_Token PROVE s[n+3] = rxbuf[n]
    OBVIOUS
  <2>1. n + 3 \in 3 .. Len(frame) /\ (n + 3) - 3 = n
    BY <1>0, <1>3
  <2>2. rxbuf[n] = frame[n+3]
    BY <1>3, <2>1
  <2> QED
    BY <1>0, <1>4, <2>1, <2>2
<1>7. Body(s) = Received
  BY <1>5, <1>6 DEF Body, Received
<1>8. LEN_Token \in SaneLen
  BY <1>0, <1>1, <1>2 DEF SaneLen
<1>9. WellFormed(s)
  BY <1>0, <1>2, <1>4, <1>5, <1>7, <1>8 DEF WellFormed
<1> QED
  BY <1>7, <1>9

\* Every step of the receive thread is a step of the promise.
LEMMA StepFraming ==
  ASSUME IInv, IInv', NEW ch \in Byte, GetByte(ch)
  PROVE  Framing!Next \/ UNCHANGED <<frame, out, stray>>
<1>0. TypeOK /\ InFrame /\ DataComplete
  BY DEF IInv
<1>s. stray \in {0, 1} /\ stray' \in {0, 1}
  BY DEF IInv, TypeOK
<1>a. CASE stray = 1
  <2>1. stray' = 1
    BY <1>a DEF GetByte, WwByte, AaByte, CmdByte, LenByte, DataByte,
      StrayStore, FcsByte, FcsByteOutside, OtherByte, history
  <2> QED
    BY <1>a, <2>1 DEF Framing!Next
<1>b. CASE stray = 0
  <2>1. CASE WwByte(ch)
    BY <1>0, <1>b, <2>1, SameFormat
      DEF WwByte, Keep, InFrame, Framing!Next, Framing!Take
  <2>2. CASE AaByte(ch)
    BY <1>b, <2>2, SameFormat DEF AaByte, Keep, Framing!Next, Framing!Take
  <2>3. CASE CmdByte(ch) \/ LenByte(ch)
    BY <1>b, <2>3, SameFormat
      DEF CmdByte, LenByte, Keep, Framing!Next, Framing!Take
  <2>4. CASE DataByte(ch) /\ 2 + tempDataLen < BUFSIZE
    BY <1>b, <2>4, SameFormat DEF DataByte, Framing!Next, Framing!Take
  <2>5. CASE DataByte(ch) /\ ~(2 + tempDataLen < BUFSIZE)
    <3>1. stray' = 1 /\ state = "DATA"
      BY <2>5 DEF DataByte, StrayStore
    <3>2. Len(frame) >= 4 /\ frame[4] = LEN_Token
      BY <1>0, <1>b, <3>1, UartAssumption DEF InFrame, TypeOK, Byte
    <3>3. LEN_Token \notin SaneLen
      BY <1>0, <1>b, <2>5, <3>1, UartAssumption
        DEF DataComplete, SaneLen, TypeOK, Byte
    <3> QED
      BY <1>b, <3>1, <3>2, <3>3, SameFormat DEF Framing!Next, Framing!Break
  <2>6. CASE FcsByte(ch) /\ Checksum(Received, LEN_Token) = ch
    <3>1. /\ WellFormed(Append(frame, ch))
          /\ Body(Append(frame, ch)) = Received
      BY <1>b, <2>6, DeliveredWellFormed
    <3>2. out' = Append(out, Received) /\ frame' = << >> /\ stray' = stray
      BY <2>6 DEF FcsByte
    <3> QED
      BY <1>b, <3>1, <3>2, SameFormat DEF Framing!Next, Framing!Deliver
  <2>7. CASE FcsByte(ch) /\ Checksum(Received, LEN_Token) # ch
    BY <1>b, <2>7, SameFormat DEF FcsByte, Framing!Next, Framing!Take
  <2>8. CASE FcsByteOutside(ch)
    <3>1. stray' = 1 /\ state = "FCS" /\ LEN_Token + 1 >= BUFSIZE
      BY <2>8, UartAssumption DEF FcsByteOutside
    <3>2. Len(frame) >= 4 /\ frame[4] = LEN_Token
      BY <1>0, <1>b, <3>1, UartAssumption DEF InFrame, TypeOK, DataComplete, Byte
    <3>3. LEN_Token \notin SaneLen
      BY <1>0, <3>1, UartAssumption DEF SaneLen, TypeOK, Byte
    <3> QED
      BY <1>b, <3>1, <3>2, <3>3, SameFormat DEF Framing!Next, Framing!Break
  <2>9. CASE OtherByte(ch)
    BY <1>0, <1>b, <2>9 DEF OtherByte, InFrame
  <2> QED
    BY <2>1, <2>2, <2>3, <2>4, <2>5, <2>6, <2>7, <2>8, <2>9 DEF GetByte
<1> QED
  BY <1>s, <1>a, <1>b

\* The receive thread of zbclient.c hands recieve_usart() only contiguous,
\* well-formed, non-overlapping runs of the line's bytes, until a length byte
\* outside 2 .. BUFSIZE-2 makes it write past rxbuf.
THEOREM Refinement == Spec => FramingSpec
<1>1. Init => Framing!Init
  BY DEF Init, Framing!Init
<1>2. IInv /\ IInv' /\ [Next]_vars
        => [Framing!Next]_<<frame, out, (stray = 1)>>
  <2> SUFFICES ASSUME IInv, IInv', [Next]_vars
               PROVE  [Framing!Next]_<<frame, out, (stray = 1)>>
    OBVIOUS
  <2>1. CASE Next
    <3>1. PICK ch \in Byte : GetByte(ch)
      BY <2>1 DEF Next
    <3> QED
      BY <3>1, StepFraming
  <2>2. CASE UNCHANGED vars
    BY <2>2 DEF vars
  <2> QED
    BY <2>1, <2>2
<1> QED
  BY <1>1, <1>2, SpecIInv, PTL DEF Spec, FramingSpec, Framing!Spec

-----------------------------------------------------------------------------
(* How long a frame takes.                                                 *)

\* The bytes until the frame under way ends: its data and the sum.
BytesLeft == CASE state = "DATA" -> LEN_Token - tempDataLen
               [] state = "FCS"  -> 1
               [] OTHER          -> 0

\* A frame whose length byte is possible is under way.
SaneFrame == state \in {"DATA", "FCS"} /\ LEN_Token \in SaneLen /\ stray = 0

\* Each byte, whichever it is, brings such a frame nearer to its end by one, and
\* none of them leads out of rxbuf.
FrameShrinks ==
  [][SaneFrame => /\ BytesLeft \in Nat /\ BytesLeft > 0 /\ BytesLeft' = BytesLeft - 1
                  /\ SaneFrame' \/ state' = "WW"]_vars

\* On any line, for every byte width and buffer size, a frame with a possible
\* length byte ends after exactly the bytes it announces, be they data, noise or
\* the 0xff of a timeout: the measure behind SaneFrameEnds.
THEOREM SpecFrameShrinks == Spec => FrameShrinks
<1>1. ASSUME IInv, IInv', Next, SaneFrame
      PROVE  /\ BytesLeft \in Nat /\ BytesLeft > 0 /\ BytesLeft' = BytesLeft - 1
             /\ SaneFrame' \/ state' = "WW"
  <2>1. /\ MOD \in Nat /\ BUFSIZE \in Nat /\ BUFSIZE < MOD
        /\ LEN_Token \in Nat /\ 2 <= LEN_Token /\ LEN_Token <= BUFSIZE - 2
        /\ tempDataLen \in Nat /\ stray = 0
    BY <1>1, UartAssumption DEF IInv, TypeOK, Byte, SaneFrame, SaneLen
  <2>2. PICK ch \in Byte : GetByte(ch)
    BY <1>1 DEF Next
  <2>3. CASE state = "DATA"
    <3>1. DataByte(ch)
      BY <2>2, <2>3 DEF GetByte, WwByte, AaByte, CmdByte, LenByte, FcsByte, FcsByteOutside, OtherByte
    <3>2. tempDataLen < LEN_Token - 1
      BY <1>1, <2>1, <2>3 DEF IInv, DataComplete
    <3>3. 2 + tempDataLen < BUFSIZE /\ Inc(tempDataLen) = tempDataLen + 1
      BY <2>1, <3>2 DEF Inc
    <3>4. /\ tempDataLen' = tempDataLen + 1 /\ LEN_Token' = LEN_Token /\ stray' = 0
          /\ state' = IF tempDataLen + 1 = LEN_Token - 1 THEN "FCS" ELSE "DATA"
      BY <2>1, <3>1, <3>3 DEF DataByte, AfterData
    <3>5. BytesLeft = LEN_Token - tempDataLen
      BY <2>3 DEF BytesLeft
    <3>6. BytesLeft' = LEN_Token - tempDataLen - 1
      BY <2>1, <3>2, <3>4 DEF BytesLeft
    <3>7. SaneFrame'
      BY <1>1, <3>4 DEF SaneFrame
    <3> QED
      BY <2>1, <3>2, <3>5, <3>6, <3>7
  <2>4. CASE state = "FCS"
    <3>1. FcsByte(ch) \/ FcsByteOutside(ch)
      BY <2>2, <2>4 DEF GetByte, WwByte, AaByte, CmdByte, LenByte, DataByte, OtherByte
    <3>2. state' = "WW"
      BY <3>1 DEF FcsByte, FcsByteOutside
    <3> QED
      BY <2>4, <3>2 DEF BytesLeft
  <2> QED
    BY <1>1, <2>3, <2>4 DEF SaneFrame
<1>2. IInv /\ IInv' /\ [Next]_vars
        => [SaneFrame => /\ BytesLeft \in Nat /\ BytesLeft > 0 /\ BytesLeft' = BytesLeft - 1
                         /\ SaneFrame' \/ state' = "WW"]_vars
  BY <1>1
<1> QED
  BY <1>2, SpecIInv, PTL DEF Spec, FrameShrinks

-----------------------------------------------------------------------------
(* The link.                                                               *)

LEMMA Sizes ==
  /\ MOD \in Nat /\ BUFSIZE \in Nat /\ 4 < BUFSIZE /\ BUFSIZE < MOD - 1
  /\ TimeoutByte \in Byte /\ SYNC1 \in Byte /\ SYNC2 \in Byte /\ 0 \in Byte
  /\ AA \in Byte /\ C0 \in Byte /\ AB \in Byte /\ Byte \subseteq Nat
BY UartAssumption, LinkAssumption DEF TimeoutByte, Byte

\* What two runs of bytes behind each other are.
LEMMA ConcatFacts ==
  ASSUME NEW s \in Seq(Byte), NEW t \in Seq(Byte)
  PROVE  /\ s \o t \in Seq(Byte) /\ Len(s \o t) = Len(s) + Len(t)
         /\ \A n \in 1 .. Len(s) : (s \o t)[n] = s[n]
         /\ \A n \in 1 .. Len(t) : (s \o t)[Len(s) + n] = t[n]
OBVIOUS

\* The bytes of a frame of the coordinator.
LEMMA EncodeFacts ==
  ASSUME NEW b \in Messages
  PROVE  /\ b[1] \in Nat /\ 2 <= b[1] /\ b[1] <= BUFSIZE - 2 /\ b \in [0 .. b[1] -> Byte]
         /\ Encode(b) \in Seq(Byte) /\ Len(Encode(b)) = b[1] + 4
         /\ Encode(b)[1] = SYNC1 /\ Encode(b)[2] = SYNC2
         /\ \A n \in 0 .. b[1] : Encode(b)[n + 3] = b[n]
         /\ Encode(b)[b[1] + 4] = Checksum(b, b[1])
<1> DEFINE L == b[1]
           d == [n \in 1 .. L + 1 |-> b[n-1]]
           h == <<SYNC1, SYNC2>>
           f == <<Checksum(b, L)>>
<1>1. L \in Nat /\ 2 <= L /\ L <= BUFSIZE - 2 /\ b \in [0 .. L -> Byte]
  BY LinkAssumption, Sizes DEF SaneLen
<1>2. h \in Seq(Byte) /\ Len(h) = 2 /\ h[1] = SYNC1 /\ h[2] = SYNC2
  BY Sizes
<1>3. f \in Seq(Byte) /\ Len(f) = 1 /\ f[1] = Checksum(b, L)
  BY ChecksumType
<1>4. d \in Seq(Byte) /\ Len(d) = L + 1 /\ \A n \in 1 .. L + 1 : d[n] = b[n-1]
  <2>1. \A n \in 1 .. L + 1 : b[n-1] \in Byte
    BY <1>1
  <2> HIDE DEF L
  <2> QED
    BY <1>1, <2>1
<1> HIDE DEF L, d, h, f
<1>5. /\ h \o d \in Seq(Byte) /\ Len(h \o d) = L + 3
      /\ (h \o d)[1] = SYNC1 /\ (h \o d)[2] = SYNC2
      /\ \A n \in 1 .. L + 1 : (h \o d)[2 + n] = b[n-1]
  <2>1. /\ h \o d \in Seq(Byte) /\ Len(h \o d) = Len(h) + Len(d)
        /\ \A n \in 1 .. Len(h) : (h \o d)[n] = h[n]
        /\ \A n \in 1 .. Len(d) : (h \o d)[Len(h) + n] = d[n]
    BY <1>2, <1>4, ConcatFacts
  <2>2. 1 \in 1 .. Len(h) /\ 2 \in 1 .. Len(h) /\ Len(h) + Len(d) = L + 3
    BY <1>1, <1>2, <1>4
  <2> QED
    BY <1>2, <1>4, <2>1, <2>2
<1>6. /\ (h \o d) \o f \in Seq(Byte) /\ Len((h \o d) \o f) = L + 4
      /\ \A n \in 1 .. L + 3 : ((h \o d) \o f)[n] = (h \o d)[n]
      /\ ((h \o d) \o f)[(L + 3) + 1] = Checksum(b, L)
  <2> DEFINE g == h \o d
  <2>1. g \in Seq(Byte) /\ Len(g) = L + 3
    BY <1>5
  <2> HIDE DEF g
  <2>2. /\ g \o f \in Seq(Byte) /\ Len(g \o f) = Len(g) + Len(f)
        /\ \A n \in 1 .. Len(g) : (g \o f)[n] = g[n]
        /\ \A n \in 1 .. Len(f) : (g \o f)[Len(g) + n] = f[n]
    BY <1>3, <2>1, ConcatFacts
  <2>3. 1 \in 1 .. Len(f) /\ Len(g) + Len(f) = L + 4
    BY <1>1, <1>3, <2>1
  <2> QED
    BY <1>3, <2>1, <2>2, <2>3 DEF g
<1>7. Encode(b) = (h \o d) \o f
  BY DEF Encode, h, d, f, L
<1>8. ASSUME NEW n \in 0 .. L PROVE Encode(b)[n + 3] = b[n]
  <2>1. n + 1 \in 1 .. L + 1 /\ 2 + (n + 1) = n + 3 /\ (n + 1) - 1 = n /\ n + 3 \in 1 .. L + 3
    BY <1>1
  <2>2. (h \o d)[2 + (n + 1)] = b[(n + 1) - 1]
    BY <1>5, <2>1
  <2> QED
    BY <1>6, <1>7, <2>1, <2>2
<1>9. (L + 3) + 1 = L + 4 /\ 1 \in 1 .. L + 3 /\ 2 \in 1 .. L + 3
  BY <1>1
<1>10. Encode(b)[1] = SYNC1 /\ Encode(b)[2] = SYNC2
  BY <1>5, <1>6, <1>7, <1>9
<1> QED
  BY <1>1, <1>6, <1>7, <1>8, <1>9, <1>10 DEF L

LEMMA ElementFacts ==
  ASSUME NEW s \in Seq(Byte) PROVE \A n \in 1 .. Len(s) : s[n] \in Byte
OBVIOUS

\* The bytes of a frame of a prototype.
LEMMA ProtoFacts ==
  ASSUME NEW m \in States5
  PROVE  /\ m \in Seq(Byte) /\ Len(m) = 5
         /\ Proto!send_usart(m) \in Seq(Byte) /\ Len(Proto!send_usart(m)) = 10
         /\ Proto!send_usart(m)[1] = AA /\ Proto!send_usart(m)[2] = C0
         /\ \A n \in 1 .. 5 : Proto!send_usart(m)[n + 2] = m[n]
         /\ Proto!send_usart(m)[8] = 0
         /\ Proto!send_usart(m)[9] = (m[1] + m[2] + m[3] + m[4] + m[5]) % MOD
         /\ Proto!send_usart(m)[10] = AB
<1> DEFINE c == (m[1] + m[2] + m[3] + m[4] + m[5]) % MOD
           h == <<AA, C0>>
           f == <<0, c, AB>>
<1>1. m \in Seq(Byte) /\ Len(m) = 5
  BY LinkAssumption
<1>2. c \in Byte
  <2>1. m[1] \in Nat /\ m[2] \in Nat /\ m[3] \in Nat /\ m[4] \in Nat /\ m[5] \in Nat
    <3>1. \A n \in 1 .. Len(m) : m[n] \in Byte
      BY <1>1, ElementFacts
    <3>2. 1 \in 1 .. 5 /\ 2 \in 1 .. 5 /\ 3 \in 1 .. 5 /\ 4 \in 1 .. 5 /\ 5 \in 1 .. 5
      OBVIOUS
    <3>3. m[1] \in Byte /\ m[2] \in Byte /\ m[3] \in Byte /\ m[4] \in Byte /\ m[5] \in Byte
      BY <1>1, <3>1, <3>2, Zenon
    <3> HIDE DEF c, h, f
    <3> QED
      BY <3>3, Sizes, Zenon
  <2> QED
    BY <2>1, Sizes DEF Byte
<1> HIDE DEF c
<1>3. h \in Seq(Byte) /\ Len(h) = 2 /\ h[1] = AA /\ h[2] = C0
  BY Sizes
<1>4. f \in Seq(Byte) /\ Len(f) = 3 /\ f[1] = 0 /\ f[2] = c /\ f[3] = AB
  BY <1>2, Sizes
<1> HIDE DEF h, f
<1>5. /\ h \o m \in Seq(Byte) /\ Len(h \o m) = 7
      /\ (h \o m)[1] = AA /\ (h \o m)[2] = C0
      /\ \A n \in 1 .. 5 : (h \o m)[2 + n] = m[n]
  <2>1. /\ h \o m \in Seq(Byte) /\ Len(h \o m) = Len(h) + Len(m)
        /\ \A n \in 1 .. Len(h) : (h \o m)[n] = h[n]
        /\ \A n \in 1 .. Len(m) : (h \o m)[Len(h) + n] = m[n]
    BY <1>1, <1>3, ConcatFacts
  <2> QED
    BY <1>1, <1>3, <2>1
<1>6. /\ (h \o m) \o f \in Seq(Byte) /\ Len((h \o m) \o f) = 10
      /\ \A n \in 1 .. 7 : ((h \o m) \o f)[n] = (h \o m)[n]
      /\ ((h \o m) \o f)[7 + 1] = 0 /\ ((h \o m) \o f)[7 + 2] = c /\ ((h \o m) \o f)[7 + 3] = AB
  <2> DEFINE g == h \o m
  <2>1. g \in Seq(Byte) /\ Len(g) = 7
    BY <1>5
  <2> HIDE DEF g
  <2>2. /\ g \o f \in Seq(Byte) /\ Len(g \o f) = Len(g) + Len(f)
        /\ \A n \in 1 .. Len(g) : (g \o f)[n] = g[n]
        /\ \A n \in 1 .. Len(f) : (g \o f)[Len(g) + n] = f[n]
    BY <1>4, <2>1, ConcatFacts
  <2>3. 1 \in 1 .. Len(f) /\ 2 \in 1 .. Len(f) /\ 3 \in 1 .. Len(f) /\ Len(g) + Len(f) = 10
    BY <1>4, <2>1
  <2> QED
    BY <1>4, <2>1, <2>2, <2>3 DEF g
<1>7. Proto!send_usart(m) = (h \o m) \o f
  BY DEF Proto!send_usart, h, f, c
<1>8. \A n \in 1 .. 5 : ((h \o m) \o f)[n + 2] = m[n]
  <2>1. \A n \in 1 .. 5 : 2 + n = n + 2 /\ n + 2 \in 1 .. 7
    OBVIOUS
  <2> QED
    BY <1>5, <1>6, <2>1
<1> DEFINE g == (h \o m) \o f
<1>9. /\ g \in Seq(Byte) /\ Len(g) = 10 /\ g[8] = 0 /\ g[9] = c /\ g[10] = AB
      /\ \A n \in 1 .. 5 : g[n + 2] = m[n]
  <2>1. 7 + 1 = 8 /\ 7 + 2 = 9 /\ 7 + 3 = 10
    OBVIOUS
  <2> QED
    BY <1>6, <1>8, <2>1, Zenon
<1>10. g[1] = AA /\ g[2] = C0
  BY <1>5, <1>6
<1> HIDE DEF g
<1>11. Proto!send_usart(m) = g
  BY <1>7 DEF g
<1>12. c = (m[1] + m[2] + m[3] + m[4] + m[5]) % MOD
  BY DEF c
<1> QED
  BY <1>1, <1>9, <1>10, <1>11, <1>12, Zenon

\* The line carries bytes, so the link's steps are the parser's.
LinkType ==
  /\ prog \in {"zbclient", "zbserver"}
  /\ todo \in Seq(Byte) /\ faults \in Nat /\ clean \in BOOLEAN

LEMMA LinkInitType == LinkInit => LinkType
<1>1. << >> \in Seq(Byte)
  OBVIOUS
<1>2. LinkInit => clean \in BOOLEAN
  BY Zenon DEF LinkInit
<1>3. LinkInit => prog \in {"zbclient", "zbserver"} /\ todo = << >> /\ faults = 0
  BY DEF LinkInit
<1> QED
  BY <1>1, <1>2, <1>3 DEF LinkType

LEMMA LinkStepType == LinkType /\ [LinkNext]_linkVars => LinkType'
<1> SUFFICES ASSUME LinkType, [LinkNext]_linkVars PROVE LinkType'
  OBVIOUS
<1>1. CASE Transmit
  <2>1. todo' \in Seq(Byte)
    BY <1>1, EncodeFacts, ProtoFacts DEF Transmit
  <2>2. clean' \in BOOLEAN
    BY <1>1 DEF Transmit, Ready
  <2> QED
    BY <1>1, <2>1, <2>2 DEF Transmit, LinkType
<1>2. CASE Receive \/ LoseByte
  <2>1. todo' \in Seq(Byte)
    BY <1>2 DEF Receive, LoseByte, LinkType
  <2>2. clean' \in BOOLEAN
    BY <1>2, Zenon DEF Receive, LoseByte, LinkType
  <2>3. prog' = prog /\ faults' \in Nat
    BY <1>2 DEF Receive, LoseByte, Take, LinkType
  <2> QED
    BY <2>1, <2>2, <2>3 DEF LinkType
<1>3. CASE Timeout
  BY <1>3 DEF Timeout, Take, line, LinkType
<1>4. CASE NoiseByte
  <2>1. clean' \in BOOLEAN
    BY <1>4, Zenon DEF NoiseByte
  <2>2. prog' = prog /\ faults' \in Nat /\ todo' = todo
    BY <1>4 DEF NoiseByte, Take, LinkType
  <2> QED
    BY <2>1, <2>2 DEF LinkType
<1>5. CASE UNCHANGED linkVars
  BY <1>5 DEF linkVars, line, LinkType
<1> QED
  BY <1>1, <1>2, <1>3, <1>4, <1>5 DEF LinkNext

LEMMA LinkStepGetByte ==
  ASSUME LinkType, [LinkNext]_linkVars
  PROVE  (\E ch \in Byte : GetByte(ch)) \/ UNCHANGED vars
<1>1. CASE Receive
  <2>1. Head(todo) \in Byte
    BY <1>1 DEF Receive, LinkType
  <2> QED
    BY <1>1, <2>1 DEF Receive, Take
<1>2. CASE Timeout
  BY <1>2, Sizes DEF Timeout, Take
<1>3. CASE NoiseByte
  BY <1>3, LinkAssumption DEF NoiseByte, Take
<1>4. CASE Transmit \/ LoseByte \/ UNCHANGED linkVars
  BY <1>4 DEF Transmit, LoseByte, linkVars, vars
<1> QED
  BY <1>1, <1>2, <1>3, <1>4 DEF LinkNext

\* Whatever the line does, the receive thread on it is the one of UartRx: all
\* that is proved of that one holds on the link.
THEOREM LinkIsUartRx == LinkSpec => Spec
<1>1. LinkInit => Init
  BY DEF LinkInit
<1>2. LinkType /\ [LinkNext]_linkVars => [Next]_vars
  BY LinkStepGetByte DEF Next
<1> QED
  BY <1>1, <1>2, LinkInitType, LinkStepType, PTL DEF LinkSpec, Spec

-----------------------------------------------------------------------------
(* The frames of the coordinator on the line.                              *)

\* What is left of a run of bytes when its first is taken.
LEMMA TailFacts ==
  ASSUME NEW s \in Seq(Byte), s # << >>
  PROVE  /\ Tail(s) \in Seq(Byte) /\ Len(s) \in Nat /\ Len(s) > 0
         /\ Len(Tail(s)) = Len(s) - 1 /\ Head(s) = s[1] /\ s[1] \in Byte
         /\ \A n \in 1 .. Len(s) - 1 : Tail(s)[n] = s[n + 1]
         /\ Tail(s) = << >> <=> Len(s) = 1
<1>1. Len(s) \in Nat /\ Len(s) > 0 /\ Head(s) = s[1] /\ Tail(s) \in Seq(Byte)
      /\ Len(Tail(s)) = Len(s) - 1
  OBVIOUS
<1>2. \A n \in 1 .. Len(s) - 1 : Tail(s)[n] = s[n + 1]
  BY <1>1
<1>3. Tail(s) = << >> <=> Len(Tail(s)) = 0
  BY <1>1
<1>4. s[1] \in Byte
  BY <1>1
<1> QED
  BY <1>1, <1>2, <1>3, <1>4

\* A frame that is not damaged: what the parser has read and what is still on
\* the line make up the bytes of the message transmitted.
Sync ==
  prog = "zbclient" /\ clean /\ todo # << >> =>
    /\ stray = 0 /\ msg \in Messages
    /\ Len(frame) + Len(todo) = msg[1] + 4
    /\ \A n \in 1 .. Len(frame) : frame[n] = Encode(msg)[n]
    /\ \A n \in 1 .. Len(todo) : todo[n] = Encode(msg)[Len(frame) + n]

\* Where the parser is in an undamaged frame, and what it does with the next
\* byte of it: it reads on, or hands over the message with the last one.
LEMMA SyncReceive ==
  ASSUME IInv, LinkType, Sync, prog = "zbclient", clean, todo # << >>,
         GetByte(Head(todo))
  PROVE  \/ /\ Len(todo) > 1 /\ stray' = 0
            /\ frame' = Append(frame, Head(todo))
         \/ /\ Len(todo) = 1 /\ stray' = 0 /\ state' = "WW"
            /\ out' = Append(out, msg)
<1> DEFINE L == msg[1]  E == Encode(msg)  ch == Head(todo)  p == Len(frame)
<1>1. /\ stray = 0 /\ msg \in Messages /\ p + Len(todo) = L + 4
      /\ \A n \in 1 .. p : frame[n] = E[n]
      /\ \A n \in 1 .. Len(todo) : todo[n] = E[p + n]
  BY DEF Sync
<1>2. /\ L \in Nat /\ 2 <= L /\ L <= BUFSIZE - 2 /\ msg \in [0 .. L -> Byte]
      /\ Len(E) = L + 4 /\ E[1] = SYNC1 /\ E[2] = SYNC2
      /\ \A n \in 0 .. L : E[n + 3] = msg[n]
      /\ E[L + 4] = Checksum(msg, L)
  BY <1>1, EncodeFacts
<1>3. /\ Len(todo) \in Nat /\ Len(todo) > 0 /\ ch = todo[1] /\ ch \in Byte
  BY TailFacts DEF LinkType
<1>4. /\ TypeOK /\ InFrame /\ DataComplete /\ p \in Nat
      /\ tempDataLen \in Nat /\ LEN_Token \in Nat /\ frame \in Seq(Byte)
  BY Sizes DEF IInv, TypeOK
<1>5. ch = E[p + 1]
  BY <1>1, <1>3
<1>6. /\ state # "other"
      /\ state = "WW"   => p = 0
      /\ state = "AA"   => p = 1
      /\ state = "CMD"  => p = 2
      /\ state = "LEN"  => p = 3
      /\ state = "DATA" => p = 4 + tempDataLen
      /\ state = "FCS"  => p = 3 + LEN_Token
      /\ p > 3 => frame[4] = LEN_Token
      /\ \A n \in 3 .. p : rxbuf[n-3] = frame[n]
      /\ state = "DATA" /\ LEN_Token > 1 => tempDataLen < LEN_Token - 1
      /\ state = "FCS" => 1 < LEN_Token /\ LEN_Token < BUFSIZE
  BY <1>1, <1>4 DEF InFrame, DataComplete
<1>7. p > 3 => LEN_Token = L
  <2>1. p > 3 => 4 \in 1 .. p
    BY <1>4
  <2>2. E[1 + 3] = msg[1]
    BY <1>2
  <2> QED
    BY <1>1, <1>6, <2>1, <2>2
<1> HIDE DEF ch, E, p, L
<1>8. CASE WwByte(ch)
  <2>1. p = 0 /\ ch = SYNC1
    BY <1>2, <1>5, <1>6, <1>8 DEF WwByte
  <2> QED
    BY <1>1, <1>2, <1>3, <1>8, <2>1 DEF WwByte, Keep, ch
<1>9. CASE AaByte(ch)
  <2>1. p = 1 /\ ch = SYNC2
    BY <1>2, <1>5, <1>6, <1>9 DEF AaByte
  <2> QED
    BY <1>1, <1>2, <1>3, <1>9, <2>1 DEF AaByte, Keep, ch
<1>10. CASE CmdByte(ch)
  <2>1. p = 2
    BY <1>6, <1>10 DEF CmdByte
  <2> QED
    BY <1>1, <1>2, <1>3, <1>10, <2>1 DEF CmdByte, Keep, ch
<1>11. CASE LenByte(ch)
  <2>1. p = 3
    BY <1>6, <1>11 DEF LenByte
  <2> QED
    BY <1>1, <1>2, <1>3, <1>11, <2>1 DEF LenByte, Keep, ch
<1>12. CASE DataByte(ch)
  <2>1. p = 4 + tempDataLen /\ LEN_Token = L /\ tempDataLen < L - 1
    BY <1>2, <1>4, <1>6, <1>7, <1>12 DEF DataByte
  <2>2. 2 + tempDataLen < BUFSIZE /\ Len(todo) > 1
    <3>1. \A b, l, t, n \in Nat :
            l <= b - 2 /\ t < l - 1 /\ (4 + t) + n = l + 4 => 2 + t < b /\ n > 1
      OBVIOUS
    <3>2. BUFSIZE \in Nat /\ (4 + tempDataLen) + Len(todo) = L + 4
      BY <1>1, <2>1, Sizes
    <3> QED
      BY <1>2, <1>3, <1>4, <2>1, <3>1, <3>2
  <2> QED
    BY <1>1, <1>12, <2>2 DEF DataByte, ch
<1>13. CASE FcsByte(ch)
  <2>a. state = "FCS"
    BY <1>13 DEF FcsByte
  <2>b. p = 3 + LEN_Token /\ LEN_Token = L
    BY <1>2, <1>4, <1>6, <1>7, <2>a
  <2>c. \A k, l \in Nat : (3 + l) + k = l + 4 => k = 1
    OBVIOUS
  <2>1. p = 3 + LEN_Token /\ LEN_Token = L /\ Len(todo) = 1
    BY <1>1, <1>2, <1>3, <2>b, <2>c
  <2>2. ASSUME NEW n \in 0 .. L PROVE rxbuf[n] = msg[n]
    <3>1. n + 3 \in 3 .. p /\ n + 3 \in 1 .. p /\ (n + 3) - 3 = n
      BY <1>2, <2>1
    <3>2. rxbuf[(n + 3) - 3] = frame[n + 3]
      BY <1>6, <3>1
    <3> QED
      BY <1>1, <1>2, <3>1, <3>2
  <2>3. Received = msg
    BY <1>2, <2>1, <2>2 DEF Received
  <2>4. ch = Checksum(msg, L)
    <3>1. p + 1 = L + 4
      BY <1>2, <2>1
    <3> QED
      BY <1>2, <1>5, <3>1
  <2> QED
    BY <1>1, <1>13, <2>1, <2>3, <2>4 DEF FcsByte
<1>14. CASE FcsByteOutside(ch)
  <2>1. LEN_Token = L /\ L + 1 < BUFSIZE
    BY <1>2, <1>4, <1>6, <1>7, <1>14, Sizes DEF FcsByteOutside
  <2> QED
    BY <1>2, <1>14, <2>1, Sizes DEF FcsByteOutside
<1>15. CASE OtherByte(ch)
  BY <1>6, <1>15 DEF OtherByte
<1> QED
  BY <1>8, <1>9, <1>10, <1>11, <1>12, <1>13, <1>14, <1>15 DEF GetByte, ch

\* An idle parser stays idle when the line is silent.
LEMMA IdleTimeout ==
  ASSUME state = "WW", GetByte(TimeoutByte)
  PROVE  state' = "WW" /\ stray' = stray
BY LinkAssumption DEF GetByte, WwByte, AaByte, CmdByte, LenByte, DataByte, FcsByte,
  FcsByteOutside, OtherByte

\* As long as the line has damaged nothing every frame begins at an idle parser.
Orderly ==
  /\ prog = "zbserver" => stray = 0
  /\ faults = 0 /\ prog = "zbclient" =>
       /\ stray = 0
       /\ todo = << >> => state = "WW"
       /\ todo # << >> => clean

LInv == IInv /\ LinkType /\ Sync /\ Orderly

LEMMA LinkInitInv == LinkInit => LInv
<1> SUFFICES ASSUME LinkInit PROVE LInv
  OBVIOUS
<1>1. Init /\ todo = << >> /\ state = "WW" /\ stray = 0
  BY DEF LinkInit, Init
<1>2. IInv /\ LinkType
  BY <1>1, InitIInv, LinkInitType
<1>3. Sync
  BY <1>1 DEF Sync
<1>4. Orderly
  BY <1>1 DEF Orderly
<1> QED
  BY <1>2, <1>3, <1>4 DEF LInv

\* A parser in WW_STATE has read nothing of the frame that begins.
LEMMA SyncTransmit == ASSUME LInv, Transmit PROVE Sync'
<1> SUFFICES ASSUME prog' = "zbclient", clean', todo' # << >>
             PROVE  /\ stray' = 0 /\ msg' \in Messages
                    /\ Len(frame') + Len(todo') = msg'[1] + 4
                    /\ \A n \in 1 .. Len(frame') : frame'[n] = Encode(msg')[n]
                    /\ \A n \in 1 .. Len(todo') : todo'[n] = Encode(msg')[Len(frame') + n]
  BY DEF Sync, Encode, Checksum
<1>1. prog = "zbclient" /\ frame' = frame /\ stray' = stray
  BY DEF Transmit, vars
<1>2. state = "WW" /\ stray = 0
  BY <1>1 DEF Transmit, Ready
<1>3. frame = << >>
  BY <1>2 DEF LInv, IInv, InFrame
<1>4. PICK b \in Messages : todo' = Encode(b) /\ msg' = b
  BY <1>1 DEF Transmit
<1>5. Len(Encode(b)) = b[1] + 4 /\ b[1] \in Nat
  BY EncodeFacts
<1>6. Len(frame') = 0
  BY <1>1, <1>3
<1> QED
  BY <1>1, <1>2, <1>4, <1>5, <1>6

LEMMA SyncStep ==
  ASSUME LInv, IInv', LinkType', [LinkNext]_linkVars PROVE Sync'
<1>0. IInv /\ LinkType /\ Sync /\ Orderly
  BY DEF LInv
<1>1. CASE Transmit
  BY <1>1, SyncTransmit
<1>2. CASE Receive
  <2> SUFFICES ASSUME prog' = "zbclient", clean', todo' # << >> PROVE Sync'
    BY DEF Sync
  <2>1. prog = "zbclient" /\ clean /\ todo # << >> /\ GetByte(Head(todo))
        /\ todo' = Tail(todo) /\ msg' = msg
    BY <1>2 DEF Receive, Take
  <2>2. /\ todo \in Seq(Byte) /\ frame \in Seq(Byte) /\ Head(todo) \in Byte
        /\ Len(todo) \in Nat /\ Len(frame) \in Nat /\ Len(todo) > 0
        /\ Len(todo') = Len(todo) - 1 /\ Head(todo) = todo[1]
        /\ \A n \in 1 .. Len(todo) - 1 : todo'[n] = todo[n + 1]
        /\ todo' = << >> <=> Len(todo) = 1
    BY <1>0, <2>1, TailFacts DEF LinkType, IInv, TypeOK
  <2>3. stray' = 0 /\ frame' = Append(frame, Head(todo))
    BY <1>0, <2>1, <2>2, SyncReceive
  <2>4. /\ Len(frame') = Len(frame) + 1
        /\ \A n \in 1 .. Len(frame) : frame'[n] = frame[n]
        /\ frame'[Len(frame) + 1] = Head(todo)
    BY <2>2, <2>3, AppendFacts
  <2>5. /\ msg \in Messages /\ Len(frame) + Len(todo) = msg[1] + 4
        /\ \A n \in 1 .. Len(frame) : frame[n] = Encode(msg)[n]
        /\ \A n \in 1 .. Len(todo) : todo[n] = Encode(msg)[Len(frame) + n]
    BY <1>0, <2>1 DEF Sync
  <2>6. Encode(msg)' = Encode(msg)
    BY <2>1 DEF Encode, Checksum
  <2>7. ASSUME NEW n \in 1 .. Len(frame') PROVE frame'[n] = Encode(msg)[n]
    <3>1. n \in 1 .. Len(frame) \/ n = Len(frame) + 1
      BY <2>2, <2>4
    <3>2. Head(todo) = Encode(msg)[Len(frame) + 1]
      BY <2>2, <2>5
    <3> QED
      BY <2>4, <2>5, <3>1, <3>2
  <2>8. ASSUME NEW n \in 1 .. Len(todo')
        PROVE  todo'[n] = Encode(msg)[Len(frame') + n]
    <3>1. n + 1 \in 1 .. Len(todo) /\ n \in 1 .. Len(todo) - 1
          /\ Len(frame) + (n + 1) = Len(frame') + n
      BY <2>2, <2>4
    <3> QED
      BY <2>2, <2>5, <3>1
  <2>9. Len(frame') + Len(todo') = Len(frame) + Len(todo)
    BY <2>2, <2>4
  <2> QED
    BY <2>1, <2>3, <2>5, <2>6, <2>7, <2>8, <2>9 DEF Sync
<1>3. CASE Timeout
  BY <1>3 DEF Timeout, line, Sync
<1>4. CASE LoseByte \/ NoiseByte
  <2>1. ~ clean'
    BY <1>4 DEF LoseByte, NoiseByte
  <2> QED
    BY <2>1 DEF Sync
<1>5. CASE UNCHANGED linkVars
  <2>1. UNCHANGED <<prog, clean, todo, stray, msg, frame>>
    BY <1>5 DEF linkVars, vars, line
  <2>2. Encode(msg)' = Encode(msg)
    BY <2>1 DEF Encode, Checksum
  <2> QED
    BY <1>0, <2>1, <2>2 DEF Sync
<1> QED
  BY <1>1, <1>2, <1>3, <1>4, <1>5 DEF LinkNext

LEMMA OrderlyStep ==
  ASSUME LInv, LinkType', [LinkNext]_linkVars PROVE Orderly'
<1>0. IInv /\ LinkType /\ Sync /\ Orderly
  BY DEF LInv
<1>a. faults \in Nat /\ prog \in {"zbclient", "zbserver"} /\ todo \in Seq(Byte)
  BY <1>0 DEF LinkType
<1>b. prog' = prog
  BY DEF LinkNext, Transmit, Receive, Timeout, LoseByte, NoiseByte, Take, linkVars
<1>c. prog = "zbserver" => stray' = stray
  BY DEF LinkNext, Transmit, Receive, Timeout, LoseByte, NoiseByte, Take, linkVars, vars
<1>d. prog' = "zbserver" => stray' = 0
  BY <1>0, <1>b, <1>c DEF Orderly
<1> SUFFICES ASSUME faults' = 0, prog = "zbclient"
             PROVE  /\ stray' = 0
                    /\ todo' = << >> => state' = "WW"
                    /\ todo' # << >> => clean'
  BY <1>b, <1>d DEF Orderly
<1>1. CASE Transmit
  <2>1. faults = 0 /\ state = "WW" /\ stray = 0
    BY <1>0, <1>1 DEF Transmit, Orderly
  <2>2. clean' /\ state' = "WW" /\ stray' = 0
    BY <1>1, <2>1 DEF Transmit, Ready, vars
  <2> QED
    BY <2>2
<1>2. CASE Receive
  <2>1. faults = 0 /\ todo # << >> /\ GetByte(Head(todo)) /\ todo' = Tail(todo)
    BY <1>2 DEF Receive, Take
  <2>2. clean /\ clean'
    BY <1>0, <1>2, <2>1 DEF Receive, Orderly
  <2>3. Len(todo) \in Nat /\ (todo' = << >> <=> Len(todo) = 1)
    BY <1>a, <2>1, TailFacts
  <2>a. \A k \in Nat : k > 1 => k # 1
    OBVIOUS
  <2>4. Len(todo) > 1 => Len(todo) # 1
    BY <2>3, <2>a, Zenon
  <2> QED
    BY <1>0, <2>1, <2>2, <2>3, <2>4, SyncReceive
<1>3. CASE Timeout
  <2>1. faults = 0 /\ todo = << >> /\ todo' = << >> /\ GetByte(TimeoutByte)
    BY <1>3 DEF Timeout, Take, line
  <2> QED
    BY <1>0, <2>1, IdleTimeout DEF Orderly
<1>4. CASE LoseByte \/ NoiseByte
  <2>1. faults' = faults + 1
    BY <1>4 DEF LoseByte, NoiseByte
  <2> QED
    BY <1>a, <2>1
<1>5. CASE UNCHANGED linkVars
  BY <1>0, <1>5 DEF linkVars, vars, line, Orderly
<1> QED
  BY <1>1, <1>2, <1>3, <1>4, <1>5 DEF LinkNext

LEMMA LinkStepInv == LInv /\ [LinkNext]_linkVars => LInv'
<1> SUFFICES ASSUME LInv, [LinkNext]_linkVars PROVE LInv'
  OBVIOUS
<1>1. IInv /\ LinkType
  BY DEF LInv
<1>2. LinkType'
  BY <1>1, LinkStepType
<1>3. IInv'
  BY <1>1, LinkStepGetByte, StepIInv DEF Next
<1> QED
  BY <1>2, <1>3, SyncStep, OrderlyStep DEF LInv

THEOREM LinkSpecInv == LinkSpec => []LInv
BY LinkInitInv, LinkStepInv, PTL DEF LinkSpec

\* The coordinator's frames alone never make the receive thread write past
\* rxbuf: as long as no byte is lost or inserted each frame meets the parser in
\* WW_STATE and leaves it there, and the timeout's 0xff does not disturb it.
THEOREM SpecOverrunNeedsFault == LinkSpec => []OverrunNeedsFault
<1>1. LInv => OverrunNeedsFault
  BY DEF LInv, Orderly, LinkType, OverrunNeedsFault
<1> QED
  BY <1>1, LinkSpecInv, PTL

\* An undamaged frame that meets the parser in WW_STATE is handed over with its
\* last byte, whatever was lost, inserted or timed out before it.
THEOREM SpecCleanFrameArrives == LinkSpec => CleanFrameArrives
<1>1. ASSUME LInv, LinkNext, prog = "zbclient", todo # << >>, todo' = << >>, clean'
      PROVE  state' = "WW" /\ out' = Append(out, msg)
  <2>1. Receive
    <3>1. ~ Transmit /\ ~ Timeout /\ ~ LoseByte /\ ~ NoiseByte
      BY <1>1 DEF Transmit, Timeout, LoseByte, NoiseByte
    <3> QED
      BY <1>1, <3>1 DEF LinkNext
  <2>2. GetByte(Head(todo)) /\ todo' = Tail(todo) /\ clean
    BY <1>1, <2>1 DEF Receive, Take
  <2>3. todo \in Seq(Byte)
    BY <1>1 DEF LInv, LinkType
  <2>4. Len(todo) = 1
    BY <1>1, <2>2, <2>3, TailFacts
  <2> QED
    BY <1>1, <2>2, <2>4, SyncReceive DEF LInv
<1>2. LInv /\ [LinkNext]_linkVars
        => [prog = "zbclient" /\ todo # << >> /\ todo' = << >> /\ clean'
              => state' = "WW" /\ out' = Append(out, msg)]_linkVars
  BY <1>1
<1> QED
  BY <1>2, LinkSpecInv, PTL DEF LinkSpec, CleanFrameArrives

-----------------------------------------------------------------------------
(* The frames of a prototype's coordinator on the line.                    *)

ProtoType ==
  /\ rx_step \in {"START", "AA", "C0"} /\ i \in 0 .. 7
  /\ rebuf \in [0 .. 6 -> Byte]
  /\ rx_step # "C0" => i = 0

\* A prototype's frame that is not damaged: the bytes still on the line are the
\* last of the message transmitted, the parser is that far into it, also when it
\* was already waiting for a C0, and has stored the bytes between.
Filled ==
  prog = "zbserver" /\ clean /\ todo # << >> =>
    /\ msg \in States5 /\ Len(todo) <= 10
    /\ \A n \in 1 .. Len(todo) : todo[n] = Proto!send_usart(msg)[(10 - Len(todo)) + n]
    /\ Len(todo) = 10 => rx_step \in {"START", "AA"}
    /\ Len(todo) = 9 => rx_step = "AA"
    /\ Len(todo) < 9 => /\ rx_step = "C0" /\ i = 8 - Len(todo)
                        /\ \A n \in 0 .. i - 1 : rebuf[n] = Proto!send_usart(msg)[n + 3]

\* Each byte moves a prototype's parser as its case says, and keeps the types.
LEMMA ProtoStepType ==
  ASSUME ProtoType, NEW ch \in Byte, Proto!PGetByte(ch) PROVE ProtoType'
<1>1. CASE Proto!StartByte(ch)
  BY <1>1 DEF Proto!StartByte, ProtoType
<1>2. CASE Proto!AaByte(ch)
  BY <1>2 DEF Proto!AaByte, ProtoType
<1>3. CASE Proto!FillByte(ch)
  <2>1. rx_step = "C0" /\ rx_step' = "C0" /\ i' = i + 1 /\ i < 7
        /\ rebuf' = [rebuf EXCEPT ![i] = ch]
    BY <1>3 DEF Proto!FillByte
  <2>2. i \in 0 .. 7 /\ rebuf \in [0 .. 6 -> Byte]
    BY DEF ProtoType
  <2>3. rebuf' \in [0 .. 6 -> Byte] /\ i' \in 0 .. 7
    BY <2>1, <2>2
  <2> QED
    BY <2>1, <2>3 DEF ProtoType
<1>4. CASE Proto!LastByte(ch)
  BY <1>4 DEF Proto!LastByte, ProtoType
<1> QED
  BY <1>1, <1>2, <1>3, <1>4 DEF Proto!PGetByte

LEMMA ProtoLinkType ==
  ASSUME ProtoType, LinkType, [LinkNext]_linkVars PROVE ProtoType'
<1>1. CASE \E ch \in Byte : Proto!PGetByte(ch)
  BY <1>1, ProtoStepType
<1>2. CASE UNCHANGED proto
  BY <1>2 DEF proto, ProtoType
<1>3. (\E ch \in Byte : Proto!PGetByte(ch)) \/ UNCHANGED proto
  <2>1. CASE Receive
    <3>1. Head(todo) \in Byte
      BY <2>1 DEF Receive, LinkType
    <3> QED
      BY <2>1, <3>1 DEF Receive, Take
  <2>2. CASE Timeout
    BY <2>2, Sizes DEF Timeout, Take
  <2>3. CASE NoiseByte
    BY <2>3, LinkAssumption DEF NoiseByte, Take
  <2>4. CASE Transmit \/ LoseByte \/ UNCHANGED linkVars
    BY <2>4 DEF Transmit, LoseByte, linkVars, proto
  <2> QED
    BY <2>1, <2>2, <2>3, <2>4 DEF LinkNext
<1> QED
  BY <1>1, <1>2, <1>3

\* What a prototype's parser does with the next byte of an undamaged frame.
LEMMA ProtoReceive ==
  ASSUME ProtoType, LinkType, Filled, prog = "zbserver", clean, todo # << >>,
         Proto!PGetByte(Head(todo))
  PROVE  /\ Len(todo) = 10 => rx_step' = "AA"
         /\ Len(todo) = 9 => rx_step' = "C0" /\ i' = 0
         /\ Len(todo) \in 2 .. 8 =>
              /\ rx_step' = "C0" /\ i' = i + 1
              /\ rebuf' = [rebuf EXCEPT ![i] = Head(todo)]
         /\ Len(todo) = 1 => rx_step' = "START" /\ printed' = Append(printed, msg)
<1> DEFINE k == Len(todo)  E == Proto!send_usart(msg)  ch == Head(todo)
<1>1. /\ msg \in States5 /\ k <= 10
      /\ \A n \in 1 .. k : todo[n] = E[(10 - k) + n]
      /\ k = 10 => rx_step \in {"START", "AA"}
      /\ k = 9 => rx_step = "AA"
      /\ k < 9 => /\ rx_step = "C0" /\ i = 8 - k
                  /\ \A n \in 0 .. i - 1 : rebuf[n] = E[n + 3]
  BY DEF Filled
<1>2. k \in Nat /\ k > 0 /\ ch = todo[1] /\ ch \in Byte
  BY TailFacts DEF LinkType
<1>3. /\ msg \in Seq(Byte) /\ Len(msg) = 5 /\ E[1] = AA /\ E[2] = C0
      /\ \A n \in 1 .. 5 : E[n + 2] = msg[n]
      /\ E[8] = 0 /\ E[9] = (msg[1] + msg[2] + msg[3] + msg[4] + msg[5]) % MOD
      /\ E[10] = AB
  BY <1>1, ProtoFacts
<1>4. ch = E[(10 - k) + 1]
  <2>1. 1 \in 1 .. k
    BY <1>2
  <2> QED
    BY <1>1, <1>2, <2>1
<1>5. i \in 0 .. 7 /\ rebuf \in [0 .. 6 -> Byte] /\ (rx_step # "C0" => i = 0)
  BY DEF ProtoType
<1>6. /\ Proto!StartByte(ch) \/ Proto!AaByte(ch) \/ Proto!FillByte(ch) \/ Proto!LastByte(ch)
  BY DEF Proto!PGetByte
<1> HIDE DEF k, E, ch
<1>7. ASSUME k = 10 PROVE rx_step' = "AA"
  <2>1. ch = AA /\ rx_step \in {"START", "AA"}
    BY <1>1, <1>3, <1>4, <1>7
  <2> QED
    BY <1>6, <2>1, LinkAssumption
       DEF Proto!StartByte, Proto!AaByte, Proto!FillByte, Proto!LastByte
<1>8. ASSUME k = 9 PROVE rx_step' = "C0" /\ i' = 0
  <2>1. ch = C0 /\ rx_step = "AA" /\ i = 0
    BY <1>1, <1>3, <1>4, <1>5, <1>8
  <2> QED
    BY <1>6, <2>1 DEF Proto!StartByte, Proto!AaByte, Proto!FillByte, Proto!LastByte
<1>9. ASSUME k \in 2 .. 8
      PROVE  rx_step' = "C0" /\ i' = i + 1 /\ rebuf' = [rebuf EXCEPT ![i] = ch]
  <2>1. rx_step = "C0" /\ i < 7
    BY <1>1, <1>9
  <2> QED
    BY <1>5, <1>6, <2>1 DEF Proto!StartByte, Proto!AaByte, Proto!FillByte, Proto!LastByte
<1>10. ASSUME k = 1 PROVE rx_step' = "START" /\ printed' = Append(printed, msg)
  <2>1. rx_step = "C0" /\ i = 7 /\ ch = AB
    BY <1>1, <1>3, <1>4, <1>10
  <2>2. \A n \in 0 .. 6 : rebuf[n] = E[n + 3]
    BY <1>1, <1>10, <2>1
  <2>3. /\ rebuf[0] = msg[1] /\ rebuf[1] = msg[2] /\ rebuf[2] = msg[3]
        /\ rebuf[3] = msg[4] /\ rebuf[4] = msg[5]
    <3>1. \A n \in 0 .. 4 : n + 1 \in 1 .. 5 /\ (n + 1) + 2 = n + 3 /\ n \in 0 .. 6
      OBVIOUS
    <3>2. \A n \in 0 .. 4 : rebuf[n] = msg[n + 1]
      BY <1>3, <2>2, <3>1
    <3> QED
      BY <3>2
  <2>4. rebuf[5] = 0 /\ rebuf[6] = (msg[1] + msg[2] + msg[3] + msg[4] + msg[5]) % MOD
    BY <1>3, <2>2
  <2>5. rebuf[0] \in Nat /\ rebuf[1] \in Nat /\ rebuf[2] \in Nat /\ rebuf[3] \in Nat
        /\ rebuf[4] \in Nat
    BY <1>5 DEF Byte
  <2>6. Proto!Sum = rebuf[6]
    <3>1. rebuf[0] + rebuf[1] + rebuf[2] + rebuf[3] + rebuf[4] + rebuf[5]
            = msg[1] + msg[2] + msg[3] + msg[4] + msg[5]
      BY <2>3, <2>4, <2>5
    <3> QED
      BY <2>4, <3>1 DEF Proto!Sum
  <2>7. [n \in 1 .. 5 |-> rebuf[n-1]] = msg
    <3>1. \A n \in 1 .. 5 : rebuf[n-1] = msg[n]
      BY <2>3
    <3> QED
      BY <1>3, <3>1
  <2>8. Proto!LastByte(ch)
    BY <1>6, <2>1 DEF Proto!StartByte, Proto!AaByte, Proto!FillByte
  <2> QED
    BY <2>1, <2>6, <2>7, <2>8 DEF Proto!LastByte
<1> QED
  BY <1>7, <1>8, <1>9, <1>10 DEF k, ch

LEMMA FilledTransmit == ASSUME ProtoType, Transmit PROVE Filled'
<1> SUFFICES ASSUME prog' = "zbserver", clean', todo' # << >> PROVE Filled'
  BY DEF Filled
<1>1. prog = "zbserver" /\ rx_step' = rx_step /\ rx_step # "C0"
  BY DEF Transmit, Ready, proto
<1>2. PICK m \in States5 : todo' = Proto!send_usart(m) /\ msg' = m
  BY <1>1 DEF Transmit
<1>3. Len(todo') = 10
  BY <1>2, ProtoFacts
<1>4. Proto!send_usart(msg)' = todo'
  BY <1>2 DEF Proto!send_usart
<1>5. rx_step' \in {"START", "AA"}
  BY <1>1 DEF ProtoType
<1>6. \A n \in 1 .. 10 : (10 - 10) + n = n
  OBVIOUS
<1> QED
  BY <1>2, <1>3, <1>4, <1>5, <1>6 DEF Filled

LEMMA FilledReceive ==
  ASSUME ProtoType, LinkType, Filled, Receive PROVE Filled'
<1> SUFFICES ASSUME prog' = "zbserver", clean', todo' # << >> PROVE Filled'
  BY DEF Filled
<1> DEFINE k == Len(todo)  E == Proto!send_usart(msg)
<1>1. prog = "zbserver" /\ clean /\ todo # << >> /\ Proto!PGetByte(Head(todo))
      /\ todo' = Tail(todo) /\ msg' = msg
  BY DEF Receive, Take
<1>2. /\ k \in Nat /\ k > 0 /\ Len(todo') = k - 1 /\ Head(todo) = todo[1]
      /\ \A n \in 1 .. k - 1 : todo'[n] = todo[n + 1]
      /\ k # 1
  BY <1>1, TailFacts DEF LinkType
<1>3. /\ msg \in States5 /\ k <= 10
      /\ \A n \in 1 .. k : todo[n] = E[(10 - k) + n]
      /\ k < 9 => /\ rx_step = "C0" /\ i = 8 - k
                  /\ \A n \in 0 .. i - 1 : rebuf[n] = E[n + 3]
  BY <1>1 DEF Filled
<1>4. /\ k = 10 => rx_step' = "AA"
      /\ k = 9 => rx_step' = "C0" /\ i' = 0
      /\ k \in 2 .. 8 => /\ rx_step' = "C0" /\ i' = i + 1
                         /\ rebuf' = [rebuf EXCEPT ![i] = Head(todo)]
  BY <1>1, ProtoReceive
<1>5. E' = E
  BY <1>1 DEF Proto!send_usart
<1>6. i \in 0 .. 7 /\ rebuf \in [0 .. 6 -> Byte]
  BY DEF ProtoType
<1> HIDE DEF k, E
<1>7. ASSUME NEW n \in 1 .. k - 1 PROVE todo'[n] = E[(10 - (k - 1)) + n]
  <2>1. n + 1 \in 1 .. k /\ (10 - k) + (n + 1) = (10 - (k - 1)) + n
    BY <1>2
  <2> QED
    BY <1>2, <1>3, <2>1
<1>8. ASSUME k - 1 < 9
      PROVE  /\ rx_step' = "C0" /\ i' = 8 - (k - 1)
             /\ \A n \in 0 .. i' - 1 : rebuf'[n] = E[n + 3]
  <2>1. CASE k = 9
    BY <1>4, <2>1
  <2>2. CASE k \in 2 .. 8
    <3>1. rx_step' = "C0" /\ i = 8 - k /\ i' = i + 1 /\ i' = 8 - (k - 1) /\ i \in 0 .. 6
      BY <1>3, <1>4, <2>2
    <3>2. Head(todo) = E[i + 3]
      <4>1. 1 \in 1 .. k /\ (10 - k) + 1 = i + 3
        BY <2>2, <3>1
      <4> QED
        BY <1>2, <1>3, <4>1
    <3>3. ASSUME NEW n \in 0 .. i' - 1 PROVE rebuf'[n] = E[n + 3]
      <4>1. n \in 0 .. 6 /\ (n \in 0 .. i - 1 \/ n = i)
        BY <3>1
      <4>2. k < 9
        BY <2>2
      <4>3. rebuf'[n] = IF n = i THEN Head(todo) ELSE rebuf[n]
        BY <1>4, <1>6, <2>2, <4>1
      <4> QED
        BY <1>3, <3>2, <4>1, <4>2, <4>3
    <3> QED
      BY <3>1, <3>3
  <2> QED
    BY <1>2, <1>3, <1>8, <2>1, <2>2
<1>9. k - 1 = 9 => k = 10
  BY <1>2
<1>10. k - 1 <= 10 /\ k - 1 # 10
  BY <1>2, <1>3
<1> QED
  BY <1>1, <1>2, <1>3, <1>4, <1>5, <1>7, <1>8, <1>9, <1>10 DEF Filled, E

PInv == LinkType /\ ProtoType /\ Filled

LEMMA ProtoInitInv == LinkInit => PInv
<1> SUFFICES ASSUME LinkInit PROVE PInv
  OBVIOUS
<1>1. Proto!PInit /\ todo = << >>
  BY DEF LinkInit
<1>2. ProtoType
  BY <1>1, Sizes DEF Proto!PInit, ProtoType
<1>3. Filled
  BY <1>1 DEF Filled
<1> QED
  BY <1>2, <1>3, LinkInitType DEF PInv

LEMMA ProtoStepInv == PInv /\ [LinkNext]_linkVars => PInv'
<1> SUFFICES ASSUME PInv, [LinkNext]_linkVars PROVE PInv'
  OBVIOUS
<1>0. LinkType /\ ProtoType /\ Filled
  BY DEF PInv
<1>a. LinkType' /\ ProtoType'
  BY <1>0, LinkStepType, ProtoLinkType
<1>b. Filled'
  <2>1. CASE Transmit
    BY <1>0, <2>1, FilledTransmit
  <2>2. CASE Receive
    BY <1>0, <2>2, FilledReceive
  <2>3. CASE Timeout
    BY <2>3 DEF Timeout, line, Filled
  <2>4. CASE LoseByte \/ NoiseByte
    <3>1. ~ clean'
      BY <2>4 DEF LoseByte, NoiseByte
    <3> QED
      BY <3>1 DEF Filled
  <2>5. CASE UNCHANGED linkVars
    <3>1. UNCHANGED <<prog, clean, todo, msg, rx_step, i, rebuf>>
      BY <2>5 DEF linkVars, line, proto
    <3>2. Proto!send_usart(msg)' = Proto!send_usart(msg)
      BY <3>1 DEF Proto!send_usart
    <3> QED
      BY <1>0, <3>1, <3>2 DEF Filled
  <2> QED
    BY <2>1, <2>2, <2>3, <2>4, <2>5 DEF LinkNext
<1> QED
  BY <1>a, <1>b DEF PInv

\* A prototype's frame that is not damaged is printed once and unchanged, also
\* when its bytes are those that frame a message and when the parser was still
\* waiting for the C0 of an earlier one.
THEOREM SpecProtoFrameArrives == LinkSpec => ProtoFrameArrives
<1>1. ASSUME PInv, LinkNext, prog = "zbserver", todo # << >>, todo' = << >>, clean'
      PROVE  rx_step' = "START" /\ printed' = Append(printed, msg)
  <2>1. Receive
    <3>1. ~ Transmit /\ ~ Timeout /\ ~ LoseByte /\ ~ NoiseByte
      BY <1>1 DEF Transmit, Timeout, LoseByte, NoiseByte
    <3> QED
      BY <1>1, <3>1 DEF LinkNext
  <2>2. Proto!PGetByte(Head(todo)) /\ todo' = Tail(todo) /\ clean
    BY <1>1, <2>1 DEF Receive, Take
  <2>3. todo \in Seq(Byte)
    BY <1>1 DEF PInv, LinkType
  <2>4. Len(todo) = 1
    BY <1>1, <2>2, <2>3, TailFacts
  <2> QED
    BY <1>1, <2>2, <2>4, ProtoReceive DEF PInv
<1>2. PInv /\ [LinkNext]_linkVars
        => [prog = "zbserver" /\ todo # << >> /\ todo' = << >> /\ clean'
              => rx_step' = "START" /\ printed' = Append(printed, msg)]_linkVars
  BY <1>1
<1> QED
  BY <1>2, ProtoInitInv, ProtoStepInv, PTL DEF LinkSpec, ProtoFrameArrives
=============================================================================

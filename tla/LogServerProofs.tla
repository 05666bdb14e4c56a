--------------------------- MODULE LogServerProofs ---------------------------
(***************************************************************************)
(* What send_usart() keeps for every number of threads, length of a frame  *)
(* and limit on open files; and what the program keeps while the file      *)
(* server hands out its log, for every number of connections.              *)
(***************************************************************************)
EXTENDS LogServer, FiniteSetTheorems, SequenceTheorems, TLAPS

Places == {"idle", "open", "close", "put", "sent"}

\* The threads between fopen() and fclose().
Logging == {t \in Threads : pc[t] = "close"}

\* While no two threads have logged at once, the open file is sp's, and there is
\* one exactly when one thread logs.
OneLogger ==
  shared = 0 =>
    /\ down = 0
    /\ \/ files = {} /\ Logging = {}
       \/ files = {sp} /\ \E t \in Threads : Logging = {t}

BalancedInv == pc \in [Threads -> Places] /\ OneLogger

LEMMA BalancedInit == Init => BalancedInv
  BY DEF Init, BalancedInv, OneLogger, Logging, Places

\* fopen() while another thread logs sets shared; otherwise no file is open, so
\* one can be opened, and it is sp.
LEMMA BalancedFopen == ASSUME BalancedInv, NEW t \in Threads, Fopen(t) PROVE BalancedInv'
<1>1. pc' \in [Threads -> Places]
  BY DEF BalancedInv, Fopen, AfterLog, Places
<1>2. ASSUME shared' = 0 PROVE OneLogger'
  <2>1. shared = 0 /\ Logging = {}
    BY <1>2 DEF Fopen, Logging, BalancedInv, OneLogger
  <2>2. files = {} /\ down = 0
    BY <2>1 DEF BalancedInv, OneLogger
  <2>3. Cardinality(files) # MAXFILES
    BY <2>2, FS_EmptySet, TxAssumption
  <2>4. files' = {sp'} /\ pc' = [pc EXCEPT ![t] = "close"] /\ down' = 0
    BY <2>2, <2>3 DEF Fopen
  <2>5. Logging' = {t}
    BY <2>1, <2>4 DEF Logging, BalancedInv
  <2> QED
    BY <2>4, <2>5 DEF OneLogger
<1> QED
  BY <1>1, <1>2 DEF BalancedInv, OneLogger

\* fclose() closes the one open file.
LEMMA BalancedFclose == ASSUME BalancedInv, NEW t \in Threads, Fclose(t) PROVE BalancedInv'
<1>1. pc' \in [Threads -> Places]
  BY DEF BalancedInv, Fclose, AfterLog, Places
<1>2. ASSUME shared = 0 PROVE files' = {} /\ Logging' = {} /\ down' = 0
  <2>1. t \in Logging
    BY DEF Fclose, Logging
  <2>2. files = {sp} /\ Logging = {t}
    BY <1>2, <2>1 DEF BalancedInv, OneLogger
  <2> QED
    BY <2>2 DEF Fclose, Logging, BalancedInv, AfterLog
<1> QED
  BY <1>1, <1>2 DEF BalancedInv, OneLogger, Fclose

LEMMA BalancedStep == BalancedInv /\ [Next]_vars => BalancedInv'
<1> SUFFICES ASSUME BalancedInv, [Next]_vars PROVE BalancedInv'
  OBVIOUS
<1>1. ASSUME NEW t \in Threads, Call(t) PROVE BalancedInv'
  BY <1>1 DEF Call, BalancedInv, OneLogger, Logging, Places
<1>2. ASSUME NEW t \in Threads, Fopen(t) PROVE BalancedInv'
  BY <1>2, BalancedFopen
<1>3. ASSUME NEW t \in Threads, Fclose(t) PROVE BalancedInv'
  BY <1>3, BalancedFclose
<1>4. ASSUME NEW t \in Threads, Put(t) PROVE BalancedInv'
  BY <1>4 DEF Put, BalancedInv, OneLogger, Logging, Places
<1>5. ASSUME NEW t \in Threads, Return(t) PROVE BalancedInv'
  BY <1>5 DEF Return, BalancedInv, OneLogger, Logging, Places
<1>6. CASE UNCHANGED vars
  BY <1>6 DEF vars, BalancedInv, OneLogger, Logging
<1> QED
  BY <1>1, <1>2, <1>3, <1>4, <1>5, <1>6 DEF Next, Step

\* For every number of threads and every limit on open files, the log file is
\* open exactly while a thread logs and is never closed twice, until two threads
\* log at once.
THEOREM SpecLogBalanced == Spec => []LogBalanced
<1>1. BalancedInv => LogBalanced
  <2> SUFFICES ASSUME BalancedInv, shared = 0
               PROVE  down = 0 /\ Cardinality(files) = Cardinality(Logging)
    BY DEF LogBalanced, Logging
  <2>1. CASE files = {} /\ Logging = {}
    BY <2>1 DEF BalancedInv, OneLogger
  <2>2. CASE files = {sp} /\ \E t \in Threads : Logging = {t}
    BY <2>2, FS_Singleton DEF BalancedInv, OneLogger
  <2> QED
    BY <2>1, <2>2 DEF BalancedInv, OneLogger
<1> QED
  BY <1>1, BalancedInit, BalancedStep, PTL DEF Spec

-----------------------------------------------------------------------------
(* The bytes on the line.                                                  *)

\* The last n bytes on l are the first n of t's frame.
Ends(l, t, n) == Len(l) >= n /\ \A k \in 1 .. n : l[Len(l) - n + k] = <<t, k>>

TxType ==
  /\ pc \in [Threads -> Places]
  /\ i \in [Threads -> Nat] /\ mixed \in [Threads -> {0, 1}]
  /\ line \in Seq(Threads \X Nat) /\ Len(line) <= FLEN
  /\ \A t \in Threads : /\ pc[t] \in {"idle", "open", "close"} => i[t] = 0
                        /\ pc[t] = "put" => i[t] < FLEN

\* What a thread has put of its frame is the end of the line, unless another has
\* put a byte since.
OwnBytes ==
  \A t \in Threads : pc[t] = "put" /\ mixed[t] = 0 => Ends(line, t, i[t])

FrameInv == TxType /\ OwnBytes

\* Nothing of a frame is always there.
LEMMA EndsNone == ASSUME NEW l \in Seq(Threads \X Nat), NEW t PROVE Ends(l, t, 0)
  BY DEF Ends

LEMMA FrameInit == Init => FrameInv
  BY TxAssumption DEF Init, FrameInv, TxType, OwnBytes, Places

\* The next byte of a frame is added to what is there of it.
LEMMA PutEnds ==
  ASSUME FrameInv, NEW t \in Threads, Put(t)
  PROVE  /\ line' \in Seq(Threads \X Nat) /\ Len(line') <= FLEN
         /\ mixed[t] = 0 => Ends(line', t, i[t] + 1)
<1> DEFINE base == IF Len(line) = FLEN THEN Tail(line) ELSE line
<1>1. /\ line \in Seq(Threads \X Nat) /\ Len(line) <= FLEN /\ Len(line) \in Nat
      /\ i[t] \in Nat /\ i[t] < FLEN /\ FLEN \in Nat \ {0}
  BY TxAssumption DEF FrameInv, TxType, Put
<1>2. /\ base \in Seq(Threads \X Nat) /\ Len(base) < FLEN
      /\ mixed[t] = 0 => Ends(base, t, i[t])
  <2>1. CASE Len(line) = FLEN
    <3>1. /\ Tail(line) \in Seq(Threads \X Nat) /\ Len(Tail(line)) = FLEN - 1
          /\ \A k \in 1 .. FLEN - 1 : Tail(line)[k] = line[k + 1]
      BY <1>1, <2>1
    <3>2. ASSUME mixed[t] = 0 PROVE Ends(Tail(line), t, i[t])
      <4>1. Ends(line, t, i[t])
        BY <3>2 DEF FrameInv, OwnBytes, Put
      <4>2. ASSUME NEW k \in 1 .. i[t]
            PROVE  Tail(line)[Len(Tail(line)) - i[t] + k] = <<t, k>>
        <5>1. /\ Len(Tail(line)) - i[t] + k \in 1 .. FLEN - 1
              /\ Len(Tail(line)) - i[t] + k + 1 = Len(line) - i[t] + k
          <6>1. \A n, f \in Nat : n < f /\ k \in 1 .. n =>
                  (f - 1) - n + k \in 1 .. f - 1 /\ (f - 1) - n + k + 1 = f - n + k
            OBVIOUS
          <6> QED
            BY <1>1, <2>1, <3>1, <6>1
        <5>2. line[Len(line) - i[t] + k] = <<t, k>>
          BY <4>1 DEF Ends
        <5> QED
          BY <3>1, <5>1, <5>2
      <4>3. Len(Tail(line)) >= i[t]
        BY <1>1, <3>1
      <4> QED
        BY <4>2, <4>3 DEF Ends
    <3> QED
      BY <1>1, <2>1, <3>1, <3>2
  <2>2. CASE Len(line) # FLEN
    BY <1>1, <2>2 DEF FrameInv, OwnBytes, Put
  <2> QED
    BY <2>1, <2>2
<1>3. line' = Append(base, <<t, i[t] + 1>>)
  BY DEF Put
<1>4. <<t, i[t] + 1>> \in Threads \X Nat
  BY <1>1
<1> HIDE DEF base
<1>5. /\ line' \in Seq(Threads \X Nat) /\ Len(line') = Len(base) + 1
      /\ line'[Len(base) + 1] = <<t, i[t] + 1>>
      /\ \A k \in 1 .. Len(base) : line'[k] = base[k]
  BY <1>2, <1>3, <1>4
<1>6. ASSUME mixed[t] = 0 PROVE Ends(line', t, i[t] + 1)
  <2>1. Len(line') >= i[t] + 1
    BY <1>1, <1>2, <1>5, <1>6 DEF Ends
  <2>2. ASSUME NEW k \in 1 .. i[t] + 1 PROVE line'[Len(line') - (i[t] + 1) + k] = <<t, k>>
    <3>1. Len(line') - (i[t] + 1) + k = Len(base) - i[t] + k
      <4>1. Len(base) \in Nat
        BY <1>2
      <4>2. \A n, b \in Nat : (b + 1) - (n + 1) + k = b - n + k
        OBVIOUS
      <4> QED
        BY <1>1, <1>5, <4>1, <4>2
    <3>2. CASE k = i[t] + 1
      <4>1. Len(base) - i[t] + k = Len(base) + 1
        BY <1>1, <1>2, <3>2
      <4> QED
        BY <1>5, <3>1, <3>2, <4>1
    <3>3. CASE k # i[t] + 1
      <4>1. k \in 1 .. i[t] /\ Len(base) - i[t] + k \in 1 .. Len(base)
        <5>1. Len(base) \in Nat /\ Len(base) >= i[t]
          BY <1>2, <1>6 DEF Ends
        <5> QED
          BY <1>1, <3>3, <5>1
      <4>2. base[Len(base) - i[t] + k] = <<t, k>>
        BY <1>2, <1>6, <4>1 DEF Ends
      <4> QED
        BY <1>5, <3>1, <4>1, <4>2
    <3> QED
      BY <3>2, <3>3
  <2> QED
    BY <2>1, <2>2 DEF Ends
<1> QED
  BY <1>1, <1>2, <1>5, <1>6

LEMMA FramePut == ASSUME FrameInv, NEW t \in Threads, Put(t) PROVE FrameInv'
<1>1. TxType'
  <2>1. line' \in Seq(Threads \X Nat) /\ Len(line') <= FLEN
    BY PutEnds
  <2>2. i' \in [Threads -> Nat] /\ pc' \in [Threads -> Places] /\ mixed' \in [Threads -> {0, 1}]
    BY DEF FrameInv, TxType, Put, Places
  <2>3. ASSUME NEW u \in Threads
        PROVE  /\ pc'[u] \in {"idle", "open", "close"} => i'[u] = 0
               /\ pc'[u] = "put" => i'[u] < FLEN
    <3>1. CASE u = t
      BY <3>1, TxAssumption DEF FrameInv, TxType, Put
    <3>2. CASE u # t
      BY <3>2 DEF FrameInv, TxType, Put
    <3> QED
      BY <3>1, <3>2
  <2> QED
    BY <2>1, <2>2, <2>3 DEF TxType
<1>2. ASSUME NEW u \in Threads, pc'[u] = "put", mixed'[u] = 0 PROVE Ends(line', u, i'[u])
  <2>1. CASE u = t
    BY <1>2, <2>1, PutEnds DEF FrameInv, TxType, Put
  <2>2. CASE u # t
    <3>1. i'[u] = 0 /\ line' \in Seq(Threads \X Nat)
      BY <1>2, <2>2, PutEnds DEF FrameInv, TxType, Put
    <3> QED
      BY <3>1 DEF Ends
  <2> QED
    BY <2>1, <2>2
<1> QED
  BY <1>1, <1>2 DEF FrameInv, OwnBytes

LEMMA FrameStep == FrameInv /\ [Next]_vars => FrameInv'
<1> SUFFICES ASSUME FrameInv, [Next]_vars PROVE FrameInv'
  OBVIOUS
<1> USE DEF FrameInv, TxType, OwnBytes, Places
<1>1. ASSUME NEW t \in Threads, Call(t) PROVE FrameInv'
  BY <1>1 DEF Call
<1>2. ASSUME NEW t \in Threads, Fopen(t) PROVE FrameInv'
  <2>1. PICK place \in {"put", "sent", "close"} : pc' = [pc EXCEPT ![t] = place]
    BY <1>2 DEF Fopen, AfterLog
  <2>2. i[t] = 0 /\ UNCHANGED <<i, line, mixed>>
    BY <1>2 DEF Fopen
  <2>3. TxType'
    BY <2>1, <2>2, TxAssumption
  <2>4. OwnBytes'
    BY <2>1, <2>2, EndsNone
  <2> QED
    BY <2>3, <2>4
<1>3. ASSUME NEW t \in Threads, Fclose(t) PROVE FrameInv'
  BY <1>3, TxAssumption, EndsNone DEF Fclose, AfterLog
<1>4. ASSUME NEW t \in Threads, Put(t) PROVE FrameInv'
  BY <1>4, FramePut
<1>5. ASSUME NEW t \in Threads, Return(t) PROVE FrameInv'
  BY <1>5 DEF Return
<1>6. CASE UNCHANGED vars
  BY <1>6 DEF vars
<1> QED
  BY <1>1, <1>2, <1>3, <1>4, <1>5, <1>6 DEF Next, Step

\* A step after which send_usart() has sent a frame leaves it on the line whole.
LEMMA WholeStep ==
  ASSUME FrameInv, [Next]_vars, NEW t \in Threads,
         pc[t] = "put", pc'[t] = "sent", mixed'[t] = 0
  PROVE  line' = [n \in 1 .. FLEN |-> <<t, n>>]
<1>1. Put(t)
  <2>1. ~ UNCHANGED vars
    BY DEF vars
  <2>2. PICK u \in Threads : Call(u) \/ Fopen(u) \/ Fclose(u) \/ Put(u) \/ Return(u)
    BY <2>1 DEF Next, Step
  <2> QED
    BY <2>2 DEF Call, Fopen, Fclose, Put, Return, FrameInv, TxType, AfterLog
<1>2. i[t] \in Nat /\ i[t] + 1 = FLEN /\ mixed[t] = 0
  BY <1>1 DEF Put, FrameInv, TxType
<1>3. /\ line' \in Seq(Threads \X Nat) /\ Len(line') <= FLEN /\ Ends(line', t, FLEN)
  BY <1>1, <1>2, PutEnds
<1>4. Len(line') = FLEN /\ FLEN \in Nat
  BY <1>2, <1>3, TxAssumption DEF Ends
<1>5. ASSUME NEW n \in 1 .. FLEN PROVE line'[n] = <<t, n>>
  <2>1. Len(line') - FLEN + n = n
    BY <1>4
  <2> QED
    BY <1>3, <2>1 DEF Ends
<1>6. line' = [n \in 1 .. FLEN |-> line'[n]]
  BY <1>3, <1>4
<1> QED
  BY <1>5, <1>6

\* For every number of threads and every length of a frame, a frame into which no
\* other thread put a byte is on the line as a whole when it has been sent.
THEOREM SpecFrameWhole == Spec => FrameWhole
<1>1. FrameInv /\ [Next]_vars
        => [\A t \in Threads :
              pc[t] = "put" /\ pc'[t] = "sent" /\ mixed'[t] = 0
                => line' = [n \in 1 .. FLEN |-> <<t, n>>]]_vars
  BY WholeStep
<1> QED
  BY <1>1, FrameInit, FrameStep, PTL DEF Spec, FrameWhole

-----------------------------------------------------------------------------
(* The gateway and the file server.                                        *)

\* The gateway does in front of the file server what it does alone.
LEMMA LogStepGateway == [LogNext]_logVars => [Next]_vars
<1> SUFFICES ASSUME [LogNext]_logVars PROVE [Next]_vars
  OBVIOUS
<1>1. ASSUME down = 0, NEW t \in Threads, Begin(t) PROVE Next
  BY <1>1 DEF Begin, Next
<1>2. ASSUME down = 0, NEW t \in Threads, Gateway(t) PROVE Next
  BY <1>2 DEF Gateway, Next
<1>3. ASSUME NEW c \in Conns, Ask(c) \/ Server(c) PROVE UNCHANGED vars
  BY <1>3 DEF Ask, Server
<1>4. CASE UNCHANGED logVars
  BY <1>4 DEF logVars, vars
<1> QED
  BY <1>1, <1>2, <1>3, <1>4 DEF LogNext

\* Every behaviour of gateway and file server is one of send_usart(): what is
\* proved of UartTx holds beside the file server.
THEOREM LogServerIsUartTx == LogSpec => Spec
<1>1. LogInit => Init
  BY DEF LogInit
<1> QED
  BY <1>1, LogStepGateway, PTL DEF LogSpec, Spec

-----------------------------------------------------------------------------
\* The threads that have logged a frame and are putting it on the line.
Putting == {t \in Threads : pc[t] = "put"}

\* As long as no two threads log at once a line was added for every frame that
\* has been sent or is being sent.
Lines == shared = 0 => sent + Cardinality(Putting) <= log

FPlaces == {"idle", "stat", "fopen", "sending", "done", "absent"}

LogType ==
  /\ log \in Nat /\ sent \in Nat /\ shared \in {0, 1}
  /\ fpc \in [Conns -> FPlaces] /\ size \in [Conns -> Nat]
  /\ pos \in [Conns -> Nat] /\ asked \in [Conns -> Nat]

\* A request came after at most the frames sent by now; once stat() was called
\* its answer is to have as many lines, and a finished one has them all.
Answers ==
  \A c \in Conns :
    /\ asked[c] <= sent
    /\ shared = 0 /\ fpc[c] \in {"fopen", "sending", "done", "absent"} => size[c] >= asked[c]
    /\ fpc[c] = "done" => pos[c] = size[c]

PageInv == BalancedInv /\ LogType /\ Lines /\ Answers

LEMMA PageInit == LogInit => PageInv
<1> SUFFICES ASSUME LogInit PROVE PageInv
  OBVIOUS
<1>1. BalancedInv
  BY BalancedInit DEF LogInit
<1>2. LogType /\ Answers
  BY DEF LogInit, Init, FS!FInit, LogType, Answers, FPlaces
<1>3. Putting = {}
  BY DEF LogInit, Init, Putting
<1>4. Lines
  BY <1>3, FS_EmptySet DEF LogInit, Lines
<1> QED
  BY <1>1, <1>2, <1>4 DEF PageInv

\* The set of sending threads is finite, grows by at most the thread that begins
\* to send and shrinks by the one that has sent.
LEMMA PuttingFinite == IsFiniteSet(Putting) /\ Cardinality(Putting) \in Nat
<1>1. Putting \subseteq Threads
  BY DEF Putting
<1>2. IsFiniteSet(Putting)
  BY <1>1, FS_Subset, TxAssumption
<1> QED
  BY <1>2, FS_CardinalityType

\* A step of the gateway leaves what the file server knows.
LEMMA GatewayAnswers ==
  ASSUME LogType, Answers, shared' = 0 => shared = 0,
         sent' \in Nat, sent' >= sent, UNCHANGED <<server, asked>>
  PROVE  Answers'
<1> SUFFICES ASSUME NEW c \in Conns
             PROVE  /\ asked[c] <= sent'
                    /\ shared' = 0 /\ fpc[c] \in {"fopen", "sending", "done", "absent"}
                         => size[c] >= asked[c]
                    /\ fpc[c] = "done" => pos[c] = size[c]
  BY DEF Answers, server
<1>1. asked[c] \in Nat /\ sent \in Nat /\ asked[c] <= sent
  BY DEF LogType, Answers
<1> QED
  BY <1>1 DEF Answers

LEMMA GatewayType ==
  ASSUME LogType, NEW t \in Threads, Gateway(t)
  PROVE  LogType' /\ sent' >= sent /\ (shared' = 0 => shared = 0)
<1>1. log' \in {log, log + 1} /\ sent' \in {sent, sent + 1} /\ UNCHANGED <<server, asked>>
  BY DEF Gateway
<1>2. shared' \in {0, 1} /\ (shared' = 0 => shared = 0)
  BY DEF LogType, Gateway, Step, Fopen, Fclose, Put, Return
<1> QED
  BY <1>1, <1>2 DEF LogType, server

\* The open files are counted by a number.
LEMMA FilesCounted == ASSUME PageInv, shared = 0 PROVE Cardinality(files) \in Nat
<1>1. IsFiniteSet(files)
  <2>1. files = {} \/ files = {sp}
    BY DEF PageInv, BalancedInv, OneLogger
  <2>2. IsFiniteSet({}) /\ IsFiniteSet({sp})
    BY FS_EmptySet, FS_Singleton
  <2> QED
    BY <2>1, <2>2
<1> QED
  BY <1>1, FS_CardinalityType

\* fopen() succeeds, and nobody begins to send.
LEMMA FopenLines ==
  ASSUME PageInv, NEW t \in Threads, Gateway(t), Fopen(t) PROVE Lines'
<1> SUFFICES ASSUME shared' = 0 PROVE sent' + Cardinality(Putting') <= log'
  BY DEF Lines
<1>1. shared = 0 /\ Logging = {} /\ files = {}
  BY DEF Fopen, Logging, PageInv, LogType, BalancedInv, OneLogger
<1>2. Cardinality(files) = 0 /\ Cardinality(files) # MAXFILES
  BY <1>1, FS_EmptySet, TxAssumption
<1>3. files' = {sp'} /\ pc' = [pc EXCEPT ![t] = "close"] /\ pc[t] = "open"
  BY <1>1, <1>2 DEF Fopen
<1>4. Cardinality(files') = 1
  BY <1>3, FS_Singleton
<1>5. log' = log /\ sent' = sent
  BY <1>2, <1>3, <1>4 DEF Gateway
<1>6. Putting' = Putting
  BY <1>3 DEF Putting, PageInv, BalancedInv
<1> QED
  BY <1>1, <1>5, <1>6 DEF PageInv, Lines

\* fclose() adds the line of the thread that may send now.
LEMMA FcloseLines ==
  ASSUME PageInv, NEW t \in Threads, Gateway(t), Fclose(t) PROVE Lines'
<1> SUFFICES ASSUME shared' = 0 PROVE sent' + Cardinality(Putting') <= log'
  BY DEF Lines
<1>1. shared = 0 /\ t \in Logging
  BY DEF Fclose, Logging
<1>2. files = {sp}
  BY <1>1 DEF PageInv, BalancedInv, OneLogger
<1>3. Cardinality(files) = 1 /\ files' = {}
  BY <1>2, FS_Singleton DEF Fclose
<1>4. Cardinality(files') = 0
  BY <1>3, FS_EmptySet
<1>5. log' = log + 1 /\ sent' = sent
  BY <1>3, <1>4 DEF Gateway, Fclose
<1>6. Cardinality(Putting') <= Cardinality(Putting) + 1 /\ Cardinality(Putting') \in Nat
  <2>1. CASE sends[t] = 1
    <3>1. Putting' = Putting \cup {t} /\ t \notin Putting
      BY <2>1 DEF Fclose, AfterLog, Putting, PageInv, BalancedInv
    <3> QED
      BY <3>1, PuttingFinite, FS_AddElement
  <2>2. CASE sends[t] # 1
    <3>1. Putting' = Putting
      BY <2>2 DEF Fclose, AfterLog, Putting, PageInv, BalancedInv
    <3> QED
      BY <3>1, PuttingFinite
  <2> QED
    BY <2>1, <2>2
<1>7. log \in Nat /\ sent \in Nat /\ sent + Cardinality(Putting) <= log
  BY <1>1 DEF PageInv, LogType, Lines
<1> QED
  BY <1>5, <1>6, <1>7, PuttingFinite

\* A thread that has sent counts as sent, and no longer as sending.
LEMMA PutLines ==
  ASSUME PageInv, NEW t \in Threads, Gateway(t), Put(t) PROVE Lines'
<1> SUFFICES ASSUME shared' = 0 PROVE sent' + Cardinality(Putting') <= log'
  BY DEF Lines
<1>1. shared = 0 /\ pc[t] = "put" /\ UNCHANGED files
  BY DEF Put
<1>2. log' = log
  BY <1>1, FilesCounted DEF Gateway
<1>3. log \in Nat /\ sent \in Nat /\ sent + Cardinality(Putting) <= log
  BY <1>1 DEF PageInv, LogType, Lines
<1>4. CASE pc' = [pc EXCEPT ![t] = "sent"]
  <2>1. sent' = sent + 1
    BY <1>1, <1>4 DEF Gateway, PageInv, BalancedInv
  <2>2. Putting' = Putting \ {t} /\ t \in Putting
    BY <1>1, <1>4 DEF Putting, PageInv, BalancedInv
  <2>3. Cardinality(Putting') = Cardinality(Putting) - 1
    BY <2>2, PuttingFinite, FS_RemoveElement
  <2> QED
    BY <1>2, <1>3, <2>1, <2>3, PuttingFinite
<1>5. CASE pc' = [pc EXCEPT ![t] = "put"]
  <2>1. sent' = sent
    BY <1>1, <1>5 DEF Gateway, PageInv, BalancedInv
  <2>2. Putting' = Putting
    BY <1>1, <1>5 DEF Putting, PageInv, BalancedInv
  <2> QED
    BY <1>2, <1>3, <2>1, <2>2
<1> QED
  BY <1>4, <1>5 DEF Put

\* The thread goes back to what called it.
LEMMA ReturnLines ==
  ASSUME PageInv, NEW t \in Threads, Gateway(t), Return(t) PROVE Lines'
<1> SUFFICES ASSUME shared' = 0 PROVE sent' + Cardinality(Putting') <= log'
  BY DEF Lines
<1>1. log' = log /\ sent' = sent /\ shared = 0
  BY FilesCounted DEF Gateway, Return
<1>2. Putting' = Putting
  BY DEF Return, Putting, PageInv, BalancedInv
<1> QED
  BY <1>1, <1>2 DEF Lines, PageInv

\* The file server changes its own variables only, and keeps Answers.
LEMMA ServerAnswers ==
  ASSUME PageInv, NEW c \in Conns, Ask(c) \/ Server(c) PROVE LogType' /\ Answers'
<1>1. UNCHANGED <<vars, log, sent>>
  BY DEF Ask, Server
<1>2. log \in Nat /\ sent \in Nat /\ (shared = 0 => sent <= log)
  BY PuttingFinite DEF PageInv, LogType, Lines
<1> USE DEF PageInv, LogType, Answers, FPlaces, FS!Goto, FS!Over
<1>3. CASE Ask(c)
  BY <1>1, <1>2, <1>3 DEF Ask, FS!FirstCall, vars
<1>4. CASE Server(c)
  <2>1. CASE FS!Stat(c)
    BY <1>1, <1>2, <1>4, <2>1 DEF Server, FS!Stat, vars
  <2>2. CASE FS!Fopen(c)
    BY <1>1, <1>2, <1>4, <2>2 DEF Server, FS!Fopen, vars
  <2>3. CASE FS!Refused(c)
    BY <1>1, <1>2, <1>4, <2>3 DEF Server, FS!Refused, vars
  <2>4. CASE FS!Read(c)
    BY <1>1, <1>2, <1>4, <2>4 DEF Server, FS!Read, vars
  <2>5. CASE FS!Finish(c)
    BY <1>1, <1>2, <1>4, <2>5 DEF Server, FS!Finish, vars
  <2>6. CASE FS!Hangup(c)
    BY <1>1, <1>2, <1>4, <2>6 DEF Server, FS!Hangup, vars
  <2>7. CASE FS!Again(c)
    BY <1>1, <1>2, <1>4, <2>7 DEF Server, FS!Again, vars
  <2> QED
    BY <1>4, <2>1, <2>2, <2>3, <2>4, <2>5, <2>6, <2>7 DEF Server, FS!Serve
<1> QED
  BY <1>3, <1>4

LEMMA PageStep == PageInv /\ [LogNext]_logVars => PageInv'
<1> SUFFICES ASSUME PageInv, [LogNext]_logVars PROVE PageInv'
  OBVIOUS
<1>1. BalancedInv'
  BY LogStepGateway, BalancedStep DEF PageInv
<1>2. ASSUME NEW t \in Threads, Begin(t) PROVE LogType' /\ Lines' /\ Answers'
  <2>1. shared' = shared /\ log' = log /\ sent' = sent /\ UNCHANGED <<server, asked>>
    BY <1>2 DEF Begin, Call
  <2>2. Putting' = Putting
    BY <1>2 DEF Begin, Call, Putting, PageInv, BalancedInv
  <2> QED
    BY <2>1, <2>2 DEF PageInv, LogType, Lines, Answers, server
<1>3. ASSUME NEW t \in Threads, Gateway(t) PROVE LogType' /\ Lines' /\ Answers'
  <2>1. LogType' /\ sent' >= sent /\ (shared' = 0 => shared = 0)
    BY <1>3, GatewayType DEF PageInv
  <2>2. Answers'
    BY <1>3, <2>1, GatewayAnswers DEF PageInv, Gateway, LogType
  <2>3. Lines'
    BY <1>3, FopenLines, FcloseLines, PutLines, ReturnLines DEF Gateway, Step
  <2> QED
    BY <2>1, <2>2, <2>3
<1>4. ASSUME NEW c \in Conns, Ask(c) \/ Server(c) PROVE LogType' /\ Lines' /\ Answers'
  <2>1. UNCHANGED <<vars, log, sent>>
    BY <1>4 DEF Ask, Server
  <2>2. Lines'
    BY <2>1 DEF vars, PageInv, Lines, Putting
  <2> QED
    BY <1>4, <2>2, ServerAnswers
<1>5. ASSUME UNCHANGED logVars PROVE LogType' /\ Lines' /\ Answers'
  <2>1. UNCHANGED <<pc, shared, log, sent, asked>> /\ UNCHANGED <<fpc, size, pos>>
    BY <1>5 DEF logVars, vars, server
  <2>2. Putting' = Putting
    BY <2>1 DEF Putting
  <2> QED
    BY <2>1, <2>2 DEF PageInv, LogType, Lines, Answers
<1>6. CASE LogNext
  BY <1>1, <1>2, <1>3, <1>4, <1>6 DEF LogNext, PageInv
<1> QED
  BY <1>1, <1>5, <1>6 DEF PageInv

\* For every number of threads, connections and frames: the log that is served
\* has a line for every frame sent before it was asked for, until two threads
\* log at once.
THEOREM SpecPageHasFrames == LogSpec => []PageHasFrames
<1>1. PageInv => PageHasFrames
  <2> SUFFICES ASSUME PageInv, shared = 0, NEW c \in Conns,
                      fpc[c] = "done" \/ (fpc[c] = "absent" /\ size[c] = 0)
               PROVE  pos[c] >= asked[c]
    BY DEF PageHasFrames
  <2>1. size[c] \in Nat /\ pos[c] \in Nat /\ asked[c] \in Nat /\ size[c] >= asked[c]
    BY DEF PageInv, LogType, Answers
  <2>2. fpc[c] = "done" => pos[c] = size[c]
    BY DEF PageInv, Answers
  <2> QED
    BY <2>1, <2>2
<1> QED
  BY <1>1, PageInit, PageStep, PTL DEF LogSpec
=============================================================================

------------------------------- MODULE UartTx -------------------------------
(***************************************************************************)
(* send_usart() of zbclient.c, called by the serial, the HTTP and the main *)
(* thread without a lock: a line is added to the log file through the      *)
(* global FILE *sp, then the bytes of the frame go out one by one.  main() *)
(* also logs through sp without sending.                                   *)
(***************************************************************************)
EXTENDS Integers, Sequences, FiniteSets

CONSTANTS Threads,   \* the threads that send
          FLEN,      \* bytes of a frame on the line
          MAXFILES   \* files the process can have open

ASSUME TxAssumption ==
  FLEN \in Nat \ {0} /\ MAXFILES \in Nat \ {0} /\ IsFiniteSet(Threads)

VARIABLES
  pc,       \* where a thread is: "idle", "open", "close", "put", "sent"
  i,        \* bytes of its frame it has put
  sends,    \* 1 when a frame follows the log line, 0 in main()'s own logging
  sp,       \* the global sp: a file, or 0 for NULL
  files,    \* open files (external)
  line,     \* the last FLEN bytes on the line: sender and place in its frame
  mixed,    \* history: 1 when another thread put a byte into this frame
  shared,   \* history: 1 once two threads were logging at the same time
  down      \* 1 when the process has died of a file closed twice

vars == <<pc, i, sends, sp, files, line, mixed, shared, down>>

Init ==
  /\ pc = [t \in Threads |-> "idle"] /\ i = [t \in Threads |-> 0]
  /\ sends = [t \in Threads |-> 1]
  /\ sp = 0 /\ files = {} /\ line = << >>
  /\ mixed = [t \in Threads |-> 0] /\ shared = 0 /\ down = 0

\* The frame is put together in txbuf, which is the thread's own.
Call(t) ==
  /\ pc[t] = "idle"
  /\ pc' = [pc EXCEPT ![t] = "open"]
  /\ i' = [i EXCEPT ![t] = 0]
  /\ \E s \in {0, 1} : sends' = [sends EXCEPT ![t] = s]
  /\ mixed' = [mixed EXCEPT ![t] = 0]
  /\ UNCHANGED <<sp, files, line, shared, down>>

AfterLog(t) == IF sends[t] = 1 THEN "put" ELSE "sent"

\* sp = fopen(...): the first free file; NULL when there is none left, and then
\* nothing is logged.
Fopen(t) ==
  /\ pc[t] = "open"
  /\ IF Cardinality(files) = MAXFILES
     THEN /\ sp' = 0 /\ pc' = [pc EXCEPT ![t] = AfterLog(t)]
          /\ UNCHANGED files
     ELSE /\ sp' = CHOOSE f \in 1 .. MAXFILES : f \notin files /\ \A g \in 1 .. f-1 : g \in files
          /\ files' = files \cup {sp'}
          /\ pc' = [pc EXCEPT ![t] = "close"]
  /\ shared' = IF \E u \in Threads : pc[u] = "close" THEN 1 ELSE shared
  /\ UNCHANGED <<i, sends, line, mixed, down>>

\* Mutant: the file is not closed.
FcloseForgotten(t) ==
  /\ pc[t] = "close"
  /\ pc' = [pc EXCEPT ![t] = AfterLog(t)]
  /\ UNCHANGED <<i, sends, sp, files, line, mixed, shared, down>>

\* fprintf(sp, ...); fclose(sp): whatever sp is by now.  If it is closed already
\* the process dies or the library takes no notice.
Fclose(t) ==
  /\ pc[t] = "close"
  /\ files' = files \ {sp}
  /\ pc' = [pc EXCEPT ![t] = AfterLog(t)]
  /\ down' \in IF sp \in files THEN {0} ELSE {0, 1}
  /\ UNCHANGED <<i, sends, sp, line, mixed, shared>>

\* Mutant: the loop ends one byte early, before the checksum.
PutShort(t) ==
  /\ pc[t] = "put"
  /\ i' = [i EXCEPT ![t] = @ + 1]
  /\ line' = Append(IF Len(line) = FLEN THEN Tail(line) ELSE line, <<t, i[t] + 1>>)
  /\ mixed' = [u \in Threads |-> IF u # t /\ i[u] > 0 THEN 1 ELSE mixed[u]]
  /\ pc' = [pc EXCEPT ![t] = IF i[t] + 2 = FLEN THEN "sent" ELSE "put"]
  /\ UNCHANGED <<sends, sp, files, shared, down>>

\* serialPutchar(usart_fd, txbuf[i])
Put(t) ==
  /\ pc[t] = "put"
  /\ i' = [i EXCEPT ![t] = @ + 1]
  /\ line' = Append(IF Len(line) = FLEN THEN Tail(line) ELSE line, <<t, i[t] + 1>>)
  /\ mixed' = [u \in Threads |-> IF u # t /\ i[u] > 0 THEN 1 ELSE mixed[u]]
  /\ pc' = [pc EXCEPT ![t] = IF i[t] + 1 = FLEN THEN "sent" ELSE "put"]
  /\ UNCHANGED <<sends, sp, files, shared, down>>

Return(t) ==
  /\ pc[t] = "sent"
  /\ pc' = [pc EXCEPT ![t] = "idle"] /\ i' = [i EXCEPT ![t] = 0]
  /\ sends' = [sends EXCEPT ![t] = 1] /\ mixed' = [mixed EXCEPT ![t] = 0]
  /\ UNCHANGED <<sp, files, line, shared, down>>

Step(t) == Fopen(t) \/ Fclose(t) \/ Put(t) \/ Return(t)

Next == down = 0 /\ \E t \in Threads : Call(t) \/ Step(t)

Spec == Init /\ [][Next]_vars

-----------------------------------------------------------------------------
(* Properties.                                                             *)

\* A frame into which no other thread put a byte is on the line from its first
\* byte to its last, with nothing between, when send_usart() has sent it.
FrameWhole ==
  [][\A t \in Threads :
       pc[t] = "put" /\ pc'[t] = "sent" /\ mixed'[t] = 0
         => line' = [n \in 1 .. FLEN |-> <<t, n>>]]_vars

\* The log file is open exactly while a thread logs; it takes two threads
\* logging at once to leave one open for good or to close one twice.
LogBalanced ==
  shared = 0 =>
    /\ down = 0
    /\ Cardinality(files) = Cardinality({t \in Threads : pc[t] = "close"})
=============================================================================

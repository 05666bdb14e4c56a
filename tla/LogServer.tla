------------------------------ MODULE LogServer ------------------------------
(***************************************************************************)
(* The gateway and the file server beside it: the threads of zbclient.c    *)
(* log and send frames (UartTx), fileserver.c serves the log (FileServer). *)
(* The two processes meet in the log only.  A line gets into it when the   *)
(* file it was written to is closed.                                       *)
(***************************************************************************)
EXTENDS UartTx

CONSTANTS Conns, FMAX,
          MaxCalls   \* bound on the lines logged and frames sent

VARIABLES log, fpc, size, pos, open,   \* of FileServer
          calls,   \* history: log lines and frames begun
          sent,    \* history: frames put on the line as a whole
          asked    \* history: sent, when the request of a connection came

FS == INSTANCE FileServer

server  == <<fpc, size, pos, open>>
logVars == <<vars, log, server, calls, sent, asked>>

LogInit ==
  /\ Init /\ FS!FInit /\ log = 0
  /\ calls = 0 /\ sent = 0 /\ asked = [c \in Conns |-> 0]

Begin(t) ==
  /\ calls < MaxCalls /\ calls' = calls + 1
  /\ Call(t)
  /\ UNCHANGED <<log, server, sent, asked>>

\* A file that is closed takes its line to the log.  A line printed to a file
\* that is closed already may get there or not.
Gateway(t) ==
  /\ Step(t)
  /\ log' \in IF Cardinality(files') < Cardinality(files) THEN {log + 1}
              ELSE IF pc[t] = "close" /\ sp \notin files THEN {log, log + 1}
              ELSE {log}
  /\ sent' = IF pc[t] = "put" /\ pc'[t] = "sent" THEN sent + 1 ELSE sent
  /\ UNCHANGED <<server, calls, asked>>

Ask(c) ==
  /\ FS!FirstCall(c)
  /\ asked' = [asked EXCEPT ![c] = sent]
  /\ UNCHANGED <<vars, log, calls, sent>>

Server(c) ==
  /\ FS!Serve(c)
  /\ asked' = IF fpc'[c] = "idle" THEN [asked EXCEPT ![c] = 0] ELSE asked
  /\ UNCHANGED <<vars, log, calls, sent>>

LogNext ==
  \/ down = 0 /\ \E t \in Threads : Begin(t) \/ Gateway(t)
  \/ \E c \in Conns : Ask(c) \/ Server(c)

LogSpec == LogInit /\ [][LogNext]_logVars

-----------------------------------------------------------------------------
\* Who asks for the log gets a line for every frame that had been sent by then,
\* however the log grows meanwhile; it takes two threads logging at once to
\* lose a line.
PageHasFrames ==
  shared = 0 =>
    \A c \in Conns :
      fpc[c] = "done" \/ (fpc[c] = "absent" /\ size[c] = 0) => pos[c] >= asked[c]
=============================================================================

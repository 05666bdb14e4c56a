----------------------------- MODULE FileServer -----------------------------
(***************************************************************************)
(* fileserver.c: a process of its own that serves the log of the gateway.  *)
(* Every connection has a thread.  The handler ahc_echo() is called twice; *)
(* its second call takes the size of the log and opens it, and libmicro-   *)
(* httpd (external) then calls file_reader() until it has that many bytes. *)
(* The log grows at its end while it is served.  Its unit here is a line.  *)
(***************************************************************************)
EXTENDS Naturals, FiniteSets

CONSTANTS Conns,   \* connections
          FMAX     \* files the process can have open

VARIABLES
  log,    \* lines in /var/log/zbclient.txt, 0 when there is no file
  fpc,    \* where a request is
  size,   \* buf.st_size, in lines
  pos,    \* lines sent
  open    \* connections whose file is open

FInit ==
  /\ fpc = [c \in Conns |-> "idle"] /\ open = {}
  /\ size = [c \in Conns |-> 0] /\ pos = [c \in Conns |-> 0]

Goto(c, label) == fpc' = [fpc EXCEPT ![c] = label]

\* "do never respond on first call": *ptr = &aptr
FirstCall(c) ==
  /\ fpc[c] = "idle" /\ Goto(c, "stat")
  /\ UNCHANGED <<size, pos, open>>

\* The second call: *ptr = NULL; stat(), which finds a file or not.
Stat(c) ==
  /\ fpc[c] = "stat" /\ Goto(c, "fopen")
  /\ size' = [size EXCEPT ![c] = log]
  /\ UNCHANGED <<pos, open>>

\* fopen(), if stat() found the file.  The page that says it was not found is
\* the answer otherwise, also when no file can be opened.
Fopen(c) ==
  /\ fpc[c] = "fopen"
  /\ IF size[c] > 0 /\ Cardinality(open) < FMAX
     THEN Goto(c, "sending") /\ open' = open \cup {c}
     ELSE Goto(c, "absent") /\ UNCHANGED open
  /\ UNCHANGED <<size, pos>>

\* The request is over and its variables are gone.
Over(c) ==
  /\ Goto(c, "idle")
  /\ size' = [size EXCEPT ![c] = 0] /\ pos' = [pos EXCEPT ![c] = 0]

\* There is no memory for a response, or the request has a body: then the
\* library does not take a response in this call and closes the connection.
\* fclose() is called here or in free_callback().
Refused(c) ==
  /\ fpc[c] = "sending" /\ pos[c] = 0
  /\ Over(c) /\ open' = open \ {c}

\* file_reader(): fseek() to pos, fread() of at most a block.
Read(c) ==
  /\ fpc[c] = "sending" /\ pos[c] < size[c]
  /\ \E n \in pos[c]+1 .. size[c] : pos' = [pos EXCEPT ![c] = n]
  /\ UNCHANGED <<fpc, size, open>>

\* Mutant: the response ends with its first block.
FinishEarly(c) ==
  /\ fpc[c] = "sending" /\ pos[c] > 0
  /\ Goto(c, "done") /\ open' = open \ {c}
  /\ UNCHANGED <<size, pos>>

\* All of it is sent: the response goes, free_callback() closes the file.
Finish(c) ==
  /\ fpc[c] = "sending" /\ pos[c] = size[c]
  /\ Goto(c, "done") /\ open' = open \ {c}
  /\ UNCHANGED <<size, pos>>

\* The client (external) leaves before that; free_callback() as well.
Hangup(c) ==
  /\ fpc[c] = "sending"
  /\ Over(c) /\ open' = open \ {c}

\* The connection is used again, or a new one is opened: *ptr is NULL in both
\* cases.
Again(c) ==
  /\ fpc[c] \in {"done", "absent"}
  /\ Over(c) /\ UNCHANGED open

Serve(c) ==
  \/ Stat(c) \/ Fopen(c) \/ Refused(c) \/ Read(c) \/ Finish(c) \/ Hangup(c) \/ Again(c)
=============================================================================

----------------------------- MODULE GreeterStream -----------------------------
(***************************************************************************)
(* The synchronous gRPC service (grpcdemo/service_impl.cc) with its two    *)
(* clients: client.cpp, which makes the four calls one after the other,    *)
(* and client_async.cpp, whose two threads share a stream until a signal   *)
(* cancels it.                                                             *)
(*                                                                         *)
(* gRPC is external: two flow-controlled directions, the client's half-    *)
(* close, the status behind the last message, and a call that may break.   *)
(* A message is the sequence of names it is about.                         *)
(***************************************************************************)
EXTENDS Naturals, Sequences

CONSTANTS
  NameCount,  \* length of the array the streaming calls send, three names
  Window      \* messages one direction takes before Write waits

ASSUME StreamAssumption == NameCount \in Nat \ {0} /\ Window \in Nat \ {0}

Names == [i \in 1 .. NameCount |-> i]

Calls == <<"SayHello", "SayHello1", "SayHello2", "SayHello3">>

VARIABLES
  rpc,      \* the call client.cpp makes, "async" for client_async.cpp, or "end"
  net,      \* the call's up and down, half-closed, status sent, broken
  server,   \* the handler: pc, the names read, the messages to write
  writer,   \* pc of who writes the requests, and how many it has written
  reader,   \* pc of who reads the responses, those it read, the status
  running,  \* running_ of client_async.cpp
  cancelled \* TryCancel was called on its context

vars == <<rpc, net, server, writer, reader, running, cancelled>>

\* A call begins; the channel may be down, the context may be cancelled.
Begin(call, broken) ==
  /\ rpc' = call
  /\ net' = [up |-> <<>>, down |-> <<>>, halfClosed |-> FALSE,
             sent |-> FALSE, broken |-> broken]
  /\ server' = [pc |-> "read", names |-> <<>>, out |-> <<>>]
  /\ writer' = [pc |-> "write", count |-> 0]
  /\ reader' = [pc |-> "read", got |-> <<>>, status |-> "none"]

Init ==
  /\ rpc \in {"SayHello", "async"}
  /\ net = [up |-> <<>>, down |-> <<>>, halfClosed |-> FALSE,
            sent |-> FALSE, broken |-> FALSE]
  /\ server = [pc |-> IF rpc = "async" THEN "done" ELSE "read",
               names |-> <<>>, out |-> <<>>]
  /\ writer = [pc |-> IF rpc = "async" THEN "run" ELSE "write", count |-> 0]
  /\ reader = [pc |-> IF rpc = "async" THEN "run" ELSE "read",
               got |-> <<>>, status |-> "none"]
  /\ running = FALSE
  /\ cancelled = FALSE

-----------------------------------------------------------------------------
\* The handlers. Each takes the request just read, or FALSE from Read.
Reply(names) == <<names>>

SayHello(name) == [pc |-> "write", names |-> <<>>, out |-> Reply(<<name>>)]

SayHello1(name) == [server EXCEPT !.names = Append(@, name)]
SayHello1Ends == [server EXCEPT !.pc = "write", !.out = Reply(server.names)]

\* Mutant: the loop is left one response early.
TwoResponses(name) == [pc |-> "write", names |-> <<>>, out |-> [i \in 1 .. 2 |-> <<name>>]]

SayHello2(name) == [pc |-> "write", names |-> <<>>, out |-> [i \in 1 .. 3 |-> <<name>>]]

SayHello3(name) == [server EXCEPT !.pc = "write", !.out = Reply(<<name>>)]

ServerRead ==
  /\ server.pc = "read"
  /\ \/ /\ net.up # <<>> /\ ~net.broken
        /\ net' = [net EXCEPT !.up = Tail(@)]
        /\ server' = CASE rpc = "SayHello" -> SayHello(Head(net.up))
                       [] rpc = "SayHello1" -> SayHello1(Head(net.up))
                       [] rpc = "SayHello2" -> SayHello2(Head(net.up))
                       [] OTHER -> SayHello3(Head(net.up))
     \/ /\ net.broken \/ (net.up = <<>> /\ net.halfClosed)
        /\ server' = IF rpc = "SayHello1" THEN SayHello1Ends
                                          ELSE [server EXCEPT !.pc = "return"]
        /\ UNCHANGED net
  /\ UNCHANGED <<rpc, writer, reader, running, cancelled>>

\* SayHello2 stops at a Write that fails, SayHello3 does not look.
AfterWrite(ok) ==
  IF rpc \in {"SayHello3", "async"} THEN "read"
  ELSE IF ok /\ Len(server.out) > 1 THEN "write" ELSE "return"

ServerWrite ==
  /\ server.pc = "write"
  /\ \/ /\ ~net.broken /\ Len(net.down) < Window
        /\ net' = [net EXCEPT !.down = Append(@, Head(server.out))]
        /\ server' = [server EXCEPT !.out = Tail(@), !.pc = AfterWrite(TRUE)]
     \/ /\ net.broken
        /\ server' = [server EXCEPT !.out = <<>>, !.pc = AfterWrite(FALSE)]
        /\ UNCHANGED net
  /\ UNCHANGED <<rpc, writer, reader, running, cancelled>>

\* return Status::OK, which a broken call does not deliver.
ServerReturn ==
  /\ server.pc = "return"
  /\ server' = [server EXCEPT !.pc = "done"]
  /\ net' = [net EXCEPT !.sent = ~net.broken]
  /\ UNCHANGED <<rpc, writer, reader, running, cancelled>>

Server == ServerRead \/ ServerWrite \/ ServerReturn

-----------------------------------------------------------------------------
\* How many requests a call sends: client_async.cpp sends until it is stopped.
Requests == IF rpc \in {"SayHello", "SayHello2"} THEN 1 ELSE NameCount

\* The next request to write; a Write that fails ends the loop.
WriterStep ==
  /\ writer.pc = "write"
  /\ LET more == IF rpc = "async" THEN running ELSE writer.count < Requests
     IN  \/ /\ more /\ ~net.broken /\ ~net.sent /\ Len(net.up) < Window
            /\ net' = [net EXCEPT !.up = Append(@, Names[writer.count + 1])]
            /\ writer' = IF rpc = "async" THEN writer
                                          ELSE [writer EXCEPT !.count = @ + 1]
         \/ /\ ~more \/ net.broken \/ net.sent
            /\ writer' = [writer EXCEPT !.pc = "done"]
            /\ net' = [net EXCEPT !.halfClosed = rpc # "async"]  \* WritesDone
  /\ UNCHANGED <<rpc, server, reader, running, cancelled>>

\* Mutant: SayHello3 writes its requests before it reads.
OneThread == rpc = "async"

\* A thread of its own writes the requests while another reads.
TwoThreads == rpc \in {"SayHello3", "async"}

\* Read, and for a single response Finish: the messages in order, then the
\* status. A broken call loses what was under way.
ReaderStep ==
  /\ reader.pc = "read"
  /\ TwoThreads \/ writer.pc = "done"
  /\ \/ /\ net.down # <<>>
        /\ net' = [net EXCEPT !.down = Tail(@)]
        /\ reader' = IF rpc = "async" THEN reader
                     ELSE [reader EXCEPT !.got = Append(@, Head(net.down))]
     \/ /\ net.sent /\ net.down = <<>>
        /\ reader' = [reader EXCEPT !.pc = "done", !.status = "OK"]
        /\ UNCHANGED net
     \/ /\ net.broken
        /\ reader' = [reader EXCEPT !.pc = "done", !.status = "failed"]
        /\ UNCHANGED net
  /\ UNCHANGED <<rpc, server, writer, running, cancelled>>

\* main has joined the writer and has the status: on to the next block.
NextCall ==
  /\ rpc \notin {"async", "end"}
  /\ reader.pc = "done" /\ writer.pc = "done"
  /\ \/ rpc = "SayHello3" /\ rpc' = "end" /\ UNCHANGED <<net, server, writer, reader>>
     \/ \E i \in 1 .. 3, broken \in BOOLEAN :
          Calls[i] = rpc /\ Begin(Calls[i + 1], broken)
  /\ UNCHANGED <<running, cancelled>>

-----------------------------------------------------------------------------
\* client_async.cpp, run(): running_ is set before the call is made.
SetRunning ==
  /\ writer.pc = "run" /\ ~running /\ ~cancelled
  /\ running' = TRUE
  /\ UNCHANGED <<rpc, net, server, writer, reader, cancelled>>

StartStream ==
  /\ writer.pc = "run" /\ (running \/ cancelled)
  /\ \E broken \in {cancelled, TRUE} : Begin("async", broken)
  /\ UNCHANGED <<running, cancelled>>

\* Both threads are joined and run() returns.
Joined ==
  /\ rpc = "async" /\ reader.pc = "done" /\ writer.pc = "done"
  /\ rpc' = "end"
  /\ UNCHANGED <<net, server, writer, reader, running, cancelled>>

\* Mutant: the call is not cancelled.
StopWithoutCancel ==
  /\ rpc = "async" /\ running
  /\ running' = FALSE
  /\ cancelled' = TRUE
  /\ UNCHANGED <<rpc, net, server, writer, reader>>

\* The signal handler: it does nothing before running_ is set, or twice.
stop ==
  /\ rpc = "async" /\ running
  /\ running' = FALSE
  /\ cancelled' = TRUE
  /\ net' = [net EXCEPT !.broken = TRUE]
  /\ UNCHANGED <<rpc, server, writer, reader>>

\* The connection is lost.
Break ==
  /\ rpc # "end" /\ ~net.broken
  /\ net' = [net EXCEPT !.broken = TRUE]
  /\ UNCHANGED <<rpc, server, writer, reader, running, cancelled>>

Client == WriterStep \/ ReaderStep \/ NextCall \/ SetRunning \/ StartStream \/ Joined

Next == Server \/ Client \/ stop \/ Break

Spec == Init /\ [][Next]_vars

-----------------------------------------------------------------------------
Each(names) == [i \in DOMAIN names |-> <<names[i]>>]

\* A call that ends with status OK has all its responses, in order, each about
\* the request it answers: no message is lost, doubled or mixed up between the
\* handler's loop and the client's two threads.
CompleteWhenOK ==
  rpc # "end" /\ reader.status = "OK" /\ writer.pc = "done" =>
    reader.got = CASE rpc = "SayHello" -> <<<<Names[1]>>>>
                   [] rpc = "SayHello1" -> <<Names>>
                   [] rpc = "SayHello2" -> [i \in 1 .. 3 |-> <<Names[1]>>]
                   [] rpc = "SayHello3" -> Each(Names)
                   [] rpc = "async" -> <<>>

\* gRPC moves messages and ends, both programs' threads run. Signals and broken
\* connections need not come.
LiveSpec ==
  /\ Spec
  /\ WF_vars(Server) /\ WF_vars(WriterStep) /\ WF_vars(ReaderStep)
  /\ WF_vars(NextCall) /\ WF_vars(SetRunning) /\ WF_vars(StartStream) /\ WF_vars(Joined)

\* client.cpp gets through its four calls although both directions may fill up:
\* nobody writes while everybody waits for him to read.
ClientEnds == rpc = "SayHello" ~> rpc = "end"

\* Once stop() has cleared running_, run() returns: both threads leave their
\* loops, in whichever state the stream is, also when it is not yet made.
StopEndsRun == cancelled ~> rpc = "end"
================================================================================

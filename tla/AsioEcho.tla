------------------------------- MODULE AsioEcho -------------------------------
(***************************************************************************)
(* The asynchronous asio servers, all on port 13: asio/allocation and      *)
(* asio/buffer, which send what they read back with text around it, and    *)
(* asio/daytime/server_async.cpp, which sends one message. The client is   *)
(* asio/allocation/client.cpp.                                             *)
(*                                                                         *)
(* One thread runs the io_context, so a completion with its handler is one *)
(* step. A byte is the number of the client's line it belongs to, or 0 in  *)
(* the text the server adds: one byte before and one after the line.       *)
(***************************************************************************)
EXTENDS Naturals, Sequences, FiniteSets, FiniteSetsExt

CONSTANTS
  Conns,     \* the connections clients may make, each by a client of its own
  Capacity,  \* of data_, 1024 bytes
  ClientBuf, \* of the client's buffer, 128 bytes
  StorageSize,                          \* of storage_, 1024 bytes
  ReadSize, WriteSize, SharedWriteSize, \* of asio's operations, fixed by their types
  MaxLine,   \* bound: the bytes of a line
  MaxLines   \* bound: the lines the clients send, all together

ASSUME EchoAssumption ==
  /\ Capacity \in Nat \ {0} /\ ClientBuf \in Nat \ {0}
  /\ StorageSize \in Nat /\ ReadSize \in Nat
  /\ WriteSize \in Nat /\ SharedWriteSize \in Nat
  /\ MaxLine \in Nat /\ MaxLines \in Nat

VARIABLES
  program,   \* which server runs: "allocation", "buffer" or "daytime"
  accepting, \* an accept is outstanding
  overrun,   \* memcpy wrote past data_: nothing is known of what follows
  conn,      \* the server's connection objects
  client,    \* the clients: pc, lines sent, bytes sent and received
  up, down   \* bytes on the way to the server and to the client

vars == <<program, accepting, overrun, conn, client, up, down>>

\* ops: the outstanding operations; self: those whose handler holds a reference
\* to the connection; life: "none", "alive" or "gone"; in_use_ and the operations
\* whose memory is from the heap; data_; the response: where it is sent from
\* (data_ or a text of its own), its size, what was sent of it.
NewConn == [ops |-> {}, self |-> {}, life |-> "none", in_use |-> FALSE, heap |-> {},
            data |-> <<>>, text |-> <<>>, size |-> 0, pos |-> 0]

Init ==
  /\ program \in {"allocation", "buffer", "daytime"}
  /\ accepting = TRUE
  /\ overrun = FALSE
  /\ conn = [c \in Conns |-> NewConn]
  /\ client = [c \in Conns |-> [pc |-> "connect", lines |-> 0,
                                sent |-> <<>>, got |-> <<>>]]
  /\ up = [c \in Conns |-> <<>>]
  /\ down = [c \in Conns |-> <<>>]

-----------------------------------------------------------------------------
\* The memory asio needs for an operation: a write of a shared buffer is of
\* another type than one from data_.
Size(op) ==
  CASE op = "read" -> ReadSize
    [] op = "write" -> IF program = "buffer" THEN SharedWriteSize ELSE WriteSize

Fits(op) == Size(op) < StorageSize

\* handler_memory, called by asio for every operation with such a handler.
allocate(r, op) == IF ~r.in_use /\ Fits(op) THEN [r EXCEPT !.in_use = TRUE]
                                            ELSE [r EXCEPT !.heap = @ \cup {op}]

\* Mutant: in_use_ is not reset.
KeepInUse(r, op) == [r EXCEPT !.heap = @ \ {op}]

deallocate(r, op) == IF op \in r.heap THEN [r EXCEPT !.heap = @ \ {op}]
                                      ELSE [r EXCEPT !.in_use = FALSE]

\* Mutant: the handler captures this, and not self.
ReadWithoutSelf(r) == allocate([r EXCEPT !.ops = @ \cup {"read"}], "read")

doRead(r) ==
  allocate([r EXCEPT !.ops = @ \cup {"read"}, !.self = @ \cup {"read"}], "read")

\* Mutant: the length of the chunk is ignored, older bytes of data_ come along.
StaleResponse(r, n) == <<0>> \o r.data \o <<0>>

Response(r, n) == <<0>> \o SubSeq(r.data, 1, n) \o <<0>>

\* allocation.cpp: the response replaces the chunk in data_, and is sent from
\* there.
doWrite(r, n) ==
  allocate([r EXCEPT !.ops = @ \cup {"write"}, !.self = @ \cup {"write"},
                     !.data = Response(r, n), !.size = n + 2, !.pos = 0], "write")

\* reference_counted_buffer.cpp: the operation shares a text of its own.
doWriteShared(r, n) ==
  allocate([r EXCEPT !.ops = @ \cup {"write"}, !.self = @ \cup {"write"},
                     !.text = Response(r, n), !.size = n + 2, !.pos = 0], "write")

\* server_async.cpp: one message, kept in the connection; the completion is bound
\* to shared_from_this().
handle(r) == [r EXCEPT !.ops = @ \cup {"write"}, !.self = @ \cup {"write"},
                       !.text = <<0>>, !.size = 1]

Respond(r, n) ==
  CASE program = "allocation" -> doWrite(r, n)
    [] program = "buffer" -> doWriteShared(r, n)
    [] program = "daytime" -> handle(r)

\* The references in the handlers of outstanding operations are all that keeps a
\* connection. Its destruction closes the socket; an operation that is still
\* outstanding then completes later, on the memory of an object that is gone.
Release(r) == IF r.self = {} THEN [NewConn EXCEPT !.life = "gone", !.ops = r.ops]
                             ELSE [r EXCEPT !.life = "alive"]

\* asio takes the handler out of the operation and frees the operation's memory
\* through the handler's allocator, before it calls the handler.
Completed(c, op) ==
  LET r == [conn[c] EXCEPT !.ops = @ \ {op}, !.self = @ \ {op}]
  IN  IF program = "daytime" THEN r ELSE deallocate(r, op)

\* The handler, which may have started the next operation, is destroyed.
Return(c, r) == conn' = [conn EXCEPT ![c] = Release(r)]

\* The handlers of a write.
onWrite(r) == IF program = "daytime" THEN r ELSE doRead(r)

-----------------------------------------------------------------------------
\* Mutant: the accept is not started again.
AcceptOnce(c) ==
  /\ accepting
  /\ conn[c].life = "none" /\ client[c].pc # "connect"
  /\ conn' = [conn EXCEPT ![c] = Release(Respond(@, 0))]
  /\ accepting' = FALSE
  /\ UNCHANGED <<program, overrun, client, up, down>>

\* doAccept's handler: start() writes a first response; the accept is started
\* again, also when it failed and the connection is lost.
Accept(c) ==
  /\ accepting
  /\ conn[c].life = "none" /\ client[c].pc # "connect"
  /\ \/ conn' = [conn EXCEPT ![c] = Release(Respond(@, 0))]
     \/ conn' = [conn EXCEPT ![c].life = "gone"]
  /\ accepting' = TRUE
  /\ UNCHANGED <<program, overrun, client, up, down>>

\* The kernel takes some bytes; async_write goes on until all are taken, each
\* time with a new operation that takes the handler over, and only then calls it.
WriteSome(c) ==
  /\ "write" \in conn[c].ops
  /\ \E n \in 1 .. conn[c].size - conn[c].pos :
       LET r == conn[c]
           bytes == IF program = "allocation" THEN r.data ELSE r.text
           again(s) == allocate([s EXCEPT !.ops = @ \cup {"write"}, !.pos = @ + n,
                                          !.self = @ \cup {"write"}], "write")
           done == Completed(c, "write")
       IN  /\ down' = [down EXCEPT ![c] = @ \o SubSeq(bytes, r.pos + 1, r.pos + n)]
           /\ Return(c, IF r.pos + n = r.size THEN onWrite(done) ELSE again(done))
  /\ UNCHANGED <<program, accepting, overrun, client, up>>

\* async_read_some: some bytes replace the beginning of data_. A response that
\* does not fit into data_ is copied past its end by allocation.cpp.
ReadSome(c) ==
  /\ "read" \in conn[c].ops
  /\ \E n \in 1 .. Capacity :
       LET chunk == SubSeq(up[c], 1, n)
           put(r) == [r EXCEPT !.data = chunk \o SubSeq(@, n + 1, Len(@))]
       IN  /\ n <= Len(up[c])
           /\ up' = [up EXCEPT ![c] = SubSeq(@, n + 1, Len(@))]
           /\ overrun' = (program = "allocation" /\ n + 2 > Capacity)
           /\ IF overrun' THEN UNCHANGED conn
              ELSE Return(c, Respond(put(Completed(c, "read")), n))
  /\ UNCHANGED <<program, accepting, client, down>>

\* An operation fails once the client is gone: the handler does nothing.
Fail(c) ==
  /\ client[c].pc = "quit"
  /\ \E op \in conn[c].ops : Return(c, Completed(c, op))
  /\ UNCHANGED <<program, accepting, overrun, client, up, down>>

Server(c) == ~overrun /\ (Accept(c) \/ WriteSome(c) \/ ReadSome(c) \/ Fail(c))

-----------------------------------------------------------------------------
Go(c, from, to) == client[c].pc = from /\ client' = [client EXCEPT ![c].pc = to]

Connect(c) == Go(c, "connect", "hello") /\ UNCHANGED <<up, down>>

\* talkToServer: an empty line quits; write_some may take only a part of the
\* line, the rest is never sent; an error is thrown and ends main.
talkToServer(c) ==
  /\ \/ \E n \in 1 .. MaxLine :
          LET line == [i \in 1 .. n |-> client[c].lines + 1]
          IN  /\ client[c].pc = "talk"
              /\ MapThenSumSet(LAMBDA d : client[d].lines, Conns) < MaxLines
              /\ client' = [client EXCEPT ![c].pc = "read", ![c].lines = @ + 1,
                                          ![c].sent = @ \o line]
              /\ up' = [up EXCEPT ![c] = @ \o line]
     \/ Go(c, "talk", "quit") /\ UNCHANGED up
  /\ UNCHANGED down

\* readFromServer: whatever has arrived, up to the buffer. The end of the stream
\* or an error ends main; the first read asserts that it met no end.
readFromServer(c) ==
  /\ client[c].pc \in {"hello", "read"}
  /\ \/ \E n \in 1 .. ClientBuf :
          /\ n <= Len(down[c])
          /\ client' = [client EXCEPT ![c].pc = "talk",
                                      ![c].got = @ \o SubSeq(down[c], 1, n)]
          /\ down' = [down EXCEPT ![c] = SubSeq(@, n + 1, Len(@))]
     \/ /\ conn[c].life = "gone"
        /\ Go(c, client[c].pc, "quit") \/ (down[c] = <<>> /\ Go(c, "hello", "abort"))
        /\ UNCHANGED down
  /\ UNCHANGED up

Client(c) ==
  /\ Connect(c) \/ talkToServer(c) \/ readFromServer(c)
  /\ UNCHANGED <<program, accepting, overrun, conn>>

Next == \E c \in Conns : Server(c) \/ Client(c)

Spec == Init /\ [][Next]_vars

-----------------------------------------------------------------------------
\* A connection is there exactly as long as an operation of it is outstanding:
\* every handler in the chain of writes and reads holds self, so no completion
\* finds the socket, data_ or the handler memory of a destroyed object, and
\* nothing else holds it, so none is left behind with its socket open.
HandlerKeepsConnection ==
  \A c \in Conns : conn[c].life = "alive" <=> conn[c].ops # {}

\* One storage is enough: asio frees an operation before its handler starts the
\* next, so an operation that fits into storage_ never goes to the heap because
\* the storage is taken, and storage_ is marked in use exactly while one has it.
StorageSuffices ==
  program # "daytime" =>
    \A c \in Conns :
      /\ conn[c].heap = {op \in conn[c].ops : ~Fits(op)}
      /\ conn[c].in_use <=> conn[c].ops # conn[c].heap

\* How many of the first i bytes are not the server's own text.
Echoed(bytes, i) == Cardinality({k \in 1 .. i : bytes[k] # 0})

\* The n-th of those bytes is the n-th byte that was sent.
IsEcho(bytes, sent) ==
  \A i \in 1 .. Len(bytes) :
    bytes[i] # 0 => /\ Echoed(bytes, i) <= Len(sent)
                    /\ bytes[i] = sent[Echoed(bytes, i)]

\* What the client gets back, the server's own text left out, is the beginning
\* of what it sent: reads, writes in pieces and the reuse of data_ for both
\* lose, repeat and reorder nothing.
EchoIntact ==
  \A c \in Conns : IsEcho(client[c].got \o down[c], client[c].sent)

\* The thread in ctx.run() serves every completion; the client's reads return
\* when there is something to return. The user may stop typing.
LiveSpec ==
  /\ Spec
  /\ \A c \in Conns : WF_vars(Server(c)) /\ WF_vars(readFromServer(c) /\ Client(c))

\* A client that waits for the server does not wait for ever, whatever other
\* connections do: it is accepted, gets an answer or the end of the stream.
ClientAnswered ==
  \A c \in Conns :
    client[c].pc \in {"hello", "read"} ~> (overrun \/ client[c].pc \notin {"hello", "read"})
=============================================================================

-------------------------- MODULE GreeterStreamProofs --------------------------
(***************************************************************************)
(* Proofs about the synchronous service and its clients, for any number of *)
(* names and any flow control window: a call that ends with status OK is   *)
(* complete. The invariant says where every request and every response is  *)
(* while the call can still end well.                                      *)
(***************************************************************************)
EXTENDS GreeterStream, SequenceTheorems, TLAPS

FourCalls == {"SayHello", "SayHello1", "SayHello2", "SayHello3"}

Messages == Seq(Seq(Nat))

Types ==
  /\ rpc \in FourCalls \cup {"async", "end"}
  /\ net \in [up : Seq(Nat), down : Messages, halfClosed : BOOLEAN,
              sent : BOOLEAN, broken : BOOLEAN]
  /\ server \in [pc : {"read", "write", "return", "done"}, names : Seq(Nat),
                 out : Messages]
  /\ writer \in [pc : {"run", "write", "done"}, count : Nat]
  /\ reader \in [pc : {"run", "read", "done"}, got : Messages,
                 status : {"none", "OK", "failed"}]

\* The handler has something to write exactly when it is about to.
Pending == server.out # <<>> <=> server.pc = "write"

\* SayHello3 makes one response at a time.
OneReply == rpc \in {"SayHello3", "async"} => Len(server.out) <= 1

\* client_async.cpp keeps nothing it reads, and counts nothing it writes.
AsyncKeepsNothing == rpc = "async" => reader.got = <<>> /\ writer.count = 0

\* The call may still end with status OK.
Good == rpc \in FourCalls /\ (net.sent \/ ~net.broken)

\* Requests the handler has read, and responses it has made.
Taken == writer.count - Len(net.up)
Made == Len(reader.got) + Len(net.down) + Len(server.out)

\* The k-th response of the call, and how many there are.
Answer(k) == IF rpc = "SayHello1" THEN Names
             ELSE IF rpc = "SayHello3" THEN <<k>> ELSE <<1>>
Answers == IF rpc = "SayHello3" THEN NameCount ELSE IF rpc = "SayHello2" THEN 3 ELSE 1

\* The requests in order: those on the way are the ones after those read.
Upstream ==
  /\ writer.count <= Requests
  /\ Len(net.up) <= writer.count
  /\ \A k \in 1 .. Len(net.up) : net.up[k] = Taken + k
  /\ net.halfClosed /\ ~net.sent => writer.count = Requests

\* The responses in order: read by the client, on the way, still to be written.
Downstream ==
  /\ \A k \in 1 .. Len(reader.got) : reader.got[k] = Answer(k)
  /\ \A k \in 1 .. Len(net.down) : net.down[k] = Answer(Len(reader.got) + k)
  /\ \A k \in 1 .. Len(server.out) :
       server.out[k] = Answer(Len(reader.got) + Len(net.down) + k)

\* Where the handler is says how much it has read and made.
Handler ==
  /\ rpc = "SayHello3" => Made = Taken
  /\ rpc # "SayHello3" =>
       /\ server.pc = "read" => Made = 0
       /\ server.pc # "read" => Made = Answers
  /\ rpc \in {"SayHello", "SayHello2"} /\ server.pc = "read" => Taken = 0
  /\ rpc = "SayHello1" /\ server.pc = "read" =>
       /\ Len(server.names) = Taken
       /\ \A k \in 1 .. Len(server.names) : server.names[k] = k
  /\ server.pc \in {"return", "done"} => Made = Answers

\* The status is behind the last message.
StatusLast ==
  /\ net.sent => server.pc = "done"
  /\ reader.status = "OK" => net.sent /\ net.down = <<>>

IInv ==
  /\ Types
  /\ Pending
  /\ OneReply
  /\ AsyncKeepsNothing
  /\ rpc \in FourCalls => StatusLast
  /\ Good => Upstream /\ Downstream /\ Handler

-----------------------------------------------------------------------------
\* The fields of the records, each with its type.
LEMMA Fields ==
  ASSUME Types
  PROVE  /\ net.up \in Seq(Nat) /\ Len(net.up) \in Nat
         /\ net.down \in Messages /\ Len(net.down) \in Nat
         /\ server.names \in Seq(Nat) /\ Len(server.names) \in Nat
         /\ server.out \in Messages /\ Len(server.out) \in Nat
         /\ writer.count \in Nat
         /\ reader.got \in Messages /\ Len(reader.got) \in Nat
BY DEF Types, Messages

\* The empty sequence is one of messages, and of names.
LEMMA EmptyTyped == <<>> \in Messages /\ <<>> \in Seq(Nat) /\ Len(<<>>) = 0
BY DEF Messages

\* A request names itself.
LEMMA NamesTyped ==
  /\ Names \in Seq(Nat) /\ Len(Names) = NameCount
  /\ \A k \in 1 .. NameCount : Names[k] = k
  /\ 1 \in 1 .. NameCount
BY StreamAssumption DEF Names

\* A call has nothing behind it when it begins.
LEMMA BeginIInv ==
  ASSUME NEW call \in FourCalls \cup {"async"}, NEW broken \in BOOLEAN,
         Begin(call, broken)
  PROVE  IInv'
<1>1. /\ net'.up = <<>> /\ net'.down = <<>> /\ ~net'.sent
      /\ ~net'.halfClosed
      /\ server'.pc = "read" /\ server'.names = <<>> /\ server'.out = <<>>
      /\ writer'.count = 0 /\ reader'.got = <<>> /\ reader'.status = "none"
      /\ rpc' = call
  BY DEF Begin
<1>2. Types'
  BY EmptyTyped DEF Begin, Types
<1>3. /\ Len(net'.up) = 0 /\ Len(net'.down) = 0 /\ Len(server'.out) = 0
      /\ Len(reader'.got) = 0 /\ Len(server'.names) = 0
  BY <1>1, EmptyTyped
<1>4. Pending' /\ OneReply' /\ AsyncKeepsNothing' /\ StatusLast'
  BY <1>1, <1>3 DEF Pending, OneReply, AsyncKeepsNothing, StatusLast
<1>5. Upstream'
  <2>1. Requests' \in Nat
    BY StreamAssumption DEF Requests
  <2> QED
    BY <1>1, <1>3, <2>1 DEF Upstream, Taken
<1>6. Downstream'
  BY <1>3 DEF Downstream
<1>7. Handler'
  <2>1. Made' = 0
    BY <1>3 DEF Made
  <2>2. Taken' = 0
    <3>1. writer'.count = 0 /\ Len(net'.up) = 0 /\ 0 - 0 = 0
      BY <1>1, <1>3
    <3> QED
      BY <3>1 DEF Taken
  <2> QED
    BY <1>1, <1>3, <2>1, <2>2 DEF Handler
<1> QED
  BY <1>2, <1>4, <1>5, <1>6, <1>7 DEF IInv

\* The initial state.
LEMMA InitIInv == Init => IInv
<1> SUFFICES ASSUME Init PROVE IInv
  OBVIOUS
<1>1. /\ net.up = <<>> /\ net.down = <<>> /\ ~net.sent
      /\ ~net.halfClosed
      /\ server.pc \in {"read", "done"} /\ server.names = <<>> /\ server.out = <<>>
      /\ writer.count = 0 /\ reader.got = <<>> /\ reader.status = "none"
      /\ rpc = "async" \/ (rpc = "SayHello" /\ server.pc = "read")
  BY DEF Init
<1>2. Types
  BY EmptyTyped DEF Init, Types, FourCalls
<1>3. /\ Len(net.up) = 0 /\ Len(net.down) = 0 /\ Len(server.out) = 0
      /\ Len(reader.got) = 0 /\ Len(server.names) = 0
  BY <1>1, EmptyTyped
<1>4. Pending /\ OneReply /\ AsyncKeepsNothing /\ StatusLast
  BY <1>1, <1>3 DEF Pending, OneReply, AsyncKeepsNothing, StatusLast
<1>5. Upstream
  <2>1. Requests \in Nat
    BY StreamAssumption DEF Requests
  <2> QED
    BY <1>1, <1>3, <2>1 DEF Upstream, Taken
<1>6. Downstream
  BY <1>3 DEF Downstream
<1>7. Good => Handler
  <2>1. Made = 0
    BY <1>3 DEF Made
  <2>2. Taken = 0
    <3>1. writer.count = 0 /\ Len(net.up) = 0 /\ 0 - 0 = 0
      BY <1>1, <1>3
    <3> QED
      BY <3>1 DEF Taken
  <2> QED
    BY <1>1, <1>3, <2>1, <2>2 DEF Good, FourCalls, Handler
<1> QED
  BY <1>2, <1>4, <1>5, <1>6, <1>7 DEF IInv

\* A break makes the call one that cannot end well, unless the status is sent.
LEMMA BreakIInv ==
  ASSUME IInv, UNCHANGED <<rpc, server, writer, reader>>,
         net' = [net EXCEPT !.broken = TRUE]
  PROVE  IInv'
<1>1. /\ net'.up = net.up /\ net'.down = net.down /\ net'.sent = net.sent
      /\ net'.halfClosed = net.halfClosed /\ net'.broken
  BY DEF IInv, Types
<1>2. Types'
  BY DEF IInv, Types
<1>3. Pending' /\ OneReply' /\ AsyncKeepsNothing' /\ (StatusLast => StatusLast')
  BY <1>1 DEF IInv, Pending, OneReply, AsyncKeepsNothing, StatusLast
<1>4. Good' => Good
  BY <1>1 DEF Good
<1>5. Made' = Made /\ Taken' = Taken /\ Answers' = Answers /\ Requests' = Requests
  BY <1>1 DEF Made, Taken, Answers, Requests
<1>6. Upstream => Upstream'
  BY <1>1, <1>5 DEF Upstream
<1>7. Downstream => Downstream'
  <2>1. \A k : Answer(k)' = Answer(k)
    BY DEF Answer, Names
  <2> QED
    BY <1>1, <2>1 DEF Downstream
<1>8. Handler => Handler'
  BY <1>1, <1>5 DEF Handler
<1> QED
  BY <1>2, <1>3, <1>4, <1>6, <1>7, <1>8 DEF IInv

\* A step that leaves the call alone.
LEMMA SameCall ==
  ASSUME IInv, UNCHANGED <<net, server, writer, reader>>, rpc' = rpc \/ rpc' = "end"
  PROVE  IInv'
<1>1. Types'
  BY DEF IInv, Types
<1>2. CASE rpc' = rpc
  BY <1>1, <1>2 DEF IInv, Pending, OneReply, AsyncKeepsNothing, StatusLast, Good,
                    Upstream, Taken, Requests, Downstream, Answer, Names, Handler, Made, Answers
<1>3. CASE rpc' = "end"
  BY <1>1, <1>3 DEF IInv, Pending, OneReply, AsyncKeepsNothing, Good, FourCalls
<1> QED
  BY <1>2, <1>3

-----------------------------------------------------------------------------
\* One response and three responses, as sequences of messages.
LEMMA RepliesTyped ==
  ASSUME NEW m \in Seq(Nat)
  PROVE  /\ Reply(m) \in Messages /\ Len(Reply(m)) = 1 /\ Reply(m)[1] = m
         /\ Reply(m) # <<>>
         /\ [k \in 1 .. 3 |-> m] \in Messages /\ Len([k \in 1 .. 3 |-> m]) = 3
         /\ [k \in 1 .. 3 |-> m] # <<>>
<1>1. Reply(m) \in Messages /\ Len(Reply(m)) = 1 /\ Reply(m)[1] = m
  BY DEF Reply, Messages
<1>2. [k \in 1 .. 3 |-> m] \in Messages /\ Len([k \in 1 .. 3 |-> m]) = 3
  BY DEF Messages
<1> QED
  BY <1>1, <1>2, EmptyTyped

\* Counting the responses.
LEMMA MadeParts ==
  ASSUME Types
  PROVE  /\ Made \in Nat
         /\ Made = 0 => Len(reader.got) = 0 /\ Len(net.down) = 0
         /\ Len(server.out) = 0 => Made = Len(reader.got) + Len(net.down)
<1>1. \A a, b, c \in Nat : /\ a + b + c \in Nat
                           /\ a + b + c = 0 => a = 0 /\ b = 0
                           /\ c = 0 => a + b + c = a + b
  OBVIOUS
<1>2. Len(reader.got) \in Nat /\ Len(net.down) \in Nat /\ Len(server.out) \in Nat
  BY Fields
<1> QED
  BY <1>1, <1>2 DEF Made

\* The handler has read a request: what the handlers have in common.
LEMMA RequestRead ==
  ASSUME IInv, server.pc = "read", net.up # <<>>, ~net.broken,
         net' = [net EXCEPT !.up = Tail(@)], UNCHANGED <<rpc, writer, reader>>
  PROVE  /\ net' \in [up : Seq(Nat), down : Messages, halfClosed : BOOLEAN,
                      sent : BOOLEAN, broken : BOOLEAN]
         /\ Head(net.up) \in Nat /\ <<Head(net.up)>> \in Seq(Nat)
         /\ net'.up = Tail(net.up) /\ net'.down = net.down /\ ~net'.broken
         /\ net'.sent = net.sent /\ net'.halfClosed = net.halfClosed
         /\ ~net.sent \/ rpc \notin FourCalls
         /\ server.out = <<>> /\ Len(server.out) = 0
         /\ Good => /\ Taken \in Nat /\ Head(net.up) = Taken + 1 /\ Taken' = Taken + 1
                    /\ Upstream'
<1>1. /\ net.up \in Seq(Nat) /\ Tail(net.up) \in Seq(Nat) /\ Head(net.up) \in Nat
      /\ Len(Tail(net.up)) = Len(net.up) - 1 /\ Len(net.up) \in Nat \ {0}
      /\ Head(net.up) = net.up[1]
      /\ \A k \in 1 .. Len(net.up) - 1 : Tail(net.up)[k] = net.up[k + 1]
  BY DEF IInv, Types
<1>2. /\ net'.up = Tail(net.up) /\ net'.down = net.down /\ net'.sent = net.sent
      /\ net'.broken = net.broken /\ net'.halfClosed = net.halfClosed
      /\ net' \in [up : Seq(Nat), down : Messages, halfClosed : BOOLEAN,
                   sent : BOOLEAN, broken : BOOLEAN]
  BY <1>1 DEF IInv, Types
<1>3. ~net.sent \/ rpc \notin FourCalls
  BY DEF IInv, StatusLast
<1>4. server.out = <<>> /\ Len(server.out) = 0
  BY EmptyTyped DEF IInv, Pending
<1>5. ASSUME Good
      PROVE  /\ Taken \in Nat /\ Head(net.up) = Taken + 1 /\ Taken' = Taken + 1
             /\ Upstream'
  <2>1. Upstream /\ writer.count \in Nat /\ writer' = writer
    BY <1>5, Fields DEF IInv
  <2>2. Taken \in Nat /\ Taken' = Taken + 1 /\ Requests' = Requests
    BY <1>1, <1>2, <2>1 DEF Upstream, Taken, Requests
  <2>3. Head(net.up) = Taken + 1
    BY <1>1, <2>1 DEF Upstream
  <2>4. ASSUME NEW k \in 1 .. Len(net'.up) PROVE net'.up[k] = Taken' + k
    <3>1. k \in 1 .. Len(net.up) - 1 /\ k + 1 \in 1 .. Len(net.up)
      BY <1>1, <1>2
    <3>2. net'.up[k] = net.up[k + 1] /\ net.up[k + 1] = Taken + (k + 1)
      BY <1>1, <1>2, <2>1, <3>1 DEF Upstream
    <3> QED
      BY <2>2, <3>1, <3>2
  <2>5. Upstream'
    <3>1. writer'.count <= Requests' /\ Len(net'.up) <= writer'.count
      BY <1>1, <1>2, <2>1, <2>2 DEF Upstream
    <3>2. net'.halfClosed /\ ~net'.sent => writer'.count = Requests'
      BY <1>2, <2>1, <2>2 DEF Upstream
    <3> QED
      BY <2>4, <3>1, <3>2 DEF Upstream
  <2> QED
    BY <2>2, <2>3, <2>5
<1>6. <<Head(net.up)>> \in Seq(Nat)
  BY <1>1
<1> QED
  BY <1>1, <1>2, <1>3, <1>4, <1>5, <1>6

\* The invariant from what the handler has done with the request. Only the
\* fields of server' and the types matter.
LEMMA RequestHandled ==
  ASSUME IInv, server.pc = "read", net.up # <<>>, ~net.broken,
         net' = [net EXCEPT !.up = Tail(@)], UNCHANGED <<rpc, writer, reader>>,
         NEW out \in Messages, NEW names \in Seq(Nat), NEW p \in {"read", "write"},
         server' = [pc |-> p, names |-> names, out |-> out],
         out # <<>> <=> p = "write",
         rpc \in {"SayHello3", "async"} => Len(out) <= 1,
         Good => /\ Handler'
                 /\ \A k \in 1 .. Len(out) :
                      out[k] = Answer(Len(reader.got) + Len(net.down) + k)
  PROVE  IInv'
<1>1. /\ net' \in [up : Seq(Nat), down : Messages, halfClosed : BOOLEAN,
                   sent : BOOLEAN, broken : BOOLEAN]
      /\ net'.down = net.down /\ net'.sent = net.sent /\ ~net'.broken
      /\ ~net.sent \/ rpc \notin FourCalls
      /\ Good => Upstream'
  BY RequestRead
<1>2. server'.pc = p /\ server'.out = out
  OBVIOUS
<1>3. Types'
  BY <1>1 DEF IInv, Types
<1>4. Pending' /\ OneReply' /\ AsyncKeepsNothing'
  BY <1>2 DEF IInv, Pending, OneReply, AsyncKeepsNothing
<1>5. rpc' \in FourCalls => StatusLast'
  BY <1>1, <1>2 DEF IInv, StatusLast
<1>6. Good' => Good
  BY DEF Good
<1>7. Good => Downstream'
  <2>1. \A k : Answer(k)' = Answer(k)
    BY DEF Answer, Names
  <2>2. Good => Downstream
    BY DEF IInv
  <2> QED
    BY <1>1, <1>2, <2>1, <2>2 DEF Downstream
<1> QED
  BY <1>1, <1>3, <1>4, <1>5, <1>6, <1>7 DEF IInv

\* A call to SayHello or SayHello2: the one request is answered.
LEMMA SingleRequest ==
  ASSUME IInv, server.pc = "read", net.up # <<>>, ~net.broken,
         net' = [net EXCEPT !.up = Tail(@)], UNCHANGED <<rpc, writer, reader>>,
         \/ rpc = "SayHello" /\ server' = SayHello(Head(net.up))
         \/ rpc = "SayHello2" /\ server' = SayHello2(Head(net.up))
  PROVE  IInv'
<1> DEFINE m == <<Head(net.up)>>
           out == IF rpc = "SayHello" THEN Reply(m) ELSE [k \in 1 .. 3 |-> m]
<1>1. /\ m \in Seq(Nat) /\ net'.down = net.down /\ Len(server.out) = 0
      /\ Good => Taken \in Nat /\ Head(net.up) = Taken + 1 /\ Taken' = Taken + 1
  BY RequestRead
<1>2. /\ out \in Messages /\ out # <<>> /\ Len(out) = Answers
      /\ \A k \in 1 .. Len(out) : out[k] = m
  <2>1. CASE rpc = "SayHello"
    <3>1. out = Reply(m) /\ Answers = 1
      BY <2>1 DEF Answers
    <3> HIDE DEF m, out
    <3>2. Reply(m) \in Messages /\ Len(Reply(m)) = 1 /\ Reply(m)[1] = m /\ Reply(m) # <<>>
      BY <1>1, RepliesTyped
    <3> QED
      BY <3>1, <3>2
  <2>2. CASE rpc = "SayHello2"
    BY <1>1, <2>2, RepliesTyped DEF Answers
  <2> QED
    BY <2>1, <2>2
<1>3. server' = [pc |-> "write", names |-> <<>>, out |-> out]
  BY DEF SayHello, SayHello2
<1> HIDE DEF out
<1>4. ASSUME Good
      PROVE  /\ Handler'
             /\ \A k \in 1 .. Len(out) :
                  out[k] = Answer(Len(reader.got) + Len(net.down) + k)
  <2>1. Handler /\ Types
    BY <1>4 DEF IInv
  <2>2. Taken = 0 /\ Made = 0
    BY <2>1 DEF Handler
  <2>3. Len(reader.got) = 0 /\ Len(net.down) = 0
    BY <2>1, <2>2, MadeParts
  <2>4. m = <<1>>
    BY <1>1, <1>4, <2>2
  <2>5. \A k : Answer(k) = <<1>>
    BY DEF Answer
  <2>6. Made' = Answers' /\ Answers' = Answers
    <3>1. Answers' = Answers /\ Answers \in Nat
      BY StreamAssumption DEF Answers
    <3>2. Made' = Len(reader.got) + Len(net.down) + Len(out)
      BY <1>1, <1>3 DEF Made
    <3> QED
      BY <1>2, <2>3, <3>1, <3>2
  <2>7. Handler'
    BY <1>3, <2>6 DEF Handler
  <2> QED
    BY <1>2, <2>4, <2>5, <2>7
<1> QED
  BY <1>2, <1>3, <1>4, EmptyTyped, RequestHandled

\* A request of SayHello1 is remembered.
LEMMA RequestRemembered ==
  ASSUME IInv, server.pc = "read", net.up # <<>>, ~net.broken,
         net' = [net EXCEPT !.up = Tail(@)], UNCHANGED <<rpc, writer, reader>>,
         rpc = "SayHello1", server' = SayHello1(Head(net.up))
  PROVE  IInv'
<1> DEFINE n == Head(net.up)
           names == Append(server.names, n)
<1>1. /\ n \in Nat /\ net'.down = net.down
      /\ server.out = <<>> /\ Len(server.out) = 0
      /\ Good => Taken \in Nat /\ n = Taken + 1 /\ Taken' = Taken + 1
  BY RequestRead
<1>2. server.names \in Seq(Nat) /\ Len(server.names) \in Nat /\ Types
  BY Fields DEF IInv
<1>3. /\ names \in Seq(Nat) /\ Len(names) = Len(server.names) + 1
      /\ \A k \in 1 .. Len(server.names) : names[k] = server.names[k]
      /\ names[Len(server.names) + 1] = n
  BY <1>1, <1>2
<1>4. server' = [pc |-> "read", names |-> names, out |-> <<>>]
  BY <1>1, <1>2 DEF SayHello1, Types
<1> HIDE DEF names, n
<1>5. ASSUME Good PROVE Handler'
  <2>1. Handler
    BY <1>5 DEF IInv
  <2>2. /\ Len(server.names) = Taken /\ Made = 0
        /\ \A k \in 1 .. Len(server.names) : server.names[k] = k
    BY <2>1 DEF Handler
  <2>3. Made' = 0
    <3>1. Made' = Len(reader.got) + Len(net.down) + Len(<<>>)
      <4>1. server'.out = <<>> /\ net'.down = net.down /\ reader' = reader
        BY <1>1, <1>4
      <4> QED
        BY <4>1, Zenon DEF Made
    <3>2. Len(reader.got) = 0 /\ Len(net.down) = 0
      BY <1>2, <2>2, MadeParts
    <3> QED
      BY <3>1, <3>2, EmptyTyped
  <2>4. /\ Len(names) = Taken'
        /\ \A k \in 1 .. Len(names) : names[k] = k
    BY <1>1, <1>2, <1>3, <1>5, <2>2
  <2> QED
    BY <1>4, <2>3, <2>4 DEF Handler
<1>6. \A k \in 1 .. Len(<<>>) : <<>>[k] = Answer(Len(reader.got) + Len(net.down) + k)
  BY EmptyTyped
<1>7. <<>> \in Messages
  BY EmptyTyped
<1> QED
  BY <1>3, <1>4, <1>5, <1>6, <1>7, RequestHandled

\* A request of SayHello3, of either client, is answered at once.
LEMMA RequestAnswered ==
  ASSUME IInv, server.pc = "read", net.up # <<>>, ~net.broken,
         net' = [net EXCEPT !.up = Tail(@)], UNCHANGED <<rpc, writer, reader>>,
         rpc \notin {"SayHello", "SayHello1", "SayHello2"},
         server' = SayHello3(Head(net.up))
  PROVE  IInv'
<1> DEFINE m == <<Head(net.up)>>
           out == Reply(m)
<1>1. /\ m \in Seq(Nat) /\ net'.down = net.down /\ Len(server.out) = 0
      /\ Good => Taken \in Nat /\ Head(net.up) = Taken + 1 /\ Taken' = Taken + 1
  BY RequestRead
<1>2. out \in Messages /\ out # <<>> /\ Len(out) = 1 /\ out[1] = m
  BY <1>1, RepliesTyped
<1>3. server' = [pc |-> "write", names |-> server.names, out |-> out]
      /\ server.names \in Seq(Nat)
  BY DEF SayHello3, IInv, Types
<1> HIDE DEF out
<1>4. ASSUME Good
      PROVE  /\ Handler'
             /\ \A k \in 1 .. Len(out) :
                  out[k] = Answer(Len(reader.got) + Len(net.down) + k)
  <2>1. Handler /\ Types /\ rpc = "SayHello3"
    BY <1>4 DEF IInv, Good, FourCalls
  <2>2. Made = Taken /\ Made = Len(reader.got) + Len(net.down) /\ Made \in Nat
    BY <1>1, <2>1, MadeParts DEF Handler
  <2>3. Made' = Made + 1
    <3>1. Made' = Len(reader.got) + Len(net.down) + Len(out)
      <4>1. server'.out = out /\ net'.down = net.down /\ reader' = reader
        BY <1>1, <1>3
      <4> QED
        BY <4>1, Zenon DEF Made
    <3> QED
      BY <1>2, <2>2, <3>1
  <2>4. Handler'
    <3>1. server'.out = out /\ server'.pc = "write"
      BY <1>3
    <3>2. Made' = Taken'
      BY <1>1, <1>4, <2>2, <2>3
    <3> QED
      BY <2>1, <3>1, <3>2 DEF Handler
  <2>5. \A k : Answer(k) = <<k>>
    BY <2>1 DEF Answer
  <2>6. \A k \in 1 .. Len(out) : out[k] = <<Len(reader.got) + Len(net.down) + k>>
    <3>1. m = <<Len(reader.got) + Len(net.down) + 1>>
      BY <1>1, <1>4, <2>2
    <3>2. \A k \in 1 .. Len(out) : k = 1
      BY <1>2
    <3> HIDE DEF m
    <3> QED
      BY <1>2, <3>1, <3>2
  <2> QED
    BY <2>4, <2>5, <2>6
<1>5. Len(out) <= 1
  <2>1. 1 <= 1
    OBVIOUS
  <2> QED
    BY <1>2, <2>1, Zenon
<1> QED
  BY <1>2, <1>3, <1>4, <1>5, RequestHandled

\* The requests are over. In SayHello1 the response is about all of them; the
\* others return, SayHello and SayHello2 only because the call broke.
LEMMA RequestsOver ==
  ASSUME IInv, server.pc = "read", net.broken \/ (net.up = <<>> /\ net.halfClosed),
         UNCHANGED <<rpc, net, writer, reader>>,
         server' = IF rpc = "SayHello1" THEN SayHello1Ends
                                        ELSE [server EXCEPT !.pc = "return"]
  PROVE  IInv'
<1>1. Types /\ server.out = <<>> /\ Len(server.out) = 0
  BY EmptyTyped DEF IInv, Pending
<1>2. server.names \in Seq(Nat) /\ Len(server.names) \in Nat
  BY <1>1, Fields
<1> DEFINE one == Reply(server.names)
<1>3. one \in Messages /\ one # <<>> /\ Len(one) = 1 /\ one[1] = server.names
  BY <1>2, RepliesTyped
<1> HIDE DEF one
<1>4. /\ rpc = "SayHello1" => server'.out = one /\ server'.pc = "write"
      /\ rpc # "SayHello1" => server'.out = <<>> /\ server'.pc = "return"
  BY <1>1 DEF SayHello1Ends, Types, one
<1>5. Types'
  <2>1. CASE rpc = "SayHello1"
    <3>1. server' = [server EXCEPT !.pc = "write", !.out = one]
      BY <2>1 DEF SayHello1Ends, one
    <3> QED
      BY <1>1, <1>3, <3>1 DEF Types
  <2>2. CASE rpc # "SayHello1"
    BY <1>1, <2>2 DEF Types
  <2> QED
    BY <2>1, <2>2
<1>6. Pending' /\ OneReply' /\ AsyncKeepsNothing'
  BY <1>1, <1>3, <1>4 DEF IInv, Pending, OneReply, AsyncKeepsNothing
<1>7. ~net.sent \/ rpc \notin FourCalls
  BY DEF IInv, StatusLast
<1>8. rpc' \in FourCalls => StatusLast'
  BY <1>7 DEF IInv, StatusLast
<1>9. ASSUME Good' PROVE Upstream' /\ Downstream' /\ Handler'
  <2>1. /\ Good /\ Upstream /\ Downstream /\ Handler /\ ~net.sent
        /\ net.up = <<>> /\ net.halfClosed /\ ~net.broken
    BY <1>7, <1>9 DEF Good, IInv
  <2>2. Len(net.up) = 0 /\ writer.count \in Nat
    BY <1>1, <2>1, EmptyTyped, Fields
  <2>3. writer.count = Requests /\ Taken = Requests
    BY <2>1, <2>2 DEF Upstream, Taken
  <2>4. Upstream'
    <3>1. Requests' = Requests /\ Taken' = Taken
      BY DEF Requests, Taken
    <3> QED
      BY <2>1, <3>1 DEF Upstream
  <2>5. \A k : Answer(k)' = Answer(k)
    BY DEF Answer, Names
  <2>6. rpc \in {"SayHello1", "SayHello3"}
    BY <2>1, <2>3 DEF Handler, Requests, Good, FourCalls
  <2>7. Requests = NameCount
    BY <2>6 DEF Requests
  <2>8. CASE rpc = "SayHello1"
    <3>1. /\ Len(server.names) = NameCount /\ Made = 0
          /\ \A k \in 1 .. Len(server.names) : server.names[k] = k
      BY <2>1, <2>3, <2>7, <2>8 DEF Handler
    <3>2. server.names = Names
      BY <1>2, <3>1, NamesTyped, SeqEqual
    <3>3. Len(reader.got) = 0 /\ Len(net.down) = 0
      BY <1>1, <3>1, MadeParts
    <3>4. \A k \in 1 .. Len(one) : one[k] = Names
      BY <1>3, <3>2
    <3>5. \A k : Answer(k) = Names
      BY <2>8 DEF Answer
    <3>6. Downstream'
      BY <1>4, <2>1, <2>5, <2>8, <3>4, <3>5 DEF Downstream
    <3>7. Made' = 1
      <4>1. Made' = Len(reader.got) + Len(net.down) + Len(one)
        BY <1>4, <2>8, Zenon DEF Made
      <4> QED
        BY <1>3, <3>3, <4>1
    <3>8. Answers' = 1
      BY <2>8 DEF Answers
    <3>9. Handler'
      BY <1>4, <2>8, <3>7, <3>8 DEF Handler
    <3> QED
      BY <2>4, <3>6, <3>9
  <2>9. CASE rpc = "SayHello3"
    <3>1. server'.out = server.out /\ server'.pc = "return"
      BY <1>1, <1>4, <2>9
    <3>2. Downstream'
      BY <2>1, <2>5, <3>1 DEF Downstream
    <3>3. Made' = Made /\ Taken' = Taken /\ Made = Taken
      BY <2>1, <2>9, <3>1 DEF Made, Taken, Handler
    <3>4. Made' = Answers'
      BY <2>3, <2>7, <2>9, <3>3 DEF Answers
    <3>5. Handler'
      BY <1>1, <2>9, <3>1, <3>3, <3>4 DEF Handler
    <3> QED
      BY <2>4, <3>2, <3>5
  <2> QED
    BY <2>6, <2>8, <2>9
<1> QED
  BY <1>5, <1>6, <1>8, <1>9 DEF IInv

\* The handler's Read.
LEMMA ServerReadIInv ==
  ASSUME IInv, ServerRead
  PROVE  IInv'
<1>1. server.pc = "read" /\ UNCHANGED <<rpc, writer, reader>>
  BY DEF ServerRead
<1>2. CASE /\ net.up # <<>> /\ ~net.broken
           /\ net' = [net EXCEPT !.up = Tail(@)]
           /\ server' = CASE rpc = "SayHello" -> SayHello(Head(net.up))
                          [] rpc = "SayHello1" -> SayHello1(Head(net.up))
                          [] rpc = "SayHello2" -> SayHello2(Head(net.up))
                          [] OTHER -> SayHello3(Head(net.up))
  <2>1. CASE rpc = "SayHello"
    <3>1. server' = SayHello(Head(net.up))
      BY <1>2, <2>1
    <3> QED
      BY <1>1, <1>2, <2>1, <3>1, SingleRequest
  <2>2. CASE rpc = "SayHello1"
    <3>1. server' = SayHello1(Head(net.up))
      BY <1>2, <2>2
    <3> QED
      BY <1>1, <1>2, <2>2, <3>1, RequestRemembered
  <2>3. CASE rpc = "SayHello2"
    <3>1. server' = SayHello2(Head(net.up))
      BY <1>2, <2>3
    <3> QED
      BY <1>1, <1>2, <2>3, <3>1, SingleRequest
  <2>4. CASE rpc \notin {"SayHello", "SayHello1", "SayHello2"}
    <3>1. server' = SayHello3(Head(net.up))
      BY <1>2, <2>4
    <3> QED
      BY <1>1, <1>2, <2>4, <3>1, RequestAnswered
  <2> QED
    BY <2>1, <2>2, <2>3, <2>4
<1>3. CASE /\ net.broken \/ (net.up = <<>> /\ net.halfClosed)
           /\ server' = IF rpc = "SayHello1" THEN SayHello1Ends
                                             ELSE [server EXCEPT !.pc = "return"]
           /\ UNCHANGED net
  BY <1>1, <1>3, RequestsOver
<1> QED
  BY <1>2, <1>3 DEF ServerRead

-----------------------------------------------------------------------------
\* What the first message of a non-empty sequence and the others are.
LEMMA SplitMessages ==
  ASSUME NEW q \in Messages, q # <<>>
  PROVE  /\ Head(q) \in Seq(Nat) /\ Head(q) = q[1]
         /\ Tail(q) \in Messages /\ Len(Tail(q)) = Len(q) - 1 /\ Len(q) \in Nat \ {0}
         /\ Len(Tail(q)) \in Nat /\ Len(q) = Len(Tail(q)) + 1
         /\ \A k \in 1 .. Len(q) - 1 : k + 1 \in 1 .. Len(q) /\ Tail(q)[k] = q[k + 1]
BY DEF Messages

\* One more message at the end.
LEMMA AddMessage ==
  ASSUME NEW q \in Messages, NEW m \in Seq(Nat)
  PROVE  /\ Append(q, m) \in Messages /\ Len(Append(q, m)) = Len(q) + 1
         /\ Len(q) \in Nat
         /\ \A k \in 1 .. Len(q) : Append(q, m)[k] = q[k]
         /\ Append(q, m)[Len(q) + 1] = m
BY DEF Messages

\* A message that moves from the front of one sequence to the end of the one
\* before it stays the response it is.
LEMMA MoveMessage ==
  ASSUME NEW p \in Messages, NEW q \in Messages, q # <<>>, NEW n \in Nat,
         \A k \in 1 .. Len(p) : p[k] = Answer(n + k),
         \A k \in 1 .. Len(q) : q[k] = Answer(n + Len(p) + k)
  PROVE  /\ \A k \in 1 .. Len(Append(p, Head(q))) :
              Append(p, Head(q))[k] = Answer(n + k)
         /\ \A k \in 1 .. Len(Tail(q)) :
              Tail(q)[k] = Answer(n + Len(Append(p, Head(q))) + k)
         /\ Len(Append(p, Head(q))) + Len(Tail(q)) = Len(p) + Len(q)
<1> DEFINE a == Append(p, Head(q))
           t == Tail(q)
<1>1. /\ Head(q) \in Seq(Nat) /\ Head(q) = q[1] /\ Len(q) \in Nat \ {0}
      /\ Len(t) = Len(q) - 1
      /\ \A k \in 1 .. Len(q) - 1 : k + 1 \in 1 .. Len(q) /\ t[k] = q[k + 1]
  BY SplitMessages
<1>2. /\ Len(a) = Len(p) + 1 /\ Len(p) \in Nat
      /\ \A k \in 1 .. Len(p) : a[k] = p[k]
      /\ a[Len(p) + 1] = Head(q)
  BY <1>1, AddMessage
<1> HIDE DEF a, t
<1>3. ASSUME NEW k \in 1 .. Len(a) PROVE a[k] = Answer(n + k)
  <2>1. CASE k \in 1 .. Len(p)
    BY <1>2, <2>1
  <2>2. CASE k = Len(p) + 1
    <3>1. 1 \in 1 .. Len(q) /\ n + Len(p) + 1 = n + k
      BY <1>1, <1>2, <2>2
    <3>2. a[k] = q[1]
      BY <1>1, <1>2, <2>2
    <3>3. q[1] = Answer(n + Len(p) + 1)
      BY <3>1
    <3> QED
      BY <3>1, <3>2, <3>3, Zenon
  <2> QED
    BY <1>2, <2>1, <2>2
<1>4. ASSUME NEW k \in 1 .. Len(t) PROVE t[k] = Answer(n + Len(a) + k)
  <2>1. k \in 1 .. Len(q) - 1 /\ k + 1 \in 1 .. Len(q)
    BY <1>1
  <2>2. t[k] = q[k + 1] /\ q[k + 1] = Answer(n + Len(p) + (k + 1))
    BY <1>1, <2>1
  <2>3. n + Len(p) + (k + 1) = n + Len(a) + k
    BY <1>2, <2>1
  <2> QED
    BY <2>2, <2>3, Zenon
<1>5. Len(a) + Len(t) = Len(p) + Len(q)
  BY <1>1, <1>2
<1> QED
  BY <1>3, <1>4, <1>5 DEF a, t

\* The handler's Write, with flow control. One that fails means that the call
\* has broken.
LEMMA ServerWriteIInv ==
  ASSUME IInv, ServerWrite
  PROVE  IInv'
<1>1. /\ server.pc = "write" /\ UNCHANGED <<rpc, writer, reader>> /\ Types
      /\ server.out # <<>> /\ server.out \in Messages /\ net.down \in Messages
  BY Fields DEF ServerWrite, IInv, Pending
<1>2. ~net.sent \/ rpc \notin FourCalls
  BY <1>1 DEF IInv, StatusLast
<1>3. reader.status = "OK" => rpc \notin FourCalls
  BY <1>2 DEF IInv, StatusLast
<1>4. /\ Head(server.out) \in Seq(Nat) /\ Tail(server.out) \in Messages
      /\ Len(Tail(server.out)) \in Nat /\ Len(server.out) = Len(Tail(server.out)) + 1
  BY <1>1, SplitMessages
<1>5. AfterWrite(TRUE) \in {"read", "write", "return"}
      /\ AfterWrite(FALSE) \in {"read", "return"}
  BY DEF AfterWrite
<1>6. CASE /\ ~net.broken
           /\ net' = [net EXCEPT !.down = Append(@, Head(server.out))]
           /\ server' = [server EXCEPT !.out = Tail(@), !.pc = AfterWrite(TRUE)]
  <2> DEFINE down == Append(net.down, Head(server.out))
             out == Tail(server.out)
             p == AfterWrite(TRUE)
  <2>1. down \in Messages
    BY <1>1, <1>4, AddMessage
  <2> HIDE DEF down, out, p
  <2>2. net' = [net EXCEPT !.down = down] /\ server' = [server EXCEPT !.out = out, !.pc = p]
    BY <1>1, <1>6 DEF Types, down, out, p
  <2>3. p \in {"read", "write", "return"} /\ out \in Messages /\ Len(out) \in Nat
        /\ Len(server.out) = Len(out) + 1
    BY <1>4, <1>5 DEF p, out
  <2>4. Types'
    BY <1>1, <2>1, <2>2, <2>3 DEF Types
  <2>5. /\ net'.up = net.up /\ net'.down = down /\ net'.sent = net.sent
        /\ net'.broken = net.broken /\ net'.halfClosed = net.halfClosed
        /\ server'.out = out /\ server'.pc = p /\ server'.names = server.names
    BY <1>1, <2>2 DEF Types
  <2>6. Pending'
    <3>1. out # <<>> <=> Len(out) > 0
      BY <2>3 DEF Messages
    <3>2. rpc \in {"SayHello3", "async"} => Len(out) = 0
      <4>1. rpc \in {"SayHello3", "async"} => Len(server.out) <= 1
        BY DEF IInv, OneReply
      <4> QED
        BY <2>3, <4>1
    <3>3. p = IF rpc \in {"SayHello3", "async"} THEN "read"
              ELSE IF Len(server.out) > 1 THEN "write" ELSE "return"
      BY DEF p, AfterWrite
    <3>4. p = "write" <=> Len(out) > 0
      BY <2>3, <3>2, <3>3
    <3> QED
      BY <2>5, <3>1, <3>4 DEF Pending
  <2>7. OneReply'
    BY <1>1, <1>4, <2>3, <2>5 DEF IInv, OneReply
  <2>8. AsyncKeepsNothing' /\ (rpc' \in FourCalls => StatusLast')
    BY <1>1, <1>2, <1>3, <2>5 DEF IInv, AsyncKeepsNothing, StatusLast
  <2>9. ASSUME Good' PROVE Upstream' /\ Downstream' /\ Handler'
    <3>1. Good /\ Upstream /\ Downstream /\ Handler
      BY <1>1, <1>6, <2>9 DEF Good, IInv
    <3>2. Taken' = Taken /\ Requests' = Requests /\ Answers' = Answers
      BY <1>1, <2>5 DEF Taken, Requests, Answers
    <3>3. Upstream'
      BY <1>1, <2>5, <3>1, <3>2 DEF Upstream
    <3>4. \A k : Answer(k)' = Answer(k)
      BY <1>1 DEF Answer, Names
    <3>5. Len(reader.got) \in Nat /\ Len(net.down) \in Nat
      BY <1>1, Fields
    <3>6. /\ \A k \in 1 .. Len(down) : down[k] = Answer(Len(reader.got) + k)
          /\ \A k \in 1 .. Len(out) : out[k] = Answer(Len(reader.got) + Len(down) + k)
          /\ Len(down) + Len(out) = Len(net.down) + Len(server.out)
      BY <1>1, <3>1, <3>5, MoveMessage DEF Downstream, down, out
    <3>7. Downstream'
      BY <1>1, <2>5, <3>1, <3>4, <3>6 DEF Downstream
    <3>8. Made' = Made
      <4>1. Made' = Len(reader.got) + Len(down) + Len(out)
        BY <1>1, <2>5, Zenon DEF Made
      <4>2. Len(down) \in Nat
        BY <2>1 DEF Messages
      <4>3. \A a, b, c \in Nat : a + b + c = a + (b + c)
        OBVIOUS
      <4>4. Len(server.out) \in Nat
        BY <2>3
      <4>5. Made = Len(reader.got) + Len(net.down) + Len(server.out)
        BY DEF Made
      <4>6. Len(out) \in Nat /\ Len(down) + Len(out) = Len(net.down) + Len(server.out)
        BY <2>3, <3>6
      <4>7. Len(reader.got) + Len(down) + Len(out)
              = Len(reader.got) + Len(net.down) + Len(server.out)
        <5>1. Len(reader.got) + Len(down) + Len(out) = Len(reader.got) + (Len(down) + Len(out))
          BY <3>5, <4>2, <4>3, <4>6, Zenon
        <5>2. Len(reader.got) + Len(net.down) + Len(server.out)
                = Len(reader.got) + (Len(net.down) + Len(server.out))
          BY <3>5, <4>3, <4>4, Zenon
        <5> QED
          BY <4>6, <5>1, <5>2, Zenon
      <4> QED
        BY <4>1, <4>5, <4>7, Zenon
    <3>9. p = "read" => rpc = "SayHello3"
      BY <3>1 DEF p, AfterWrite, Good, FourCalls
    <3>10. p = "return" => rpc # "SayHello3"
      BY DEF p, AfterWrite
    <3>11. Handler'
      <4>1. CASE rpc = "SayHello3"
        <5>1. Made = Taken /\ p # "return" /\ p # "done"
          BY <2>3, <3>1, <3>10, <4>1 DEF Handler
        <5> QED
          BY <1>1, <2>5, <3>2, <3>8, <4>1, <5>1 DEF Handler
      <4>2. CASE rpc # "SayHello3"
        <5>1. Made = Answers /\ p # "read"
          BY <1>1, <3>1, <3>9, <4>2 DEF Handler
        <5> QED
          BY <1>1, <2>5, <3>2, <3>8, <4>2, <5>1 DEF Handler
      <4> QED
        BY <4>1, <4>2
    <3> QED
      BY <3>3, <3>7, <3>11
  <2> QED
    BY <2>4, <2>6, <2>7, <2>8, <2>9 DEF IInv
<1>7. CASE /\ net.broken
           /\ server' = [server EXCEPT !.out = <<>>, !.pc = AfterWrite(FALSE)]
           /\ UNCHANGED net
  <2>1. Types'
    BY <1>1, <1>5, <1>7, EmptyTyped DEF Types
  <2>2. server'.out = <<>> /\ server'.pc \in {"read", "return"} /\ Len(server'.out) = 0
    BY <1>1, <1>5, <1>7, EmptyTyped DEF Types
  <2>3. Pending' /\ OneReply'
    BY <2>2 DEF Pending, OneReply
  <2>4. AsyncKeepsNothing' /\ (rpc' \in FourCalls => StatusLast')
    BY <1>1, <1>2, <1>3, <1>7 DEF IInv, AsyncKeepsNothing, StatusLast
  <2>5. ~Good'
    BY <1>1, <1>2, <1>7 DEF Good
  <2> QED
    BY <2>1, <2>3, <2>4, <2>5 DEF IInv
<1> QED
  BY <1>6, <1>7 DEF ServerWrite

\* The handler returns, and the status follows the last response.
LEMMA ServerReturnIInv ==
  ASSUME IInv, ServerReturn
  PROVE  IInv'
<1>1. /\ server.pc = "return" /\ UNCHANGED <<rpc, writer, reader>> /\ Types
      /\ server' = [server EXCEPT !.pc = "done"]
      /\ net' = [net EXCEPT !.sent = ~net.broken]
  BY DEF ServerReturn, IInv
<1>2. rpc \in FourCalls => ~net.sent /\ reader.status # "OK"
  BY <1>1 DEF IInv, StatusLast
<1>3. (~net.broken) \in BOOLEAN
  BY Zenon
<1> DEFINE sent == ~net.broken
<1>4. net' = [net EXCEPT !.sent = sent] /\ sent \in BOOLEAN /\ (sent <=> ~net.broken)
  BY <1>1, <1>3
<1> HIDE DEF sent
<1>5. Types'
  BY <1>1, <1>4 DEF Types
<1>6. /\ net'.up = net.up /\ net'.down = net.down /\ net'.sent = sent
      /\ net'.broken = net.broken /\ net'.halfClosed = net.halfClosed
      /\ server'.out = server.out /\ server'.pc = "done" /\ server'.names = server.names
  BY <1>1, <1>4 DEF Types
<1>7. Pending' /\ OneReply' /\ AsyncKeepsNothing'
  BY <1>1, <1>6 DEF IInv, Pending, OneReply, AsyncKeepsNothing
<1>8. rpc' \in FourCalls => StatusLast'
  BY <1>1, <1>2, <1>6 DEF StatusLast
<1>9. ASSUME Good' PROVE Upstream' /\ Downstream' /\ Handler'
  <2>1. sent /\ ~net.broken /\ Good
    BY <1>1, <1>4, <1>6, <1>9 DEF Good
  <2>2. Upstream /\ Downstream /\ Handler
    BY <2>1 DEF IInv
  <2>3. Taken' = Taken /\ Requests' = Requests /\ Answers' = Answers /\ Made' = Made
    BY <1>1, <1>6 DEF Taken, Requests, Answers, Made
  <2>4. Upstream'
    BY <1>1, <1>6, <2>1, <2>2, <2>3 DEF Upstream
  <2>5. \A k : Answer(k)' = Answer(k)
    BY <1>1 DEF Answer, Names
  <2>6. Downstream'
    BY <1>1, <1>6, <2>2, <2>5 DEF Downstream
  <2>7. Handler'
    BY <1>1, <1>6, <2>2, <2>3 DEF Handler
  <2> QED
    BY <2>4, <2>6, <2>7
<1> QED
  BY <1>5, <1>7, <1>8, <1>9 DEF IInv

\* The client's writer: the next request, or the half-close.
LEMMA WriterIInv ==
  ASSUME IInv, WriterStep
  PROVE  IInv'
<1> DEFINE more == IF rpc = "async" THEN running ELSE writer.count < Requests
<1>1. /\ writer.pc = "write" /\ UNCHANGED <<rpc, server, reader>> /\ Types
      /\ writer.count \in Nat /\ net.up \in Seq(Nat) /\ Len(net.up) \in Nat
  BY Fields DEF WriterStep, IInv
<1>2. Requests' = Requests /\ Answers' = Answers /\ Requests \in Nat
      /\ Requests <= NameCount
  BY <1>1, StreamAssumption DEF Requests, Answers
<1>3. \A k : Answer(k)' = Answer(k)
  BY <1>1 DEF Answer, Names
<1>4. CASE /\ more /\ ~net.broken /\ ~net.sent
           /\ net' = [net EXCEPT !.up = Append(@, Names[writer.count + 1])]
           /\ writer' = IF rpc = "async" THEN writer ELSE [writer EXCEPT !.count = @ + 1]
  <2> DEFINE n == writer.count + 1
             up == Append(net.up, Names[n])
  <2>1. n \in 1 .. NameCount /\ (rpc # "async" => writer.count < Requests)
    <3>1. CASE rpc = "async"
      BY <1>1, <3>1, StreamAssumption DEF IInv, AsyncKeepsNothing
    <3>2. CASE rpc # "async"
      BY <1>1, <1>2, <1>4, <3>2, StreamAssumption
    <3> QED
      BY <3>1, <3>2
  <2>2. n \in Nat /\ Names[n] = n
    BY <1>1, <2>1, NamesTyped
  <2>3. /\ up \in Seq(Nat) /\ Len(up) = Len(net.up) + 1
        /\ \A k \in 1 .. Len(net.up) : up[k] = net.up[k]
        /\ up[Len(net.up) + 1] = n
    BY <1>1, <2>2
  <2>4. net' = [net EXCEPT !.up = up]
    BY <1>1, <1>4 DEF Types
  <2> HIDE DEF up
  <2>5. /\ net'.up = up /\ net'.down = net.down /\ net'.sent = net.sent
        /\ net'.broken = net.broken /\ net'.halfClosed = net.halfClosed
        /\ net' \in [up : Seq(Nat), down : Messages, halfClosed : BOOLEAN,
                     sent : BOOLEAN, broken : BOOLEAN]
    BY <1>1, <2>3, <2>4 DEF Types
  <2>6. /\ writer' \in [pc : {"run", "write", "done"}, count : Nat]
        /\ rpc # "async" => writer'.count = writer.count + 1
        /\ rpc = "async" => writer' = writer
    <3>1. CASE rpc = "async"
      BY <1>1, <1>4, <3>1 DEF Types
    <3>2. CASE rpc # "async"
      BY <1>1, <1>4, <3>2 DEF Types
    <3> QED
      BY <3>1, <3>2
  <2>7. Types'
    BY <1>1, <2>5, <2>6 DEF Types
  <2>8. Pending' /\ OneReply' /\ AsyncKeepsNothing' /\ (rpc' \in FourCalls => StatusLast')
    BY <1>1, <2>5, <2>6 DEF IInv, Pending, OneReply, AsyncKeepsNothing, StatusLast
  <2>9. ASSUME Good' PROVE Upstream' /\ Downstream' /\ Handler'
    <3>1. Good /\ Upstream /\ Downstream /\ Handler /\ rpc # "async"
      BY <1>1, <2>5, <2>9 DEF Good, IInv, FourCalls
    <3>2. Taken \in Nat /\ Taken + Len(net.up) = writer.count
      BY <1>1, <3>1 DEF Upstream, Taken
    <3>3. Taken' = Taken
      <4>1. \A a, b \in Nat : b <= a => (a + 1) - (b + 1) = a - b
        OBVIOUS
      <4>2. Taken' = (writer.count + 1) - (Len(net.up) + 1)
        BY <2>3, <2>5, <2>6, <3>1 DEF Taken
      <4>3. Len(net.up) <= writer.count /\ Taken = writer.count - Len(net.up)
        BY <3>1 DEF Upstream, Taken
      <4> QED
        BY <1>1, <4>1, <4>2, <4>3
    <3>4. ASSUME NEW k \in 1 .. Len(up) PROVE up[k] = Taken + k
      <4>1. CASE k \in 1 .. Len(net.up)
        BY <2>3, <3>1, <4>1 DEF Upstream
      <4>2. CASE k = Len(net.up) + 1
        BY <1>1, <2>3, <3>2, <4>2
      <4> QED
        BY <1>1, <2>3, <4>1, <4>2
    <3>5. ~net.halfClosed
      BY <1>1, <1>2, <1>4, <2>1, <3>1 DEF Upstream
    <3>6. Upstream'
      <4>1. writer'.count <= Requests' /\ Len(net'.up) <= writer'.count
        BY <1>1, <1>2, <2>1, <2>3, <2>5, <2>6, <3>1 DEF Upstream
      <4> QED
        BY <2>5, <3>3, <3>4, <3>5, <4>1 DEF Upstream
    <3>7. Downstream'
      BY <1>1, <1>3, <2>5, <3>1 DEF Downstream
    <3>8. Made' = Made
      BY <1>1, <2>5 DEF Made
    <3>9. Handler'
      BY <1>1, <1>2, <3>1, <3>3, <3>8 DEF Handler
    <3> QED
      BY <3>6, <3>7, <3>9
  <2> QED
    BY <2>7, <2>8, <2>9 DEF IInv
<1>5. CASE /\ ~more \/ net.broken \/ net.sent
           /\ writer' = [writer EXCEPT !.pc = "done"]
           /\ net' = [net EXCEPT !.halfClosed = rpc # "async"]
  <2> DEFINE h == rpc # "async"
  <2>1. h \in BOOLEAN
    OBVIOUS
  <2>2. net' = [net EXCEPT !.halfClosed = h]
    BY <1>5
  <2> HIDE DEF h
  <2>3. /\ net'.up = net.up /\ net'.down = net.down /\ net'.sent = net.sent
        /\ net'.broken = net.broken
        /\ net' \in [up : Seq(Nat), down : Messages, halfClosed : BOOLEAN,
                     sent : BOOLEAN, broken : BOOLEAN]
    BY <1>1, <2>1, <2>2 DEF Types
  <2>4. writer'.count = writer.count
        /\ writer' \in [pc : {"run", "write", "done"}, count : Nat]
    BY <1>1, <1>5 DEF Types
  <2>5. Types'
    BY <1>1, <2>3, <2>4 DEF Types
  <2>6. Pending' /\ OneReply' /\ AsyncKeepsNothing' /\ (rpc' \in FourCalls => StatusLast')
    BY <1>1, <2>3, <2>4 DEF IInv, Pending, OneReply, AsyncKeepsNothing, StatusLast
  <2>7. ASSUME Good' PROVE Upstream' /\ Downstream' /\ Handler'
    <3>1. Good /\ Upstream /\ Downstream /\ Handler /\ rpc # "async"
      BY <1>1, <2>3, <2>7 DEF Good, IInv, FourCalls
    <3>2. Taken' = Taken /\ Made' = Made
      BY <1>1, <2>3, <2>4 DEF Taken, Made
    <3>3. ~net.sent => writer.count = Requests
      <4>1. ~net.sent => ~net.broken /\ ~more
        BY <1>5, <3>1 DEF Good
      <4> QED
        BY <1>1, <1>2, <3>1, <4>1 DEF Upstream
    <3>4. Upstream'
      BY <1>2, <2>3, <2>4, <3>1, <3>2, <3>3 DEF Upstream
    <3>5. Downstream'
      BY <1>1, <1>3, <2>3, <3>1 DEF Downstream
    <3>6. Handler'
      BY <1>1, <1>2, <3>1, <3>2 DEF Handler
    <3> QED
      BY <3>4, <3>5, <3>6
  <2> QED
    BY <2>5, <2>6, <2>7 DEF IInv
<1> QED
  BY <1>4, <1>5 DEF WriterStep

\* The client's reader: the next response, the status behind the last one, or
\* the end of a broken call.
LEMMA ReaderIInv ==
  ASSUME IInv, ReaderStep
  PROVE  IInv'
<1>1. UNCHANGED <<rpc, server, writer>> /\ Types
  BY DEF ReaderStep, IInv
<1>2. Requests' = Requests /\ Answers' = Answers
  BY <1>1 DEF Requests, Answers
<1>3. \A k : Answer(k)' = Answer(k)
  BY <1>1 DEF Answer, Names
<1>4. CASE /\ net.down # <<>>
           /\ net' = [net EXCEPT !.down = Tail(@)]
           /\ reader' = IF rpc = "async" THEN reader
                        ELSE [reader EXCEPT !.got = Append(@, Head(net.down))]
  <2> DEFINE got == Append(reader.got, Head(net.down))
             down == Tail(net.down)
  <2>1. net.down \in Messages /\ reader.got \in Messages
    BY <1>1, Fields
  <2>2. Head(net.down) \in Seq(Nat) /\ down \in Messages
    BY <1>4, <2>1, SplitMessages
  <2>3. got \in Messages
    BY <2>1, <2>2, AddMessage
  <2>4. net' = [net EXCEPT !.down = down]
        /\ reader' = IF rpc = "async" THEN reader ELSE [reader EXCEPT !.got = got]
    BY <1>1, <1>4 DEF Types
  <2> HIDE DEF got, down
  <2>5. /\ net'.up = net.up /\ net'.down = down /\ net'.sent = net.sent
        /\ net'.broken = net.broken /\ net'.halfClosed = net.halfClosed
        /\ net' \in [up : Seq(Nat), down : Messages, halfClosed : BOOLEAN,
                     sent : BOOLEAN, broken : BOOLEAN]
    BY <1>1, <2>2, <2>4 DEF Types
  <2>6. /\ reader' \in [pc : {"run", "read", "done"}, got : Messages,
                        status : {"none", "OK", "failed"}]
        /\ reader'.status = reader.status
        /\ rpc # "async" => reader'.got = got
        /\ rpc = "async" => reader' = reader
    <3>1. CASE rpc = "async"
      BY <1>1, <2>4, <3>1 DEF Types
    <3>2. CASE rpc # "async"
      BY <1>1, <2>3, <2>4, <3>2 DEF Types
    <3> QED
      BY <3>1, <3>2
  <2>7. Types'
    BY <1>1, <2>5, <2>6 DEF Types
  <2>8. Pending' /\ OneReply' /\ AsyncKeepsNothing'
    BY <1>1, <2>6 DEF IInv, Pending, OneReply, AsyncKeepsNothing
  <2>9. rpc' \in FourCalls => StatusLast'
    BY <1>1, <1>4, <2>5, <2>6 DEF IInv, StatusLast
  <2>10. ASSUME Good' PROVE Upstream' /\ Downstream' /\ Handler'
    <3>1. Good /\ Upstream /\ Downstream /\ Handler /\ rpc # "async"
      BY <1>1, <2>5, <2>10 DEF Good, IInv, FourCalls
    <3>2. Taken' = Taken
      BY <1>1, <2>5 DEF Taken
    <3>3. Upstream'
      BY <1>1, <1>2, <2>5, <3>1, <3>2 DEF Upstream
    <3>4. /\ \A k \in 1 .. Len(got) : got[k] = Answer(k)
          /\ \A k \in 1 .. Len(down) : down[k] = Answer(Len(got) + k)
          /\ Len(got) + Len(down) = Len(reader.got) + Len(net.down)
      <4>1. Len(reader.got) \in Nat /\ Len(net.down) \in Nat
            /\ Len(got) \in Nat /\ Len(down) \in Nat
        BY <2>1, <2>2, <2>3 DEF Messages
      <4>2. \A k \in 1 .. Len(reader.got) : reader.got[k] = Answer(0 + k)
        <5>1. \A k \in 1 .. Len(reader.got) : 0 + k = k
          OBVIOUS
        <5> QED
          BY <3>1, <5>1 DEF Downstream
      <4>3. \A k \in 1 .. Len(net.down) : net.down[k] = Answer(0 + Len(reader.got) + k)
        <5>1. 0 + Len(reader.got) = Len(reader.got)
          BY <4>1
        <5> QED
          BY <3>1, <5>1 DEF Downstream
      <4>4. /\ \A k \in 1 .. Len(got) : got[k] = Answer(0 + k)
            /\ \A k \in 1 .. Len(down) : down[k] = Answer(0 + Len(got) + k)
            /\ Len(got) + Len(down) = Len(reader.got) + Len(net.down)
        <5>1. 0 \in Nat
          OBVIOUS
        <5> QED
          BY <1>4, <2>1, <4>2, <4>3, <5>1, MoveMessage, Zenon DEF got, down
      <4>5. 0 + Len(got) = Len(got) /\ \A k \in 1 .. Len(got) : 0 + k = k
        BY <4>1
      <4> QED
        BY <4>4, <4>5
    <3>5. /\ Len(reader.got) \in Nat /\ Len(net.down) \in Nat /\ Len(server.out) \in Nat
          /\ Len(got) \in Nat /\ Len(down) \in Nat
      BY <1>1, <2>2, <2>3, Fields DEF Messages
    <3>6. Downstream'
      <4>1. \A k \in 1 .. Len(server.out) :
              server.out[k] = Answer(Len(got) + Len(down) + k)
        BY <3>1, <3>4, Zenon DEF Downstream
      <4>2. reader'.got = got /\ net'.down = down /\ server' = server
        BY <1>1, <2>5, <2>6, <3>1
      <4> QED
        BY <1>3, <3>4, <4>1, <4>2 DEF Downstream
    <3>7. Made' = Made
      <4>1. Made' = Len(got) + Len(down) + Len(server.out)
        BY <1>1, <2>5, <2>6, <3>1, Zenon DEF Made
      <4>2. Made = Len(reader.got) + Len(net.down) + Len(server.out)
        BY DEF Made
      <4> QED
        BY <3>4, <4>1, <4>2, Zenon
    <3>8. Handler'
      BY <1>1, <1>2, <3>1, <3>2, <3>7 DEF Handler
    <3> QED
      BY <3>3, <3>6, <3>8
  <2> QED
    BY <2>7, <2>8, <2>9, <2>10 DEF IInv
<1>5. CASE /\ UNCHANGED net
           /\ \/ /\ net.sent /\ net.down = <<>>
                 /\ reader' = [reader EXCEPT !.pc = "done", !.status = "OK"]
              \/ /\ net.broken
                 /\ reader' = [reader EXCEPT !.pc = "done", !.status = "failed"]
  <2>1. Types'
    BY <1>1, <1>5 DEF Types
  <2>2. reader'.got = reader.got
        /\ (reader'.status = "OK" => net.sent /\ net.down = <<>>)
    BY <1>1, <1>5 DEF Types
  <2>3. Pending' /\ OneReply' /\ AsyncKeepsNothing'
    BY <1>1, <2>2 DEF IInv, Pending, OneReply, AsyncKeepsNothing
  <2>4. rpc' \in FourCalls => StatusLast'
    BY <1>1, <1>5, <2>2 DEF IInv, StatusLast
  <2>5. Good' => Upstream' /\ Downstream' /\ Handler'
    <3>1. Good' => Good /\ Upstream /\ Downstream /\ Handler
      BY <1>1, <1>5 DEF Good, IInv
    <3>2. Taken' = Taken /\ Made' = Made
      BY <1>1, <1>5, <2>2 DEF Taken, Made
    <3>3. Upstream => Upstream'
      BY <1>1, <1>2, <1>5, <3>2 DEF Upstream
    <3>4. Downstream => Downstream'
      BY <1>1, <1>3, <1>5, <2>2 DEF Downstream
    <3>5. Handler => Handler'
      BY <1>1, <1>2, <3>2 DEF Handler
    <3> QED
      BY <3>1, <3>3, <3>4, <3>5
  <2> QED
    BY <2>1, <2>3, <2>4, <2>5 DEF IInv
<1> QED
  BY <1>4, <1>5 DEF ReaderStep

-----------------------------------------------------------------------------
\* The flag of TryCancel, whose value a new call starts with.
CancelFlag == cancelled \in BOOLEAN

LEMMA NextIInv == CancelFlag /\ IInv /\ [Next]_vars => IInv'
<1> SUFFICES ASSUME CancelFlag, IInv, [Next]_vars PROVE IInv'
  OBVIOUS
<1>1. CASE NextCall
  <2>1. CASE rpc = "SayHello3" /\ rpc' = "end" /\ UNCHANGED <<net, server, writer, reader>>
    BY <2>1, SameCall
  <2>2. ASSUME NEW k \in 1 .. 3, NEW broken \in BOOLEAN, Begin(Calls[k + 1], broken)
        PROVE  IInv'
    <3>1. Calls[k + 1] \in FourCalls
      BY DEF Calls, FourCalls
    <3> QED
      BY <2>2, <3>1, BeginIInv
  <2> QED
    BY <1>1, <2>1, <2>2 DEF NextCall
<1>2. CASE StartStream
  <2>1. PICK broken \in {cancelled, TRUE} : Begin("async", broken)
    BY <1>2 DEF StartStream
  <2>2. broken \in BOOLEAN
    BY Zenon DEF CancelFlag
  <2> QED
    BY <2>1, <2>2, BeginIInv
<1>3. CASE SetRunning \/ Joined \/ UNCHANGED vars
  <2>1. UNCHANGED <<net, server, writer, reader>> /\ (rpc' = rpc \/ rpc' = "end")
    BY <1>3 DEF SetRunning, Joined, vars
  <2> QED
    BY <2>1, SameCall
<1>4. CASE stop \/ Break
  BY <1>4, BreakIInv DEF stop, Break
<1> QED
  BY <1>1, <1>2, <1>3, <1>4, ServerReadIInv, ServerWriteIInv, ServerReturnIInv,
     WriterIInv, ReaderIInv DEF Next, Server, Client

LEMMA InductiveInvariant == Spec => [](CancelFlag /\ IInv)
<1>1. Init => CancelFlag
  BY DEF Init, CancelFlag
<1>2. CancelFlag /\ [Next]_vars => CancelFlag'
  <2> SUFFICES ASSUME CancelFlag, [Next]_vars PROVE CancelFlag'
    OBVIOUS
  <2>1. cancelled' = cancelled \/ cancelled' = TRUE
    BY DEF Next, Server, ServerRead, ServerWrite, ServerReturn, Client, WriterStep,
           ReaderStep, NextCall, SetRunning, StartStream, Joined, stop, Break, vars
  <2> QED
    BY <2>1, Zenon DEF CancelFlag
<1> QED
  BY <1>1, <1>2, InitIInv, NextIInv, PTL DEF Spec

\* With status OK every response of the call has been read, in order.
LEMMA CompleteCall ==
  ASSUME IInv, reader.status = "OK", rpc \in FourCalls
  PROVE  /\ reader.got \in Messages /\ Len(reader.got) = Answers
         /\ \A k \in 1 .. Len(reader.got) : reader.got[k] = Answer(k)
<1>1. net.sent /\ net.down = <<>> /\ server.pc = "done"
  BY DEF IInv, StatusLast
<1>2. Good /\ Downstream /\ Handler /\ Types
  BY <1>1 DEF Good, IInv
<1>3. server.out = <<>>
  BY <1>1 DEF IInv, Pending
<1>4. Made = Answers
  BY <1>1, <1>2 DEF Handler
<1>5. Len(net.down) = 0 /\ Len(server.out) = 0 /\ reader.got \in Messages
      /\ Len(reader.got) \in Nat
  BY <1>1, <1>2, <1>3, EmptyTyped, Fields
<1>6. Len(reader.got) = Made
  BY <1>5 DEF Made
<1> QED
  BY <1>2, <1>4, <1>5, <1>6 DEF Downstream

\* A call of either client that ends with status OK has all its responses, in
\* order, each about its request: for any number of names, any window, and
\* whenever the connection breaks or the call is cancelled.
THEOREM CallsComplete == Spec => []CompleteWhenOK
<1>1. IInv => CompleteWhenOK
  <2> SUFFICES ASSUME IInv, rpc # "end", reader.status = "OK"
               PROVE  reader.got = CASE rpc = "SayHello" -> <<<<Names[1]>>>>
                                     [] rpc = "SayHello1" -> <<Names>>
                                     [] rpc = "SayHello2" -> [i \in 1 .. 3 |-> <<Names[1]>>]
                                     [] rpc = "SayHello3" -> Each(Names)
                                     [] rpc = "async" -> <<>>
    BY DEF CompleteWhenOK
  <2>1. rpc \in FourCalls \/ rpc = "async"
    BY DEF IInv, Types
  <2>2. Names[1] = 1
    BY NamesTyped
  <2>3. CASE rpc = "async"
    BY <2>3 DEF IInv, AsyncKeepsNothing
  <2>4. ASSUME rpc \in FourCalls
        PROVE  reader.got \in Messages /\ Len(reader.got) = Answers
               /\ \A k \in 1 .. Answers : reader.got[k] = Answer(k)
    BY <2>4, CompleteCall
  <2>5. CASE rpc = "SayHello"
    <3>1. reader.got \in Messages /\ Len(reader.got) = 1 /\ reader.got[1] = <<1>>
      BY <2>4, <2>5 DEF Answers, Answer, FourCalls
    <3>2. reader.got = <<<<1>>>>
      BY <3>1 DEF Messages
    <3> QED
      BY <2>2, <2>5, <3>2
  <2>6. CASE rpc = "SayHello1"
    <3>1. reader.got \in Messages /\ Len(reader.got) = 1 /\ reader.got[1] = Names
      BY <2>4, <2>6 DEF Answers, Answer, FourCalls
    <3>2. reader.got = <<Names>>
      BY <3>1 DEF Messages
    <3> QED
      BY <2>6, <3>2
  <2>7. CASE rpc = "SayHello2"
    <3>1. reader.got \in Messages /\ Len(reader.got) = 3
          /\ \A k \in 1 .. 3 : reader.got[k] = <<1>>
      BY <2>4, <2>7 DEF Answers, Answer, FourCalls
    <3>2. reader.got = [i \in 1 .. 3 |-> <<1>>]
      <4> DEFINE three == [i \in 1 .. 3 |-> <<1>>]
      <4>1. three \in Messages /\ Len(three) = 3 /\ \A k \in 1 .. 3 : three[k] = <<1>>
        BY DEF Messages
      <4> HIDE DEF three
      <4>2. reader.got = three
        BY <3>1, <4>1, SeqEqual DEF Messages
      <4> QED
        BY <4>2 DEF three
    <3> QED
      BY <2>2, <2>7, <3>2
  <2>8. CASE rpc = "SayHello3"
    <3>1. reader.got \in Messages /\ Len(reader.got) = NameCount
          /\ \A k \in 1 .. NameCount : reader.got[k] = <<k>>
      BY <2>4, <2>8 DEF Answers, Answer, FourCalls
    <3>2. Each(Names) = [k \in 1 .. NameCount |-> <<k>>]
      BY DEF Each, Names
    <3>3. reader.got = [k \in 1 .. NameCount |-> <<k>>]
      <4> DEFINE all == [k \in 1 .. NameCount |-> <<k>>]
      <4>1. all \in Messages /\ Len(all) = NameCount
            /\ \A k \in 1 .. NameCount : all[k] = <<k>>
        BY StreamAssumption DEF Messages
      <4> HIDE DEF all
      <4>2. reader.got = all
        BY <3>1, <4>1, SeqEqual DEF Messages
      <4> QED
        BY <4>2 DEF all
    <3> QED
      BY <2>8, <3>2, <3>3
  <2> QED
    BY <2>1, <2>3, <2>5, <2>6, <2>7, <2>8 DEF FourCalls
<1> QED
  BY <1>1, InductiveInvariant, PTL
================================================================================

--------------------------- MODULE HttpsClientProofs ---------------------------
(***************************************************************************)
(* Proofs about HttpsClient for any number of connections and requests:    *)
(* the SSL never outlives its socket, a connection never resumes a session *)
(* with false start enabled, a response belongs to the request it is read  *)
(* for, and a session is kept when its handshake is over.                  *)
(***************************************************************************)
EXTENDS HttpsClient, SequenceTheorems, TLAPS

Types ==
  /\ i \in Nat
  /\ level \in Nat
  /\ early \in BOOLEAN
  /\ ssl \in [on : BOOLEAN, resuming : BOOLEAN, early : BOOLEAN, finished : BOOLEAN]
  /\ session \in [of : Nat, finished : BOOLEAN]

\* Where main is says what the two owners hold.
Owners ==
  /\ pc \in {"connect", "exit"} => tcp = "none" /\ ~ssl.on
  /\ pc \in {"handshake", "close"} => ~ssl.on
  /\ pc \in {"handshake", "write", "read", "keep", "shutdown", "goodbye"} =>
       tcp = "open"
  /\ ssl.on => tcp = "open"

\* False start is enabled only while no session is kept.
EarlyWithoutSession ==
  early => level >= 2 /\ program = "falseStart" /\ session.of = 0

IInv == Types /\ Owners /\ EarlyWithoutSession /\ NeverResumesEarly

LEMMA InitIInv == Init => IInv
<1> SUFFICES ASSUME Init PROVE IInv
  OBVIOUS
<1>1. level \in Nat /\ (level >= 2 => program = "falseStart")
  <2>1. CASE program = "falseStart"
    BY <2>1 DEF Init
  <2>2. CASE program # "falseStart"
    BY <2>2 DEF Init
  <2> QED
    BY <2>1, <2>2
<1>2. early \in BOOLEAN /\ (early => level >= 2)
  <2>1. CASE level >= 2
    <3>1. early = TRUE
      BY <2>1, Zenon DEF Init
    <3> QED
      BY <2>1, <3>1
  <2>2. CASE ~(level >= 2)
    <3>1. early = (level >= 2)
      BY DEF Init
    <3>2. (level >= 2) = FALSE
      BY <2>2
    <3>3. early = FALSE
      BY <3>1, <3>2, Zenon
    <3> QED
      BY <3>3
  <2> QED
    BY <2>1, <2>2
<1>3. ssl = NoSsl /\ session = [of |-> 0, finished |-> FALSE]
  BY DEF Init
<1>4. Types
  BY <1>1, <1>2, <1>3 DEF Init, NoSsl, Types
<1> QED
  BY <1>1, <1>2, <1>3, <1>4
  DEF Init, NoSsl, IInv, Owners, EarlyWithoutSession, NeverResumesEarly

\* A handshake resumes only with a session kept before it, when false start is
\* already off.
LEMMA HandshakeIInv ==
  ASSUME IInv, create_ssl_conn \/ create_ssl_conn_early
  PROVE  IInv'
<1> USE DEF create_ssl_conn, create_ssl_conn_early, Connected, Refused, Keep, IInv
<1>1. Types'
  <2>1. UNCHANGED <<i, level, early>>
    OBVIOUS
  <2>2. ssl' \in [on : BOOLEAN, resuming : BOOLEAN, early : BOOLEAN, finished : BOOLEAN]
    <3>1. ASSUME NEW resuming \in BOOLEAN, Connected(resuming)
          PROVE  ssl' \in [on : BOOLEAN, resuming : BOOLEAN, early : BOOLEAN,
                           finished : BOOLEAN]
      <4>1. PICK started \in {FALSE, early} :
              ssl' = [on |-> TRUE, resuming |-> resuming, early |-> early,
                      finished |-> ~started]
        BY <3>1, Zenon
      <4>2. (~started) \in BOOLEAN
        BY Zenon DEF Types
      <4> QED
        BY <4>1, <4>2 DEF Types
    <3>2. (session.of > 0) \in BOOLEAN /\ (level >= 1 /\ session.of > 0) \in BOOLEAN
      OBVIOUS
    <3> QED
      BY <3>1, <3>2 DEF Types
  <2>3. session' \in [of : Nat, finished : BOOLEAN]
    <3>1. CASE Keep
      BY <2>2, <3>1 DEF Types
    <3>2. CASE UNCHANGED session
      BY <3>2 DEF Types
    <3> QED
      BY <3>1, <3>2
  <2> QED
    BY <2>1, <2>2, <2>3 DEF Types
<1>2. Owners'
  BY DEF Types, Owners
<1>3. EarlyWithoutSession'
  BY DEF Types, EarlyWithoutSession
<1>4. NeverResumesEarly'
  BY DEF Types, EarlyWithoutSession, NeverResumesEarly
<1> QED
  BY <1>1, <1>2, <1>3, <1>4

\* Keeping a session switches false start off.
LEMMA KeepSessionIInv ==
  ASSUME IInv, KeepSession
  PROVE  IInv'
<1> USE DEF KeepSession, IInv
<1>1. UNCHANGED <<program, level, i, ssl, tcp>>
  OBVIOUS
<1>2. CASE /\ session' = [of |-> i + 1, finished |-> ssl.finished]
           /\ early' = (early /\ level < 2)
  <2>1. early' = FALSE
    <3>1. early /\ level < 2 <=> FALSE
      BY DEF Types, EarlyWithoutSession
    <3> QED
      BY <1>2, <3>1, Zenon
  <2>2. Types'
    BY <1>1, <1>2, <2>1 DEF Types
  <2> QED
    BY <1>1, <2>1, <2>2 DEF Owners, EarlyWithoutSession, NeverResumesEarly
<1>3. CASE UNCHANGED <<session, early>>
  BY <1>1, <1>3 DEF Types, Owners, EarlyWithoutSession, NeverResumesEarly
<1> QED
  BY <1>2, <1>3

\* An exchange leaves the socket, the session and the context alone.
LEMMA ExchangeIInv ==
  ASSUME IInv, Write \/ Read \/ ReadEnds
  PROVE  IInv'
<1>1. /\ pc \in {"write", "read"}
      /\ pc' \in {"write", "read", "keep", "shutdown", "killed"}
      /\ UNCHANGED <<program, level, i, tcp, session, early>>
  BY DEF Write, Read, ReadEnds, Return
<1>2. \E finished \in {ssl.finished, ssl.on} : ssl' = [ssl EXCEPT !.finished = finished]
  <2>1. CASE Write
    <3>1. ssl = [ssl EXCEPT !.finished = ssl.finished] /\ ssl' = ssl
      BY <2>1 DEF Write, IInv, Types
    <3> QED
      BY <3>1
  <2> QED
    BY <2>1 DEF Read, ReadEnds
<1> QED
  BY <1>1, <1>2
  DEF IInv, Types, Owners, EarlyWithoutSession, NeverResumesEarly

\* The SSL is destroyed before the socket is closed.
LEMMA ScopeIInv ==
  ASSUME IInv, create_tcp_conn \/ Shutdown \/ Goodbye \/ Close
  PROVE  IInv'
<1>1. Types'
  <2>1. UNCHANGED <<level, session, early>> /\ i' \in Nat
    BY DEF IInv, Types, create_tcp_conn, Shutdown, Goodbye, Close
  <2>2. ssl' = ssl \/ ssl' = NoSsl
    BY DEF create_tcp_conn, Shutdown, Goodbye, Close
  <2>3. NoSsl \in [on : BOOLEAN, resuming : BOOLEAN, early : BOOLEAN, finished : BOOLEAN]
    BY DEF NoSsl
  <2> QED
    BY <2>1, <2>2, <2>3 DEF IInv, Types
<1>2. Owners'
  BY DEF IInv, Types, Owners, create_tcp_conn, Shutdown, Goodbye, Close, NoSsl
<1>3. EarlyWithoutSession' /\ NeverResumesEarly'
  BY DEF IInv, EarlyWithoutSession, NeverResumesEarly, create_tcp_conn,
         Shutdown, Goodbye, Close, NoSsl
<1> QED
  BY <1>1, <1>2, <1>3 DEF IInv

LEMMA NextIInv == IInv /\ [Next]_vars => IInv'
<1> SUFFICES ASSUME IInv, [Next]_vars PROVE IInv'
  OBVIOUS
<1>1. CASE Greet \/ Respond \/ Hangup \/ UNCHANGED vars
  <2>1. UNCHANGED <<program, level, pc, i, tcp, ssl, session, early>>
    BY <1>1 DEF Greet, Respond, Hangup, vars
  <2> QED
    BY <2>1 DEF IInv, Types, Owners, EarlyWithoutSession, NeverResumesEarly
<1> QED
  BY <1>1, HandshakeIInv, KeepSessionIInv, ExchangeIInv, ScopeIInv
  DEF Next, Client

\* In all three programs an SSL has its socket as long as it lives and no socket
\* is left over, however many connections and requests there are.
THEOREM SocketsOwned == Spec => []SocketOutlivesSsl
<1>1. IInv => SocketOutlivesSsl
  BY DEF IInv, Owners, SocketOutlivesSsl
<1> QED
  BY InitIInv, NextIInv, <1>1, PTL DEF Spec

\* tls_false_start.cpp never offers a session with false start enabled.
THEOREM ResumptionExcludesFalseStart == Spec => []NeverResumesEarly
<1>1. IInv => NeverResumesEarly
  BY DEF IInv
<1> QED
  BY InitIInv, NextIInv, <1>1, PTL DEF Spec

-----------------------------------------------------------------------------
\* What the exchanges of one connection do: the types of their state.
Pieces == [of : Nat, first : BOOLEAN, last : BOOLEAN, ok : BOOLEAN]

Peers ==
  [open : BOOLEAN, greeted : BOOLEAN, owes : Seq(Nat), begun : BOOLEAN,
   wire : Seq(Pieces), faulty : BOOLEAN]

ExchangeTypes ==
  /\ j \in Nat
  /\ answers \in Seq(Nat)
  /\ peer \in Peers

\* Until its first request a connection has no exchange behind it, and a parser
\* lives no longer than its exchange.
Fresh ==
  /\ pc \in {"connect", "handshake"} => j = 0
  /\ j = 0 /\ pc \in {"connect", "handshake", "write", "read"} => answers = <<>>
  /\ j = 0 /\ pc \in {"handshake", "write"} => peer.owes = <<>> /\ peer.wire = <<>>
  /\ pc = "keep" => j # 0 /\ program = "falseStart"
  /\ pc # "read" => parsed = 0

\* A server without fault keeps the connection open, and between exchanges
\* nothing is owed and nothing under way.
Quiet == peer.owes = <<>> /\ peer.wire = <<>> /\ ~peer.begun

\* The pieces of the response to request n: the only one, or one of two.
Whole(n) == [of |-> n, first |-> TRUE, last |-> TRUE, ok |-> TRUE]
First(n) == [of |-> n, first |-> TRUE, last |-> FALSE, ok |-> TRUE]
Second(n) == [of |-> n, first |-> FALSE, last |-> TRUE, ok |-> TRUE]

\* An exchange under way: what the parser has, what the server still owes, and
\* the pieces between them make up the response to request n.
Exchanging(n) ==
  \/ parsed = 0 /\ peer.owes = <<n>> /\ ~peer.begun /\ peer.wire = <<>>
  \/ parsed = 0 /\ peer.owes = <<n>> /\ peer.begun /\ peer.wire = <<First(n)>>
  \/ parsed = 0 /\ peer.owes = <<>> /\ ~peer.begun /\ peer.wire = <<Whole(n)>>
  \/ parsed = 0 /\ peer.owes = <<>> /\ ~peer.begun /\ peer.wire = <<First(n), Second(n)>>
  \/ parsed = 1 /\ peer.owes = <<n>> /\ peer.begun /\ peer.wire = <<>>
  \/ parsed = 1 /\ peer.owes = <<>> /\ ~peer.begun /\ peer.wire = <<Second(n)>>

InStep ==
  ~peer.faulty =>
    /\ peer.open
    /\ pc \in {"handshake", "write", "read", "keep", "shutdown"} =>
         answers = [k \in 1 .. j |-> k]
    /\ pc \in {"handshake", "write", "keep", "shutdown"} => Quiet
    /\ pc = "read" => Exchanging(j + 1)

\* No response to the first request was taken, nor will one be.
NoFirst ==
  /\ \A k \in DOMAIN answers : answers[k] # 1
  /\ \A k \in DOMAIN peer.wire : peer.wire[k].of # 1
  /\ peer.open => \A k \in DOMAIN peer.owes : peer.owes[k] # 1

\* tls_false_start.cpp keeps the session of this connection once, after the first
\* exchange: with the handshake over, unless nothing was read in that exchange.
\* tls_session_ticket.cpp keeps it when it connects.
Kept ==
  /\ session.of <= i + 1
  /\ pc \in {"connect", "handshake"} => session.of <= i
  /\ program # "falseStart" /\ session.of = i + 1 => session.finished
  /\ program = "falseStart" =>
       /\ j = 0 \/ pc = "keep" => session.of <= i
       /\ pc \in {"write", "read", "keep"} => ssl.on
       /\ pc = "keep" => ssl.finished \/ NoFirst
       /\ session.of = i + 1 => session.finished \/ NoFirst

ExchangeInv == ExchangeTypes /\ Fresh /\ InStep /\ Kept

USE DEF Peers

\* One more answer in order.
LEMMA AppendInOrder ==
  ASSUME NEW n \in Nat
  PROVE  Append([k \in 1 .. n |-> k], n + 1) = [k \in 1 .. n + 1 |-> k]
OBVIOUS

\* Short sequences of pieces and requests.
LEMMA ShortSequences ==
  ASSUME NEW a, NEW b
  PROVE  /\ Head(<<a>>) = a /\ Tail(<<a>>) = <<>> /\ Append(<<>>, a) = <<a>>
         /\ Head(<<a, b>>) = a /\ Tail(<<a, b>>) = <<b>> /\ Append(<<a>>, b) = <<a, b>>
<1> DEFINE s == Append(<<a>>, b)
           t == <<a, b>>
<1>1. s \in Seq({a, b}) /\ Len(s) = 2 /\ s[1] = a /\ s[2] = b
  OBVIOUS
<1>2. t \in Seq({a, b}) /\ Len(t) = 2 /\ t[1] = a /\ t[2] = b
  OBVIOUS
<1> HIDE DEF s, t
<1>3. \A k \in 1 .. Len(s) : s[k] = t[k]
  BY <1>1, <1>2
<1>4. s = t
  BY <1>1, <1>2, <1>3, SeqEqual
<1>5. Append(<<a>>, b) = <<a, b>>
  BY <1>4 DEF s, t
<1>6. Head(<<a>>) = a /\ Tail(<<a>>) = <<>> /\ Append(<<>>, a) = <<a>>
  OBVIOUS
<1>7. Head(<<a, b>>) = a /\ Tail(<<a, b>>) = <<b>>
  OBVIOUS
<1> QED
  BY <1>5, <1>6, <1>7

\* No answer is in order.
LEMMA NoneInOrder == [k \in 1 .. 0 |-> k] = <<>>
OBVIOUS

\* The end of an exchange, well or not.
LEMMA ReturnFacts ==
  ASSUME Return, j \in Nat
  PROVE  /\ pc' \in {"keep", "write", "shutdown"}
         /\ pc' = "keep" => program = "falseStart" /\ j = 0
         /\ program = "falseStart" /\ j = 0 => pc' = "keep"
         /\ j' = j + 1 /\ parsed' = 0 /\ j' \in Nat /\ j' # 0
<1>1. j' = j + 1 /\ parsed' = 0 /\ j' \in Nat /\ j' # 0
  BY DEF Return
<1>2. CASE program = "falseStart" /\ j = 0
  <2>1. pc' = "keep"
    BY <1>2 DEF Return
  <2> QED
    BY <1>1, <1>2, <2>1
<1>3. CASE ~(program = "falseStart" /\ j = 0)
  <2>1. pc' \in {"write", "shutdown"}
    BY <1>3 DEF Return
  <2> QED
    BY <1>1, <1>3, <2>1
<1> QED
  BY <1>2, <1>3

\* The initial state.
LEMMA InitExchange == Init => ExchangeInv
<1> SUFFICES ASSUME Init PROVE ExchangeInv
  OBVIOUS
<1>1. ExchangeTypes
  BY DEF Init, ExchangeTypes, NewPeer
<1>2. Fresh /\ InStep
  BY DEF Init, Fresh, InStep, NewPeer
<1>3. Kept
  BY DEF Init, Kept
<1> QED
  BY <1>1, <1>2, <1>3 DEF ExchangeInv

\* A new connection has a new peer.
LEMMA TcpExchange ==
  ASSUME IInv, ExchangeInv, create_tcp_conn
  PROVE  ExchangeInv'
<1>1. /\ UNCHANGED <<program, i, j, ssl, session, parsed, answers>>
      /\ pc = "connect" /\ j = 0 /\ j \in Nat /\ answers = <<>> /\ parsed = 0
  BY DEF create_tcp_conn, ExchangeInv, Fresh, ExchangeTypes
<1>2. CASE pc' = "abort" /\ peer' = peer
  <2>1. ExchangeTypes' /\ Fresh'
    BY <1>1, <1>2 DEF ExchangeInv, ExchangeTypes, Fresh
  <2>2. InStep'
    BY <1>1, <1>2 DEF ExchangeInv, InStep
  <2>3. Kept'
    BY <1>1, <1>2 DEF ExchangeInv, Kept, IInv, Types
  <2> QED
    BY <2>1, <2>2, <2>3 DEF ExchangeInv
<1>3. CASE pc' \in {"write", "handshake"} /\ peer' = NewPeer
           /\ (pc' = "write" => program = "reuse")
  <2>1. ExchangeTypes' /\ Fresh'
    BY <1>1, <1>3 DEF ExchangeTypes, Fresh, NewPeer
  <2>2. InStep'
    BY <1>1, <1>3, NoneInOrder DEF InStep, NewPeer, Quiet
  <2>3. Kept'
    BY <1>1, <1>3 DEF ExchangeInv, Kept, IInv, Types
  <2> QED
    BY <2>1, <2>2, <2>3 DEF ExchangeInv
<1> QED
  BY <1>2, <1>3 DEF create_tcp_conn

\* The handshake touches neither the exchanges nor, in tls_false_start.cpp, the
\* session.
LEMMA HandshakeExchange ==
  ASSUME IInv, ExchangeInv, create_ssl_conn \/ create_ssl_conn_early
  PROVE  ExchangeInv'
<1>1. /\ UNCHANGED <<program, i, j, parsed, answers, peer>>
      /\ pc = "handshake" /\ pc' \in {"write", "abort", "killed"}
      /\ program = "falseStart" => session' = session
      /\ program = "falseStart" /\ pc' = "write" => ssl'.on
  BY DEF create_ssl_conn, create_ssl_conn_early, Connected, Refused
<1>2. ExchangeTypes' /\ Fresh'
  BY <1>1 DEF ExchangeInv, ExchangeTypes, Fresh
<1>3. InStep'
  BY <1>1 DEF ExchangeInv, InStep, Quiet
<1>4. CASE UNCHANGED session
  <2>1. Kept'
    BY <1>1, <1>4 DEF ExchangeInv, Kept, Fresh, IInv, Types
  <2> QED
    BY <1>2, <1>3, <2>1 DEF ExchangeInv
<1>5. CASE program = "ticket" /\ Connected(session.of > 0) /\ Keep
  <2>1. ssl'.finished = TRUE
    <3>1. early = FALSE
      BY <1>5 DEF IInv, Types, EarlyWithoutSession
    <3>2. PICK started \in {FALSE, early} :
            ssl' = [on |-> TRUE, resuming |-> session.of > 0, early |-> early,
                    finished |-> ~started]
      BY <1>5, Zenon DEF Connected
    <3>3. (~started) = TRUE
      BY <3>1, Zenon
    <3>4. ssl'.finished = (~started)
      BY <3>2, Zenon
    <3> QED
      BY <3>3, <3>4
  <2>2. session'.of = i + 1 /\ session'.finished = TRUE
    BY <1>5, <2>1 DEF Keep
  <2>3. pc' = "write"
    BY <1>5 DEF Connected
  <2>4. Kept'
    BY <1>1, <1>5, <2>2, <2>3 DEF Kept, IInv, Types
  <2> QED
    BY <1>2, <1>3, <2>4 DEF ExchangeInv
<1> QED
  BY <1>4, <1>5 DEF create_ssl_conn, create_ssl_conn_early

\* The first exchange is over: the session is kept with what the SSL knows.
LEMMA KeepExchange ==
  ASSUME IInv, ExchangeInv, KeepSession
  PROVE  ExchangeInv'
<1>1. /\ UNCHANGED <<program, i, j, ssl, parsed, answers, peer>>
      /\ pc = "keep" /\ pc' \in {"write", "shutdown"}
      /\ session' = session \/ session' = [of |-> i + 1, finished |-> ssl.finished]
  BY DEF KeepSession
<1>2. ExchangeTypes'
  BY <1>1 DEF ExchangeInv, ExchangeTypes
<1>3. InStep'
  BY <1>1 DEF ExchangeInv, InStep, Quiet
<1>4. j # 0 /\ Fresh'
  BY <1>1 DEF ExchangeInv, Fresh
<1>5. NoFirst => NoFirst'
  BY <1>1 DEF NoFirst
<1>6. CASE session' = session
  BY <1>1, <1>2, <1>3, <1>4, <1>5, <1>6 DEF ExchangeInv, Kept, IInv, Types
<1>7. CASE session' = [of |-> i + 1, finished |-> ssl.finished]
  <2>1. session'.of = i + 1 /\ session'.finished = ssl.finished
    BY <1>7
  <2>2. program = "falseStart" /\ program' = program
    BY <1>1 DEF ExchangeInv, Fresh
  <2>3. Kept'
    BY <1>1, <1>4, <1>5, <2>1, <2>2 DEF ExchangeInv, Kept, IInv, Types
  <2> QED
    BY <1>2, <1>3, <1>4, <2>3 DEF ExchangeInv
<1> QED
  BY <1>1, <1>6, <1>7

\* The end of the loop body.
LEMMA ScopeExchange ==
  ASSUME IInv, ExchangeInv, Shutdown \/ Goodbye \/ Close
  PROVE  ExchangeInv'
<1>1. CASE Shutdown \/ Goodbye
  <2>1. /\ UNCHANGED <<program, i, j, session, parsed, answers, peer>>
        /\ pc \in {"shutdown", "goodbye"} /\ pc' \in {"goodbye", "close", "killed"}
    BY <1>1 DEF Shutdown, Goodbye
  <2> QED
    BY <2>1 DEF ExchangeInv, ExchangeTypes, Fresh, InStep, Kept, NoFirst
<1>2. CASE Close
  <2>1. /\ UNCHANGED <<program, session, parsed, peer>>
        /\ i' = i + 1 /\ j' = 0 /\ answers' = <<>>
        /\ pc = "close" /\ pc' \in {"connect", "exit"}
    BY <1>2 DEF Close
  <2>2. ExchangeTypes' /\ Fresh' /\ InStep'
    BY <2>1 DEF ExchangeInv, ExchangeTypes, Fresh, InStep
  <2>3. Kept'
    BY <2>1 DEF ExchangeInv, Kept, IInv, Types
  <2> QED
    BY <2>2, <2>3 DEF ExchangeInv
<1> QED
  BY <1>1, <1>2

\* The server's part of the handshake is no part of an exchange.
LEMMA GreetExchange ==
  ASSUME ExchangeInv, Greet
  PROVE  ExchangeInv'
<1>1. /\ UNCHANGED <<program, pc, i, j, ssl, session, parsed, answers>>
      /\ peer' = [peer EXCEPT !.greeted = TRUE]
  BY DEF Greet
<1>2. /\ ExchangeTypes'
      /\ peer'.open = peer.open /\ peer'.faulty = peer.faulty
      /\ peer'.owes = peer.owes /\ peer'.wire = peer.wire /\ peer'.begun = peer.begun
  BY <1>1 DEF ExchangeInv, ExchangeTypes
<1>3. Fresh' /\ InStep'
  BY <1>1, <1>2 DEF ExchangeInv, Fresh, InStep, Quiet, Exchanging
<1>4. Kept'
  BY <1>1, <1>2 DEF ExchangeInv, Kept, NoFirst
<1> QED
  BY <1>2, <1>3, <1>4 DEF ExchangeInv

\* The server hangs up: nothing more will come.
LEMMA HangupExchange ==
  ASSUME ExchangeInv, Hangup
  PROVE  ExchangeInv'
<1>1. /\ UNCHANGED <<program, pc, i, j, ssl, session, parsed, answers>>
      /\ peer' = [peer EXCEPT !.open = FALSE, !.faulty = TRUE]
  BY DEF Hangup
<1>2. /\ ExchangeTypes'
      /\ peer'.open = FALSE /\ peer'.faulty = TRUE
      /\ peer'.owes = peer.owes /\ peer'.wire = peer.wire
  BY <1>1 DEF ExchangeInv, ExchangeTypes
<1>3. Fresh' /\ InStep'
  BY <1>1, <1>2 DEF ExchangeInv, Fresh, InStep
<1>4. Kept'
  BY <1>1, <1>2 DEF ExchangeInv, Kept, NoFirst
<1> QED
  BY <1>2, <1>3, <1>4 DEF ExchangeInv

\* A request is written, or lost and the exchange over.
LEMMA WriteExchange ==
  ASSUME IInv, ExchangeInv, Write
  PROVE  ExchangeInv'
<1>1. /\ UNCHANGED <<program, i, ssl, session, answers>>
      /\ pc = "write" /\ parsed = 0 /\ j \in Nat
  BY DEF Write, ExchangeInv, Fresh, ExchangeTypes
<1>2. CASE pc' = "read" /\ UNCHANGED <<j, parsed>> /\ peer.open
           /\ peer' = [peer EXCEPT !.owes = Append(@, j + 1)]
  <2>1. Append(peer.owes, j + 1) \in Seq(Nat)
    BY <1>1 DEF ExchangeInv, ExchangeTypes
  <2>2. /\ ExchangeTypes'
        /\ peer'.owes = Append(peer.owes, j + 1) /\ peer'.wire = peer.wire
        /\ peer'.open = peer.open /\ peer'.begun = peer.begun
        /\ peer'.faulty = peer.faulty
    BY <1>1, <1>2, <2>1 DEF ExchangeInv, ExchangeTypes
  <2>3. Fresh'
    BY <1>1, <1>2 DEF ExchangeInv, Fresh
  <2>4. InStep'
    <3> SUFFICES ASSUME ~peer'.faulty
                 PROVE  /\ peer'.open /\ answers' = [k \in 1 .. j' |-> k]
                        /\ Exchanging(j + 1)'
      BY <1>2 DEF InStep
    <3>1. peer.open /\ answers = [k \in 1 .. j |-> k] /\ Quiet
      BY <1>1, <2>2 DEF ExchangeInv, InStep
    <3>2. peer'.owes = <<j + 1>> /\ peer'.wire = <<>> /\ ~peer'.begun
      BY <1>1, <2>2, <3>1 DEF Quiet
    <3> QED
      BY <1>1, <1>2, <2>2, <3>1, <3>2 DEF Exchanging
  <2>5. Kept'
    <3>1. j # 0 /\ NoFirst => NoFirst'
      <4>1. peer.owes \in Seq(Nat)
        BY DEF ExchangeInv, ExchangeTypes
      <4>2. ASSUME j # 0, peer.open => \A k \in DOMAIN peer.owes : peer.owes[k] # 1
            PROVE  peer.open => \A k \in DOMAIN Append(peer.owes, j + 1) :
                                  Append(peer.owes, j + 1)[k] # 1
        BY <1>1, <4>1, <4>2
      <4> QED
        BY <1>1, <2>2, <4>2 DEF NoFirst
    <3>2. program = "falseStart" /\ session.of = i + 1 => j # 0
      BY DEF ExchangeInv, Kept, IInv, Types
    <3> QED
      BY <1>1, <1>2, <3>1, <3>2 DEF ExchangeInv, Kept
  <2> QED
    BY <2>2, <2>3, <2>4, <2>5 DEF ExchangeInv
<1>3. CASE pc' \in {"read", "killed"} /\ UNCHANGED <<j, parsed, peer>> /\ ~peer.open
  <2>1. ExchangeTypes' /\ Fresh'
    BY <1>1, <1>3 DEF ExchangeInv, ExchangeTypes, Fresh
  <2>2. InStep'
    BY <1>1, <1>3 DEF ExchangeInv, InStep
  <2>3. Kept'
    BY <1>1, <1>3 DEF ExchangeInv, Kept, NoFirst
  <2> QED
    BY <2>1, <2>2, <2>3 DEF ExchangeInv
<1>4. CASE Return /\ peer' = [peer EXCEPT !.faulty = TRUE]
  <2>1. /\ pc' \in {"keep", "write", "shutdown"}
        /\ pc' = "keep" => program = "falseStart" /\ j = 0
        /\ program = "falseStart" /\ j = 0 => pc' = "keep"
        /\ j' = j + 1 /\ parsed' = 0 /\ j' \in Nat /\ j' # 0
    BY <1>1, <1>4, ReturnFacts
  <2>2. /\ ExchangeTypes'
        /\ peer'.owes = peer.owes /\ peer'.wire = peer.wire
        /\ peer'.open = peer.open /\ peer'.faulty = TRUE
    BY <1>1, <1>4, <2>1 DEF ExchangeInv, ExchangeTypes
  <2>3. Fresh' /\ InStep'
    BY <1>1, <2>1, <2>2 DEF Fresh, InStep
  <2>4. NoFirst => NoFirst'
    BY <1>1, <2>2 DEF NoFirst
  <2>5. j = 0 => NoFirst
    BY <1>1 DEF ExchangeInv, Fresh, NoFirst
  <2>6. Kept'
    BY <1>1, <2>1, <2>4, <2>5 DEF ExchangeInv, Kept, IInv, Types
  <2> QED
    BY <2>2, <2>3, <2>6 DEF ExchangeInv
<1> QED
  BY <1>2, <1>3, <1>4 DEF Write

\* Nothing was read and nothing will be.
LEMMA ReadEndsExchange ==
  ASSUME IInv, ExchangeInv, ReadEnds
  PROVE  ExchangeInv'
<1>1. /\ UNCHANGED <<program, i, session, answers, peer>>
      /\ ssl.on => ssl'.on
      /\ pc = "read" /\ peer.wire = <<>> /\ ~peer.open /\ j \in Nat
  BY DEF ReadEnds, ExchangeInv, ExchangeTypes, IInv, Types
<1>2. /\ pc' \in {"keep", "write", "shutdown"}
      /\ pc' = "keep" => program = "falseStart" /\ j = 0
      /\ program = "falseStart" /\ j = 0 => pc' = "keep"
      /\ j' = j + 1 /\ parsed' = 0 /\ j' \in Nat /\ j' # 0
  BY <1>1, ReturnFacts DEF ReadEnds
<1>3. ExchangeTypes' /\ Fresh'
  BY <1>1, <1>2 DEF ExchangeInv, ExchangeTypes, Fresh
<1>4. InStep'
  BY <1>1 DEF ExchangeInv, InStep
<1>5. NoFirst => NoFirst'
  BY <1>1 DEF NoFirst
<1>6. j = 0 => NoFirst
  BY <1>1 DEF ExchangeInv, Fresh, NoFirst
<1>7. Kept'
  BY <1>1, <1>2, <1>5, <1>6 DEF ExchangeInv, Kept, IInv, Types
<1> QED
  BY <1>3, <1>4, <1>7 DEF ExchangeInv

\* What the parser says of the pieces of a proper response.
LEMMA ParseProper ==
  ASSUME NEW n
  PROVE  /\ parsed = 0 => Parse(First(n)) = "indeterminate" /\ Parse(Whole(n)) = "good"
         /\ parsed = 1 => Parse(Second(n)) = "good"
<1>1. ASSUME parsed = 0 PROVE (parsed = 0) = TRUE
  BY <1>1
<1>2. ASSUME parsed = 1 PROVE (parsed = 0) = FALSE
  BY <1>2
<1>3. /\ First(n).ok = TRUE /\ First(n).first = TRUE /\ First(n).last = FALSE
      /\ Whole(n).ok = TRUE /\ Whole(n).first = TRUE /\ Whole(n).last = TRUE
      /\ Second(n).ok = TRUE /\ Second(n).first = FALSE /\ Second(n).last = TRUE
  BY DEF First, Whole, Second
<1> QED
  BY <1>1, <1>2, <1>3, Zenon DEF Parse

\* A piece is read. A server without fault has sent it for the exchange that
\* reads it.
LEMMA ReadExchange ==
  ASSUME IInv, ExchangeInv, Read
  PROVE  ExchangeInv'
<1> DEFINE piece == Head(peer.wire)
           result == Parse(piece)
<1>1. /\ UNCHANGED <<program, i, session>>
      /\ pc = "read" /\ peer.wire # <<>> /\ j \in Nat
      /\ ssl' = [ssl EXCEPT !.finished = ssl.on]
      /\ peer' = [peer EXCEPT !.wire = Tail(@)]
  BY DEF Read, ExchangeInv, ExchangeTypes
<1>2. /\ answers' = IF result = "good" THEN Append(answers, piece.of) ELSE answers
      /\ result = "indeterminate" => parsed' = parsed + 1 /\ UNCHANGED <<pc, j>>
      /\ result # "indeterminate" => Return
  BY DEF Read
<1>3. /\ peer.wire \in Seq(Pieces) /\ answers \in Seq(Nat)
      /\ Tail(peer.wire) \in Seq(Pieces) /\ piece \in Pieces /\ piece.of \in Nat
  <2>1. peer.wire \in Seq(Pieces) /\ answers \in Seq(Nat)
    BY DEF ExchangeInv, ExchangeTypes
  <2>2. Tail(peer.wire) \in Seq(Pieces) /\ piece \in Pieces
    BY <1>1, <2>1
  <2> QED
    BY <2>1, <2>2 DEF Pieces
<1>4. /\ peer'.wire = Tail(peer.wire) /\ peer'.owes = peer.owes
      /\ peer'.open = peer.open /\ peer'.begun = peer.begun
      /\ peer'.faulty = peer.faulty
      /\ peer' \in Peers
  BY <1>1, <1>3 DEF ExchangeInv, ExchangeTypes
<1>5. answers' \in Seq(Nat)
  BY <1>2, <1>3
<1>6. ssl.on => ssl'.finished /\ ssl'.on
  BY <1>1 DEF IInv, Types
<1>7. NoFirst => NoFirst'
  <2> SUFFICES ASSUME NoFirst PROVE NoFirst'
    OBVIOUS
  <2>1. piece.of # 1
    BY <1>1, <1>3 DEF NoFirst
  <2>2. \A k \in DOMAIN answers' : answers'[k] # 1
    BY <1>2, <1>3, <2>1 DEF NoFirst
  <2>3. \A k \in DOMAIN peer'.wire : peer'.wire[k].of # 1
    <3>1. \A k \in DOMAIN Tail(peer.wire) :
            k + 1 \in DOMAIN peer.wire /\ Tail(peer.wire)[k] = peer.wire[k + 1]
      BY <1>1, <1>3
    <3> QED
      BY <1>4, <3>1 DEF NoFirst
  <2> QED
    BY <1>4, <2>2, <2>3 DEF NoFirst
<1> HIDE DEF result, piece
<1>8. CASE result = "indeterminate"
  <2>1. pc' = "read" /\ j' = j /\ parsed' = parsed + 1 /\ answers' = answers
    BY <1>1, <1>2, <1>8
  <2>2. ExchangeTypes' /\ Fresh'
    BY <1>1, <1>4, <1>5, <2>1 DEF ExchangeInv, ExchangeTypes, Fresh
  <2>3. InStep'
    <3> SUFFICES ASSUME ~peer.faulty
                 PROVE  /\ peer'.open /\ answers' = [k \in 1 .. j' |-> k]
                        /\ Exchanging(j + 1)'
      BY <1>4, <2>1 DEF InStep
    <3>1. peer.open /\ answers = [k \in 1 .. j |-> k] /\ Exchanging(j + 1)
      BY <1>1 DEF ExchangeInv, InStep
    <3>2. ~(piece = Whole(j + 1) /\ parsed = 0) /\ ~(piece = Second(j + 1) /\ parsed = 1)
      BY <1>8, ParseProper DEF result
    <3>3. \/ /\ parsed = 0 /\ peer.owes = <<j + 1>> /\ peer.begun
             /\ peer.wire = <<First(j + 1)>>
          \/ /\ parsed = 0 /\ peer.owes = <<>> /\ ~peer.begun
             /\ peer.wire = <<First(j + 1), Second(j + 1)>>
      BY <1>1, <3>1, <3>2 DEF Exchanging, piece
    <3>4. \/ peer'.owes = <<j + 1>> /\ peer'.begun /\ peer'.wire = <<>>
          \/ peer'.owes = <<>> /\ ~peer'.begun /\ peer'.wire = <<Second(j + 1)>>
      <4>1. Tail(<<First(j + 1)>>) = <<>>
        BY ShortSequences
      <4>2. Tail(<<First(j + 1), Second(j + 1)>>) = <<Second(j + 1)>>
        BY ShortSequences
      <4> HIDE DEF First, Second
      <4> QED
        BY <1>4, <3>3, <4>1, <4>2
    <3>5. parsed' = 1 /\ j' = j
      BY <2>1, <3>3
    <3>6. Exchanging(j + 1)'
      BY <3>4, <3>5 DEF Exchanging, First, Second, Whole
    <3> QED
      BY <1>4, <2>1, <3>1, <3>6
  <2>4. Kept'
    BY <1>1, <1>6, <1>7, <2>1 DEF ExchangeInv, Kept, IInv, Types
  <2> QED
    BY <2>2, <2>3, <2>4 DEF ExchangeInv
<1>9. CASE result # "indeterminate"
  <2>1. /\ pc' \in {"keep", "write", "shutdown"}
        /\ pc' = "keep" => program = "falseStart" /\ j = 0
        /\ program = "falseStart" /\ j = 0 => pc' = "keep"
        /\ j' = j + 1 /\ parsed' = 0 /\ j' \in Nat /\ j' # 0
    BY <1>1, <1>2, <1>9, ReturnFacts
  <2>2. ExchangeTypes' /\ Fresh'
    BY <1>1, <1>4, <1>5, <2>1 DEF ExchangeTypes, Fresh
  <2>3. InStep'
    <3> SUFFICES ASSUME ~peer.faulty
                 PROVE  /\ peer'.open /\ answers' = [k \in 1 .. j' |-> k] /\ Quiet'
      BY <1>4, <2>1 DEF InStep
    <3>1. peer.open /\ answers = [k \in 1 .. j |-> k] /\ Exchanging(j + 1)
      BY <1>1 DEF ExchangeInv, InStep
    <3>2. ~(piece = First(j + 1) /\ parsed = 0)
      BY <1>9, ParseProper DEF result
    <3>3. /\ peer.owes = <<>> /\ ~peer.begun
          /\ \/ parsed = 0 /\ peer.wire = <<Whole(j + 1)>>
             \/ parsed = 1 /\ peer.wire = <<Second(j + 1)>>
      BY <1>1, <3>1, <3>2 DEF Exchanging, piece
    <3>4. result = "good"
      BY <3>3, ParseProper DEF result, piece
    <3>5. piece.of = j + 1 /\ Tail(peer.wire) = <<>>
      <4>1. Whole(j + 1).of = j + 1 /\ Second(j + 1).of = j + 1
        BY DEF Whole, Second
      <4> QED
        BY <3>3, <4>1, ShortSequences DEF piece
    <3>6. answers' = [k \in 1 .. j + 1 |-> k]
      BY <1>1, <1>2, <3>1, <3>4, <3>5, AppendInOrder
    <3> QED
      BY <1>4, <2>1, <3>1, <3>3, <3>5, <3>6 DEF Quiet
  <2>4. Kept'
    BY <1>1, <1>6, <1>7, <2>1 DEF ExchangeInv, Kept, IInv, Types
  <2> QED
    BY <2>2, <2>3, <2>4 DEF ExchangeInv
<1> QED
  BY <1>8, <1>9

\* The server sends the next piece of the response it owes first.
LEMMA RespondExchange ==
  ASSUME ExchangeInv, Respond
  PROVE  ExchangeInv'
<1>1. /\ UNCHANGED <<program, pc, i, j, ssl, session, parsed, answers>>
      /\ peer.open /\ peer.owes # <<>> /\ j \in Nat
  BY DEF Respond, ExchangeInv, ExchangeTypes
<1>2. peer \in Peers
  BY DEF ExchangeInv, ExchangeTypes
<1>3. PICK last \in {TRUE, peer.begun}, ok \in BOOLEAN :
        peer' = [peer EXCEPT
          !.wire = Append(@, [of |-> Head(peer.owes), first |-> ~peer.begun,
                              last |-> last, ok |-> ok]),
          !.owes = IF last THEN Tail(@) ELSE @,
          !.begun = ~last,
          !.faulty = @ \/ ~ok]
  BY Zenon DEF Respond
<1> DEFINE piece == [of |-> Head(peer.owes), first |-> ~peer.begun,
                     last |-> last, ok |-> ok]
           owes == IF last THEN Tail(peer.owes) ELSE peer.owes
           faulty == peer.faulty \/ ~ok
<1>4. last \in BOOLEAN /\ (~peer.begun) \in BOOLEAN
  BY <1>2, Zenon
<1>5. piece \in Pieces /\ owes \in Seq(Nat)
  BY <1>1, <1>2, <1>4 DEF Pieces
<1>6. faulty \in BOOLEAN /\ (~last) \in BOOLEAN
  BY Zenon
<1>7. peer' = [peer EXCEPT !.wire = Append(@, piece), !.owes = owes,
                           !.begun = ~last, !.faulty = faulty]
  BY <1>3, Zenon
<1> HIDE DEF owes, faulty
<1> DEFINE wire == Append(peer.wire, piece)
           begun == ~last
<1> HIDE DEF piece
<1>8. wire \in Seq(Pieces) /\ peer' = [peer EXCEPT !.wire = wire, !.owes = owes,
                                                 !.begun = begun, !.faulty = faulty]
  BY <1>2, <1>5, <1>7
<1>9. begun \in BOOLEAN
  BY <1>6
<1> HIDE DEF wire, begun
<1>10. /\ peer'.wire = wire /\ peer'.owes = owes /\ peer'.begun = begun
       /\ peer'.faulty = faulty /\ peer'.open = peer.open
       /\ peer' \in Peers
  BY <1>2, <1>5, <1>6, <1>8, <1>9
<1>11. ExchangeTypes'
  BY <1>1, <1>10 DEF ExchangeInv, ExchangeTypes
<1>12. Fresh'
  BY <1>1 DEF ExchangeInv, Fresh
<1>13. InStep'
  <2> SUFFICES ASSUME ~peer'.faulty PROVE InStep'
    BY DEF InStep
  <2>1. ~peer.faulty /\ ok = TRUE
    BY <1>10, Zenon DEF faulty
  <2>2. /\ peer.open /\ pc \notin {"handshake", "write", "keep", "shutdown"}
        /\ pc = "read" => answers = [k \in 1 .. j |-> k] /\ Exchanging(j + 1)
    BY <1>1, <2>1 DEF ExchangeInv, InStep, Quiet
  <2>3. ASSUME Exchanging(j + 1) PROVE Exchanging(j + 1)'
    <3>1. peer.owes = <<j + 1>> /\ Head(peer.owes) = j + 1 /\ Tail(peer.owes) = <<>>
      <4>1. peer.owes = <<j + 1>>
        BY <1>1, <2>3 DEF Exchanging
      <4> QED
        BY <4>1, ShortSequences
    <3>2. CASE peer.begun
      <4>1. last = TRUE /\ peer.begun = TRUE
        BY <1>2, <3>2, Zenon
      <4>2. owes = <<>> /\ begun = FALSE
        BY <3>1, <4>1 DEF owes, begun
      <4>3. piece = Second(j + 1)
        BY <2>1, <3>1, <4>1 DEF piece, Second
      <4>4. \/ parsed = 0 /\ peer.wire = <<First(j + 1)>>
            \/ parsed = 1 /\ peer.wire = <<>>
        BY <2>3, <3>1, <3>2 DEF Exchanging
      <4>5. \/ parsed = 0 /\ wire = <<First(j + 1), Second(j + 1)>>
            \/ parsed = 1 /\ wire = <<Second(j + 1)>>
        <5>1. Append(<<First(j + 1)>>, Second(j + 1)) = <<First(j + 1), Second(j + 1)>>
          BY ShortSequences
        <5>2. Append(<<>>, Second(j + 1)) = <<Second(j + 1)>>
          BY ShortSequences
        <5> HIDE DEF First, Second
        <5> QED
          BY <4>3, <4>4, <5>1, <5>2 DEF wire
      <4> QED
        BY <1>1, <1>10, <4>2, <4>5 DEF Exchanging
    <3>3. CASE ~peer.begun
      <4>1. peer.begun = FALSE
        BY <1>2, <3>3
      <4>2. parsed = 0 /\ peer.wire = <<>>
        BY <2>3, <3>1, <3>3 DEF Exchanging
      <4>3. CASE last = TRUE
        <5>1. owes = <<>> /\ begun = FALSE
          BY <3>1, <4>3 DEF owes, begun
        <5>2. piece = Whole(j + 1)
          BY <2>1, <3>1, <4>1, <4>3 DEF piece, Whole
        <5> QED
          BY <1>1, <1>10, <4>2, <5>1, <5>2 DEF Exchanging, wire
      <4>4. CASE last = FALSE
        <5>1. owes = <<j + 1>> /\ begun = TRUE
          BY <3>1, <4>4 DEF owes, begun
        <5>2. piece = First(j + 1)
          BY <2>1, <3>1, <4>1, <4>4 DEF piece, First
        <5> QED
          BY <1>1, <1>10, <4>2, <5>1, <5>2 DEF Exchanging, wire
      <4> QED
        BY <1>4, <4>3, <4>4
    <3> QED
      BY <3>2, <3>3
  <2> QED
    BY <1>1, <1>10, <2>2, <2>3 DEF InStep
<1>14. NoFirst => NoFirst'
  <2> SUFFICES ASSUME NoFirst PROVE NoFirst'
    OBVIOUS
  <2>1. Head(peer.owes) # 1 /\ piece.of # 1
    BY <1>1, <1>2 DEF NoFirst, piece
  <2>2. \A k \in DOMAIN wire : wire[k].of # 1
    BY <1>2, <1>5, <2>1 DEF NoFirst, wire
  <2>3. \A k \in DOMAIN owes : owes[k] # 1
    <3>1. \A k \in DOMAIN Tail(peer.owes) :
            k + 1 \in DOMAIN peer.owes /\ Tail(peer.owes)[k] = peer.owes[k + 1]
      BY <1>1, <1>2
    <3> QED
      BY <1>1, <3>1 DEF NoFirst, owes
  <2> QED
    BY <1>1, <1>10, <2>2, <2>3 DEF NoFirst
<1>15. Kept'
  BY <1>1, <1>14 DEF ExchangeInv, Kept
<1> QED
  BY <1>11, <1>12, <1>13, <1>15 DEF ExchangeInv

LEMMA NextExchange == IInv /\ ExchangeInv /\ [Next]_vars => ExchangeInv'
<1> SUFFICES ASSUME IInv, ExchangeInv, [Next]_vars PROVE ExchangeInv'
  OBVIOUS
<1>1. CASE UNCHANGED vars
  BY <1>1 DEF vars, ExchangeInv, ExchangeTypes, Fresh, InStep, Quiet, Exchanging,
              Kept, NoFirst
<1> QED
  BY <1>1, TcpExchange, HandshakeExchange, WriteExchange, ReadExchange,
     ReadEndsExchange, KeepExchange, ScopeExchange, GreetExchange, RespondExchange,
     HangupExchange
  DEF Next, Client

\* Both invariants together.
LEMMA InductiveInvariant == Spec => [](IInv /\ ExchangeInv)
BY InitIInv, NextIInv, InitExchange, NextExchange, PTL DEF Spec

\* Over a kept-alive connection to a server that answers properly request and
\* response stay in step, however many requests there are and in however many
\* reads their responses come.
THEOREM ExchangesInStep == Spec => []KeepAliveInStep
<1>1. ExchangeInv => KeepAliveInStep
  BY DEF ExchangeInv, InStep, KeepAliveInStep
<1> QED
  BY <1>1, InductiveInvariant, PTL

\* The handshake of the kept session was over when it was taken: in
\* tls_session_ticket.cpp always, in tls_false_start.cpp whenever the first
\* exchange went well, whatever goes wrong on the connection before and after.
THEOREM SessionFinished == Spec => []KeptSessionFinished
<1>1. ExchangeInv => KeptSessionFinished
  BY DEF ExchangeInv, Kept, NoFirst, KeptSessionFinished, FirstExchangeWell
<1> QED
  BY <1>1, InductiveInvariant, PTL
================================================================================

------------------------------ MODULE HttpsClient ------------------------------
(***************************************************************************)
(* Three programs that make connection after connection and send several   *)
(* HTTP requests over each: tls/tls_session_ticket.cpp ("ticket"), which   *)
(* keeps the TLS session of one connection for the next,                   *)
(* tls/tls_false_start.cpp ("falseStart"), which also writes before the    *)
(* handshake is over while it has no session, and http/tcp_reuse.cpp       *)
(* ("reuse"), without TLS.                                                 *)
(*                                                                         *)
(* OpenSSL and the server are external; a read, the handshake and the      *)
(* second SSL_shutdown wait for the server. A response is one or two       *)
(* pieces, each what one read returns.                                     *)
(***************************************************************************)
EXTENDS Naturals, Sequences

CONSTANTS
  Connections,  \* N_LOOP times the number of ip_ports
  NTry          \* N_TRY, requests over each connection

ASSUME HttpsAssumption == Connections \in Nat \ {0} /\ NTry \in Nat \ {0}

VARIABLES
  program,
  level,     \* FLAGS_optimize_level
  pc,
  i, j,      \* connections done, requests done over this one
  tcp,       \* the socket: "none" or "open"
  ssl,       \* the SSL of the connection; none unless on
  session,   \* the kept session, of which connection (0: none), and whether its
             \* handshake was over when SSL_get1_session took it
  early,     \* SSL_MODE_ENABLE_FALSE_START of the context
  parsed,    \* pieces of a response the parser has
  answers,   \* the requests whose responses were taken as good, in order
  peer       \* the server: open, its part of the handshake sent (greeted), requests
             \* to answer, pieces under way, faulty

vars == <<program, level, pc, i, j, tcp, ssl, session, early, parsed, answers, peer>>

NoSsl == [on |-> FALSE, resuming |-> FALSE, early |-> FALSE, finished |-> FALSE]

NewPeer == [open |-> TRUE, greeted |-> FALSE, owes |-> <<>>, begun |-> FALSE,
            wire |-> <<>>, faulty |-> FALSE]

Init ==
  /\ program \in {"ticket", "falseStart", "reuse"}
  /\ level \in IF program = "falseStart" THEN 0 .. 2 ELSE {0}
  /\ pc = "connect"
  /\ i = 0
  /\ j = 0
  /\ tcp = "none"
  /\ ssl = NoSsl
  /\ session = [of |-> 0, finished |-> FALSE]
  /\ early = (level >= 2)
  /\ parsed = 0
  /\ answers = <<>>
  /\ peer = NewPeer

-----------------------------------------------------------------------------
\* create_tcp_conn. Without an address, a socket or a connection main's assert
\* ends the process, and so it does when create_ssl_conn has no SSL, cannot set
\* the server's name or the session.
create_tcp_conn ==
  /\ pc = "connect"
  /\ \/ pc' = "abort" /\ UNCHANGED <<tcp, peer>>
     \/ /\ pc' = IF program = "reuse" THEN "write" ELSE "handshake"
        /\ tcp' = "open"
        /\ peer' = NewPeer
  /\ UNCHANGED <<program, level, i, j, ssl, session, early, parsed, answers>>

\* SSL_connect returned 1: the handshake is over, unless false start is enabled
\* and lets the client write before the server's last messages are there.
Connected(resuming) ==
  /\ peer.greeted
  /\ pc' = "write"
  /\ \E started \in {FALSE, early} :
       ssl' = [on |-> TRUE, resuming |-> resuming, early |-> early,
               finished |-> ~started]

\* SSL_connect did not, and the assert of main ends the process; a write to a
\* socket the server has closed may also raise SIGPIPE, which nobody handles.
Refused ==
  /\ \/ peer.greeted /\ pc' = "abort"
     \/ ~peer.open /\ pc' \in {"abort", "killed"}
  /\ UNCHANGED ssl

\* SSL_get1_session gives the session of this connection, as it is now.
Keep == session' = [of |-> i + 1, finished |-> ssl'.finished]

\* tls_session_ticket.cpp: a session is used when there is one, and the new one
\* kept at once.
create_ssl_conn ==
  /\ pc = "handshake" /\ program = "ticket"
  /\ \/ Connected(session.of > 0) /\ (Keep \/ UNCHANGED session)
     \/ Refused /\ UNCHANGED session
  /\ UNCHANGED <<program, level, i, j, tcp, early, parsed, answers, peer>>

\* Mutant: the session is kept as the other program does, after SSL_connect.
KeepAfterHandshake ==
  /\ pc = "handshake" /\ program = "falseStart"
  /\ \/ Connected(level >= 1 /\ session.of > 0) /\ Keep
     \/ Refused /\ UNCHANGED session
  /\ UNCHANGED <<program, level, i, j, tcp, early, parsed, answers, peer>>

\* tls_false_start.cpp: a session is used from level 1 on.
create_ssl_conn_early ==
  /\ pc = "handshake" /\ program = "falseStart"
  /\ Connected(level >= 1 /\ session.of > 0) \/ Refused
  /\ UNCHANGED <<program, level, i, j, tcp, session, early, parsed, answers, peer>>

-----------------------------------------------------------------------------
\* An exchange is over, well or not: main counts it and goes on.
Return ==
  /\ pc' = IF program = "falseStart" /\ j = 0 THEN "keep"
           ELSE IF j + 1 < NTry THEN "write" ELSE "shutdown"
  /\ j' = j + 1
  /\ parsed' = 0

\* do_http: the request is written as a whole, or do_http returns. A write to a
\* socket the server has closed may also raise SIGPIPE, which nobody handles.
Write ==
  /\ pc = "write"
  /\ \/ /\ pc' = "read"
        /\ peer' = IF peer.open THEN [peer EXCEPT !.owes = Append(@, j + 1)] ELSE peer
        /\ UNCHANGED <<j, parsed>>
     \/ Return /\ peer' = [peer EXCEPT !.faulty = TRUE]
     \/ ~peer.open /\ pc' = "killed" /\ UNCHANGED <<j, parsed, peer>>
  /\ UNCHANGED <<program, level, i, tcp, ssl, session, early, answers>>

\* responseParser.parse on the next piece, with a parser made for this exchange.
Parse(piece) ==
  IF ~piece.ok \/ (piece.first # (parsed = 0)) THEN "bad"
  ELSE IF piece.last THEN "good" ELSE "indeterminate"

\* Mutant: an incomplete response ends the exchange.
ReadOnce ==
  /\ pc = "read"
  /\ peer.wire # <<>>
  /\ answers' = IF Parse(Head(peer.wire)) = "good"
                THEN Append(answers, Head(peer.wire).of) ELSE answers
  /\ ssl' = [ssl EXCEPT !.finished = ssl.on]
  /\ peer' = [peer EXCEPT !.wire = Tail(@)]
  /\ Return
  /\ UNCHANGED <<program, level, i, tcp, session, early>>

\* SSL_read finishes the handshake before it returns any data.
Read ==
  /\ pc = "read"
  /\ peer.wire # <<>>
  /\ LET result == Parse(Head(peer.wire))
     IN  /\ answers' = IF result = "good"
                       THEN Append(answers, Head(peer.wire).of) ELSE answers
         /\ IF result = "indeterminate"
            THEN parsed' = parsed + 1 /\ UNCHANGED <<pc, j>>
            ELSE Return
  /\ ssl' = [ssl EXCEPT !.finished = ssl.on]
  /\ peer' = [peer EXCEPT !.wire = Tail(@)]
  /\ UNCHANGED <<program, level, i, tcp, session, early>>

\* Mutant: the loop goes on when nothing was read.
ReadAgain ==
  /\ pc = "read"
  /\ peer.wire = <<>> /\ ~peer.open
  /\ UNCHANGED vars

\* nr <= 0, whether or not the handshake could still be finished.
ReadEnds ==
  /\ pc = "read"
  /\ peer.wire = <<>> /\ ~peer.open
  /\ Return
  /\ \E finished \in {ssl.finished, ssl.on} : ssl' = [ssl EXCEPT !.finished = finished]
  /\ UNCHANGED <<program, level, i, tcp, session, early, answers, peer>>

-----------------------------------------------------------------------------
\* Mutant: false start stays enabled.
KeepEarly ==
  /\ pc = "keep"
  /\ (session' = [of |-> i + 1, finished |-> ssl.finished]) \/ UNCHANGED session
  /\ pc' = IF j < NTry THEN "write" ELSE "shutdown"
  /\ UNCHANGED <<program, level, i, j, tcp, ssl, early, parsed, answers, peer>>

\* tls_false_start.cpp after its first exchange: if there is a session it is
\* kept and false start switched off.
KeepSession ==
  /\ pc = "keep"
  /\ \/ /\ session' = [of |-> i + 1, finished |-> ssl.finished]
        /\ early' = (early /\ level < 2)
     \/ UNCHANGED <<session, early>>
  /\ pc' = IF j < NTry THEN "write" ELSE "shutdown"
  /\ UNCHANGED <<program, level, i, j, tcp, ssl, parsed, answers, peer>>

\* Mutant: the socket is declared after the SSL and goes first.
CloseFirst ==
  /\ pc = "shutdown"
  /\ tcp' = "none"
  /\ pc' = "close"
  /\ UNCHANGED <<program, level, i, j, ssl, session, early, parsed, answers, peer>>

\* The end of the loop body: ssl's deleter first, over the socket. It sends a
\* close_notify; when the answer to it is not there yet (0) it asks again, and
\* otherwise (1, or an error) frees the SSL.
Shutdown ==
  /\ pc = "shutdown"
  /\ \/ ssl.on /\ pc' = "goodbye" /\ UNCHANGED ssl
     \/ ssl' = NoSsl /\ pc' = "close"
     \/ ssl.on /\ ~peer.open /\ pc' = "killed" /\ UNCHANGED ssl
  /\ UNCHANGED <<program, level, i, j, tcp, session, early, parsed, answers, peer>>

\* The second SSL_shutdown reads: it waits for the server's close_notify, for the
\* end of the connection, or for data nobody asked for, which is an error.
Goodbye ==
  /\ pc = "goodbye"
  /\ peer.wire # <<>> \/ ~peer.open
  /\ ssl' = NoSsl
  /\ pc' = "close"
  /\ UNCHANGED <<program, level, i, j, tcp, session, early, parsed, answers, peer>>

\* Then tcp's deleter.
Close ==
  /\ pc = "close"
  /\ tcp' = "none"
  /\ pc' = IF i + 1 < Connections THEN "connect" ELSE "exit"
  /\ i' = i + 1
  /\ j' = 0
  /\ answers' = <<>>
  /\ UNCHANGED <<program, level, ssl, session, early, parsed, peer>>

Client == \/ create_tcp_conn \/ create_ssl_conn \/ create_ssl_conn_early
          \/ Write \/ Read \/ ReadEnds \/ KeepSession \/ Shutdown \/ Goodbye \/ Close

\* The server's part of the handshake.
Greet ==
  /\ pc = "handshake" /\ peer.open /\ ~peer.greeted
  /\ peer' = [peer EXCEPT !.greeted = TRUE]
  /\ UNCHANGED <<program, level, pc, i, j, tcp, ssl, session, early, parsed, answers>>

\* The server answers its requests in order, piece by piece, perhaps wrongly.
Respond ==
  /\ peer.open /\ peer.owes # <<>>
  /\ \E last \in {TRUE, peer.begun}, ok \in BOOLEAN :
       peer' = [peer EXCEPT
         !.wire = Append(@, [of |-> Head(peer.owes), first |-> ~peer.begun,
                             last |-> last, ok |-> ok]),
         !.owes = IF last THEN Tail(@) ELSE @,
         !.begun = ~last,
         !.faulty = @ \/ ~ok]
  /\ UNCHANGED <<program, level, pc, i, j, tcp, ssl, session, early, parsed, answers>>

\* The server closes the connection, with or without a close_notify.
Hangup ==
  /\ peer.open /\ tcp = "open"
  /\ peer' = [peer EXCEPT !.open = FALSE, !.faulty = TRUE]
  /\ UNCHANGED <<program, level, pc, i, j, tcp, ssl, session, early, parsed, answers>>

Next == Client \/ Greet \/ Respond \/ Hangup

Spec == Init /\ [][Next]_vars

-----------------------------------------------------------------------------
\* An SSL has its socket as long as it lives, so that its deleter can say
\* goodbye, and no socket is left when main makes the next connection or ends.
SocketOutlivesSsl ==
  /\ ssl.on => tcp = "open"
  /\ pc \in {"connect", "exit"} => tcp = "none"

\* Resuming and false start exclude each other: the mode is off by the time a
\* connection has a session to offer (tls_false_start.cpp, lines 248-252).
NeverResumesEarly == ~(ssl.resuming /\ ssl.early)

\* In tls_false_start.cpp, the first request over this connection was answered.
FirstExchangeWell ==
  program = "falseStart" => 1 \in {answers[k] : k \in DOMAIN answers}

\* The handshake was over when the kept session was taken, so that whatever the
\* server gave to resume it is in it: "if we do false start, we might get reusable
\* session until now" (tls_false_start.cpp, line 241). tls_false_start.cpp has the
\* first response by then, unless that exchange failed; tls_session_ticket.cpp,
\* which takes the session after SSL_connect, never starts early.
KeptSessionFinished ==
  session.of = i + 1 /\ FirstExchangeWell => session.finished

\* Over a kept-alive connection with a server that answers properly every
\* request gets its own response, whatever pieces the responses come in.
KeepAliveInStep ==
  pc \in {"write", "shutdown"} /\ ~peer.faulty => answers = [k \in 1 .. j |-> k]

\* The program runs; nothing is assumed of the server.
LiveSpec == Spec /\ WF_vars(Client)

\* The program waits, in SSL_connect, in a read or in the second SSL_shutdown, for
\* a server that keeps the connection and says nothing.
AwaitsServer ==
  /\ peer.open
  /\ \/ pc = "handshake" /\ ~peer.greeted
     \/ pc \in {"read", "goodbye"} /\ peer.wire = <<>>

\* The program ends, also when reads, writes and goodbyes fail on the way, unless
\* a silent server keeps it waiting for ever: no loop goes on when the connection
\* is over, and the deleters wait for nothing else.
ProgramEnds == <>(pc \in {"exit", "abort", "killed"}) \/ <>[]AwaitsServer
================================================================================

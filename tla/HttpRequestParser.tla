-------------------------- MODULE HttpRequestParser --------------------------
(***************************************************************************)
(* misc/fsmlite_test.cpp: HttpRequestParser_fsm, a table of transitions    *)
(* fed one character at a time, and the loop of main that feeds it.        *)
(*                                                                         *)
(* A text is a sequence of tokens: a word, a digit or a single character.  *)
(* What is fed in one step is a lexeme, a run of characters that all take  *)
(* the same row: a word, or a piece of a header line. Lexemes of several   *)
(* tokens are fed in header lines only, where every row appends; in the    *)
(* body a token stands for one character.                                  *)
(***************************************************************************)
EXTENDS Naturals, Sequences, SequencesExt

CONSTANTS
  MaxField,  \* bound: tokens in the uri and the version fields
  MaxText    \* bound: tokens in the buffer of the header lines

ASSUME ParserAssumption == MaxField \in Nat /\ MaxText \in Nat

SP == <<" ">>
CR == <<"\r">>
LF == <<"\n">>
Words == {"GET", "POST", "HTTP"}    \* HTTP in capitals or not
Digits == [d \in {"0", "2"} |-> IF d = "0" THEN 0 ELSE 2]
Chars == {SP, CR, LF} \cup {<<t>> : t \in Words \cup {"2", "/", "."}}
HeaderNames == {"Host", "Content-Length"}
HeaderTexts == {<<"Host">>, <<"Host", ":", "0">>,
                <<"Content-Length", ":", "0">>, <<"Content-Length", ":", "2">>}

VARIABLES
  state,    \* fsm's current_state
  store,    \* request_.method, request_.uri and temp_
  buffer,   \* which of them buffer_ points to
  headers,  \* request_.headerList, pairs of name and value
  body,     \* request_'s body
  fed       \* the text main has fed so far

vars == <<state, store, buffer, headers, body, fed>>

\* Request is a class of base/http, which is not part of the repository. That a
\* default-constructed one has an empty method, uri and header list is assumed:
\* appendToBuffer adds to them, and with anything else in method no request line,
\* main's own included, would pass isValidMethod.
Init ==
  /\ state = "Start"
  /\ store = [method |-> <<>>, uri |-> <<>>, temp |-> <<>>]
  /\ buffer = "method"
  /\ headers = <<>>
  /\ body = <<>>
  /\ fed = <<>>

-----------------------------------------------------------------------------
\* Checkers. A lexeme is judged by its first character.
isAlpha(c) == Head(c) \in Words \cup HeaderNames
isDigit(c) == Head(c) \in DOMAIN Digits
isSpace(c) == c = SP
isCarryReturn(c) == c = CR
isNewLine(c) == c = LF

isValidMethod(c) == c = SP /\ store.method \in {<<"GET">>, <<"POST">>}
isValidUriChar(c) == c \notin {SP, CR, LF}
isValidHttp(c) == c = <<"/">> /\ store.temp = <<"HTTP">>

\* Both put the number they parse into a copy of request_, which is dropped.
isValidMajor(c) == c = <<".">>
isValidMinor(c) == c = CR

\* std::atoi: the leading digits, zero when there are none. value[n] is what
\* has been read after n characters; nothing counts from the first other on.
Atoi(s) ==
  LET value[n \in 0 .. Len(s)] ==
        IF n = 0 THEN 0
        ELSE IF \A k \in 1 .. n : s[k] \in DOMAIN Digits
             THEN 10 * value[n - 1] + Digits[s[n]]
             ELSE value[n - 1]
  IN  value[Len(s)]

\* headerList.contentLength(): the value of the first header of that name.
contentLength ==
  LET i == SelectInSeq(headers, LAMBDA h : h[1] = <<"Content-Length">>)
  IN  IF i = 0 THEN <<>> ELSE headers[i][2]

isNeedBody(c) ==
  /\ c = LF
  /\ store.method = <<"POST">>
  /\ Atoi(contentLength) > 0

\* Mutant: the character at hand is not counted.
LateMoreBody(c) == Len(store[buffer]) < Atoi(contentLength)

needMoreBody(c) == Len(store[buffer]) + 1 < Atoi(contentLength)

-----------------------------------------------------------------------------
\* Actions: what each does to store, buffer, headers and body.
noAction == UNCHANGED <<store, buffer, headers, body>>

appendToBuffer(c) ==
  /\ store' = [store EXCEPT ![buffer] = @ \o c]
  /\ UNCHANGED <<buffer, headers, body>>

\* Mutant: the method's buffer is kept for the uri.
KeepMethodBuffer == UNCHANGED <<store, buffer, headers, body>>

onMethodFinish ==
  /\ buffer' = "uri"
  /\ UNCHANGED <<store, headers, body>>

\* onUriFinish and the five others that consist of the same two statements.
restartTemp ==
  /\ store' = [store EXCEPT !.temp = <<>>]
  /\ buffer' = "temp"
  /\ UNCHANGED <<headers, body>>

\* Where the line is split: its first colon, zero when it has none.
Colon(line) == SelectInSeq(line, LAMBDA t : t = ":")

\* temp_ is not cleared: the next line is appended to this one.
onHeaderLineFinish ==
  LET line  == store[buffer]
      colon == Colon(line)
      name  == IF colon = 0 THEN line ELSE SubSeq(line, 1, colon - 1)
      value == IF colon = 0 THEN <<>> ELSE SubSeq(line, colon + 1, Len(line))
  IN  /\ headers' = IF name = <<>> THEN headers
                                   ELSE Append(headers, <<name, value>>)
      /\ UNCHANGED <<store, buffer, body>>

onBodyFinish(c) ==
  /\ body' = store[buffer] \o c
  /\ store' = [store EXCEPT ![buffer] = <<>>]
  /\ UNCHANGED <<buffer, headers>>

Do(action, c) ==
  \/ action \in {"noAction", "errorAction"} /\ noAction
  \/ action = "appendToBuffer" /\ appendToBuffer(c)
  \/ action = "onMethodFinish" /\ onMethodFinish
  \/ action \in {"onUriFinish", "onHttpFinish", "onMajorFinish", "onMinorFinish",
                "onHeaderLineStart", "onBodyStart"} /\ restartTemp
  \/ action = "onHeaderLineFinish" /\ onHeaderLineFinish
  \/ action = "onBodyFinish" /\ onBodyFinish(c)

Guard(guard, c) ==
  \/ guard = "noGuard"
  \/ guard = "isAlpha" /\ isAlpha(c)
  \/ guard = "isDigit" /\ isDigit(c)
  \/ guard = "isSpace" /\ isSpace(c)
  \/ guard = "isCarryReturn" /\ isCarryReturn(c)
  \/ guard = "isNewLine" /\ isNewLine(c)
  \/ guard = "isValidMethod" /\ isValidMethod(c)
  \/ guard = "isValidUriChar" /\ isValidUriChar(c)
  \/ guard = "isValidHttp" /\ isValidHttp(c)
  \/ guard = "isValidMajor" /\ isValidMajor(c)
  \/ guard = "isValidMinor" /\ isValidMinor(c)
  \/ guard = "isNeedBody" /\ isNeedBody(c)
  \/ guard = "needMoreBody" /\ needMoreBody(c)

\* Source, target, action, guard; "noGuard" where the code names no guard.
transition_table == <<
  <<"Start", "Method", "appendToBuffer", "isAlpha">>,
  <<"Start", "Error", "errorAction", "noGuard">>,
  <<"Method", "Method", "appendToBuffer", "isAlpha">>,
  <<"Method", "Uri", "onMethodFinish", "isValidMethod">>,
  <<"Method", "Error", "errorAction", "noGuard">>,
  <<"Uri", "Uri", "appendToBuffer", "isValidUriChar">>,
  <<"Uri", "Http", "onUriFinish", "isSpace">>,
  <<"Uri", "Error", "errorAction", "noGuard">>,
  <<"Http", "Http", "appendToBuffer", "isAlpha">>,
  <<"Http", "Major", "onHttpFinish", "isValidHttp">>,
  <<"Http", "Error", "errorAction", "noGuard">>,
  <<"Major", "Major", "appendToBuffer", "isDigit">>,
  <<"Major", "Minor", "onMajorFinish", "isValidMajor">>,
  <<"Major", "Error", "errorAction", "noGuard">>,
  <<"Minor", "Minor", "appendToBuffer", "isDigit">>,
  <<"Minor", "Expecting_newline_1", "onMinorFinish", "isValidMinor">>,
  <<"Minor", "Error", "errorAction", "noGuard">>,
  <<"Expecting_newline_1", "Header_line_start", "onHeaderLineStart", "isNewLine">>,
  <<"Expecting_newline_1", "Error", "errorAction", "noGuard">>,
  <<"Header_line_start", "Expecting_newline_3", "noAction", "isCarryReturn">>,
  <<"Header_line_start", "Header_line", "appendToBuffer", "isAlpha">>,
  <<"Header_line_start", "Error", "errorAction", "noGuard">>,
  <<"Header_line", "Expecting_newline_2", "noAction", "isCarryReturn">>,
  <<"Header_line", "Error", "errorAction", "isNewLine">>,
  <<"Header_line", "Header_line", "appendToBuffer", "noGuard">>,
  <<"Expecting_newline_2", "Header_line_start", "onHeaderLineFinish", "isNewLine">>,
  <<"Expecting_newline_2", "Error", "errorAction", "noGuard">>,
  <<"Expecting_newline_3", "Expecting_body", "onBodyStart", "isNeedBody">>,
  <<"Expecting_newline_3", "Finish", "noAction", "isNewLine">>,
  <<"Expecting_newline_3", "Error", "errorAction", "noGuard">>,
  <<"Expecting_body", "Expecting_body", "appendToBuffer", "needMoreBody">>,
  <<"Expecting_body", "Finish", "onBodyFinish", "noGuard">> >>

\* The first row that applies is taken.
Applies(i, c) ==
  /\ transition_table[i][1] = state
  /\ Guard(transition_table[i][4], c)

process_event(c) ==
  \E i \in DOMAIN transition_table :
    /\ Applies(i, c)
    /\ \A j \in 1 .. i - 1 : ~Applies(j, c)
    /\ state' = transition_table[i][2]
    /\ Do(transition_table[i][3], c)

-----------------------------------------------------------------------------
\* What may come next: the letters of a header line are those of HeaderTexts.
Lexemes ==
  CASE state = "Header_line_start" ->
           HeaderTexts \cup {c \in Chars : Head(c) \notin Words}
    [] state = "Header_line" -> {CR, LF} \cup HeaderTexts
    [] OTHER -> Chars

\* The bounds on what the buffers hold.
Bounded ==
  /\ Len(store.method) + Len(store.uri) <= MaxField + 1
  /\ Len(store.temp) <= IF "\n" \in Range(fed) THEN MaxText ELSE MaxField

\* main's loop: it ends in the states Error and Finish.
Feed ==
  /\ state \notin {"Error", "Finish"}
  /\ \E c \in Lexemes :
       /\ process_event(c)
       /\ fed' = fed \o c
  /\ Bounded'

Next == Feed

Spec == Init /\ [][Next]_vars

-----------------------------------------------------------------------------
\* Where a pattern first starts in what was fed, the part before and the part
\* after.
Occurs(pattern, i) == SubSeq(fed, i, i + Len(pattern) - 1) = pattern
First(pattern, i) ==
  /\ i \in 1 .. Len(fed)
  /\ Occurs(pattern, i)
  /\ \A j \in 1 .. i - 1 : ~Occurs(pattern, j)
At(pattern) == CHOOSE i \in 1 .. Len(fed) : First(pattern, i)
Before(pattern) == SubSeq(fed, 1, At(pattern) - 1)
After(pattern) == SubSeq(fed, At(pattern) + Len(pattern), Len(fed))

\* The length a Content-Length line that starts at position i declares.
Declared(i) ==
  IF i + 1 < Len(fed) /\ fed[i] = "Content-Length" /\ fed[i + 1] = ":"
  THEN Atoi(SubSeq(fed, i + 2, Len(fed)))
  ELSE 0

\* A request the parser accepts reads as its method, its uri and a version:
\* the switches of buffer_ along the rows keep the fields apart, none takes a
\* character of another and none is lost (lines 65-109).
RequestLineRoundTrip ==
  state = "Finish" =>
    /\ store.method \in {<<"GET">>, <<"POST">>}
    /\ \E major, minor \in UNION {[1 .. n -> DOMAIN Digits] : n \in 0 .. MaxField} :
         Before(CR) = store.method \o SP \o store.uri \o SP
                      \o <<"HTTP", "/">> \o major \o <<".">> \o minor

\* The body ends where the length of the first header line says, neither a
\* character early nor late, and holds what follows the blank line; only a
\* POST has one (needMoreBody counts the character at hand, line 140).
BodyMatchesFirstHeader ==
  state = "Finish" =>
    /\ body = After(CR \o LF \o CR \o LF)
    /\ Len(body) = IF store.method = <<"POST">>
                   THEN Declared(At(LF) + 1) ELSE 0

\* main feeds a POST with a Host and a body of two characters (lines 197-200):
\* such a request, its other headers left out, finishes with a body.
PostBodyRead ==
  LET lines == <<"Host", ":", "0", "\r", "\n", "Content-Length", ":", "2", "\r">>
  IN  /\ state = "Finish"
      /\ store.method = <<"POST">>
      /\ IsPrefix(lines, After(CR \o LF))
      => body # <<>>
=============================================================================

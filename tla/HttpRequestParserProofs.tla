----------------------- MODULE HttpRequestParserProofs -----------------------
(***************************************************************************)
(* Proofs about the request parser, for texts of any length: the fields of *)
(* an accepted request line read back as the line, and the body ends where *)
(* the first header line says.                                             *)
(***************************************************************************)
EXTENDS HttpRequestParser, SequenceTheorems, WellFoundedInduction, TLAPS

-----------------------------------------------------------------------------
(***************************************************************************)
(* The inductive invariant: what each state keeps of the text fed so far.  *)
(***************************************************************************)
Token == Words \cup HeaderNames \cup DOMAIN Digits
         \cup {" ", "\r", "\n", "/", ".", ":"}
Text == Seq(Token)

Types ==
  /\ store \in [method : Text, uri : Text, temp : Text]
  /\ buffer \in {"method", "uri", "temp"}
  /\ headers \in Seq(Text \X Text)
  /\ body \in Text
  /\ fed \in Text

\* The states in which the request line is being read.
InLine == {"Start", "Method", "Uri", "Http", "Major", "Minor"}

\* No end of line among the characters of s.
NoBreak(s) == \A k \in 1 .. Len(s) : s[k] \notin {"\r", "\n"}

\* The version fields that the bound allows.
Number == UNION {[1 .. n -> DOMAIN Digits] : n \in 0 .. MaxField}

Target == store.method \o SP \o store.uri
Line(major, minor) ==
  Target \o SP \o <<"HTTP", "/">> \o major \o <<".">> \o minor

\* While the line is read, its fields, put together again, are what was fed.
LineInv ==
  /\ state \in InLine => NoBreak(fed)
  /\ state = "Start" => fed = <<>>
  /\ state \in {"Start", "Method"} =>
       buffer = "method" /\ fed = store.method /\ store.uri = <<>>
  /\ state = "Uri" => buffer = "uri" /\ fed = Target
  /\ state \notin {"Start", "Method", "Uri", "Error"} => buffer = "temp"
  /\ state \notin {"Start", "Method", "Error"} =>
       store.method \in {<<"GET">>, <<"POST">>}
  /\ state = "Http" => fed = Target \o SP \o store.temp
  /\ state = "Major" =>
       fed = Target \o SP \o <<"HTTP", "/">> \o store.temp /\ store.temp \in Number
  /\ state = "Minor" =>
       \E major \in Number : fed = Line(major, store.temp) /\ store.temp \in Number

\* The line ends before position n.
LineAt(n) ==
  /\ fed[n] = "\r"
  /\ \A k \in 1 .. n - 1 : fed[k] \notin {"\r", "\n"}
  /\ \E major, minor \in Number : SubSeq(fed, 1, n - 1) = Line(major, minor)
  /\ state = "Expecting_newline_1" => Len(fed) = n
  /\ state # "Expecting_newline_1" => n < Len(fed) /\ fed[n + 1] = "\n"

\* The end of what was fed, by which the parser tells where it is.
FromEnd(k) == fed[Len(fed) - k]
BlankLine == CR \o LF \o CR \o LF
BlankInv ==
  /\ state \in {"Header_line_start", "Header_line", "Expecting_newline_2",
                "Expecting_newline_3"} =>
       \A i \in 1 .. Len(fed) - 3 : ~Occurs(BlankLine, i)
  /\ state = "Header_line_start" => FromEnd(1) = "\r" /\ FromEnd(0) = "\n"
  /\ state = "Header_line" => FromEnd(0) \notin {"\r", "\n"}
  /\ state = "Expecting_newline_2" => FromEnd(1) \notin {"\r", "\n"} /\ FromEnd(0) = "\r"
  /\ state = "Expecting_newline_3" =>
       FromEnd(2) = "\r" /\ FromEnd(1) = "\n" /\ FromEnd(0) = "\r"

\* How a line of the model's texts may start.
Opens(s) ==
  /\ Len(s) > 0
  /\ \/ s[1] = "Host"
     \/ s[1] = "Content-Length" /\ Len(s) > 1 /\ s[2] = ":"

\* The header lines start at position p. Since temp_ is never cleared between
\* them, the first one alone decides what contentLength() finds.
FirstHeaderAt(p) ==
  \/ /\ fed[p] = "Host"
     /\ \A i \in 1 .. Len(headers) : headers[i][1] # <<"Content-Length">>
  \/ /\ fed[p] = "Content-Length" /\ fed[p + 1] = ":"
     /\ headers[1][1] = <<"Content-Length">>
     /\ \E q \in p + 2 .. Len(fed) :
          fed[q] = "\r" /\ headers[1][2] = SubSeq(fed, p + 2, q - 1)

HeadersAt(p) ==
  /\ headers = <<>> =>
       /\ state # "Expecting_body"
       /\ state = "Header_line_start" => Len(fed) = p - 1 /\ store.temp = <<>>
       /\ state = "Header_line" => SubSeq(fed, p, Len(fed)) = store.temp
       /\ state = "Expecting_newline_2" => SubSeq(fed, p, Len(fed) - 1) = store.temp
       /\ state = "Expecting_newline_3" => Len(fed) = p
       /\ state = "Finish" => p < Len(fed) /\ fed[p] = "\r"
  /\ headers # <<>> =>
       /\ p < Len(fed)
       /\ FirstHeaderAt(p)
       /\ state \in {"Header_line_start", "Header_line", "Expecting_newline_2"} =>
            Len(store.temp) > 0 /\ store.temp[1] = fed[p]
  /\ state \in {"Header_line", "Expecting_newline_2"} => Opens(store.temp)
  /\ state = "Header_line_start" /\ headers # <<>> => Opens(store.temp)

HeaderInv ==
  state \notin InLine \cup {"Error"} =>
    \E n \in 1 .. Len(fed) :
      LineAt(n) /\ (state # "Expecting_newline_1" => HeadersAt(n + 2))

\* The blank line comes once, and the text after it is the body so far.
BodyAfter(text) ==
  \E b \in 1 .. Len(fed) - 3 :
    /\ First(BlankLine, b)
    /\ text = SubSeq(fed, b + 4, Len(fed))

BodyInv ==
  /\ state \in InLine \cup {"Expecting_newline_1"} => headers = <<>>
  /\ state \notin {"Finish", "Error"} => body = <<>>
  /\ state = "Expecting_body" =>
       /\ BodyAfter(store.temp)
       /\ store.method = <<"POST">>
       /\ Len(store.temp) < Atoi(contentLength)
  /\ state = "Finish" =>
       /\ BodyAfter(body)
       /\ Len(body) = IF store.method = <<"POST">> THEN Atoi(contentLength) ELSE 0

IInv == Types /\ Bounded /\ LineInv /\ HeaderInv /\ BlankInv /\ BodyInv
-----------------------------------------------------------------------------
(***************************************************************************)
(* Least elements, and what std::atoi reads.                               *)
(***************************************************************************)
Less == OpToRel(<, Nat)

\* The library's relation, as a set of pairs.
LEMMA LessIsLess == Less = {ss \in Nat \X Nat : ss[1] < ss[2]}
BY Zenon DEF Less, OpToRel

\* A set of naturals that is not empty has a least element.
LEMMA LeastElement ==
  ASSUME NEW S \in SUBSET Nat, S # {}
  PROVE  Min(S) \in S /\ \A k \in S : Min(S) <= k
<1>1. \E m \in S : \A k \in S : ~(<<k, m>> \in Less)
  BY NatLessThanWellFounded, WFMin DEF Less
<1>2. PICK m \in S : \A k \in S : ~(<<k, m>> \in Less)
  BY <1>1
<1>3. ASSUME NEW k \in S PROVE m <= k
  <2>1. k < m => <<k, m>> \in {ss \in Nat \X Nat : ss[1] < ss[2]}
    OBVIOUS
  <2>2. ~(<<k, m>> \in {ss \in Nat \X Nat : ss[1] < ss[2]})
    BY <1>2, LessIsLess, Zenon
  <2>3. ~(k < m)
    BY <2>1, <2>2, Zenon
  <2> QED
    BY <2>3
<1> QED
  BY <1>3 DEF Min

\* Induction on a set: what holds at zero and is handed on holds up to N.
LEMMA UpTo ==
  ASSUME NEW N \in Nat, NEW S, 0 \in S,
         \A n \in 0 .. N - 1 : n \in S => n + 1 \in S
  PROVE  0 .. N \subseteq S
<1> DEFINE Bad == {n \in 0 .. N : n \notin S}
<1>1. SUFFICES ASSUME Bad # {} PROVE FALSE
  OBVIOUS
<1>2. Bad \in SUBSET Nat
  OBVIOUS
<1>3. PICK m \in Bad : \A k \in Bad : m <= k
  BY <1>1, <1>2, LeastElement
<1>4. m # 0 /\ m \in 1 .. N /\ m - 1 \in 0 .. N - 1
  BY <1>3
<1>5. m - 1 \in S
  BY <1>3, <1>4
<1> QED
  BY <1>3, <1>4, <1>5

\* The equation of the values that std::atoi passes through when it reads s.
Reads(s, f) ==
  f = [n \in 0 .. Len(s) |->
         IF n = 0 THEN 0
         ELSE IF \A k \in 1 .. n : s[k] \in DOMAIN Digits
              THEN 10 * f[n - 1] + Digits[s[n]]
              ELSE f[n - 1]]

\* The equation has a solution for every text.
LEMMA ReadsExists ==
  ASSUME NEW s \in Text
  PROVE  \E f : Reads(s, f)
<1> DEFINE Step(g, n) == IF \A k \in 1 .. n : s[k] \in DOMAIN Digits
                         THEN 10 * g[n - 1] + Digits[s[n]]
                         ELSE g[n - 1]
           Sol(n, g) == /\ g = [k \in 0 .. n |-> g[k]]
                        /\ g[0] = 0
                        /\ \A k \in 1 .. n : g[k] = Step(g, k)
           S == {n \in 0 .. Len(s) : \E g : Sol(n, g)}
<1>0. Len(s) \in Nat
  BY DEF Text
<1>1. 0 \in S
  <2>1. Sol(0, [k \in 0 .. 0 |-> 0])
    OBVIOUS
  <2>2. 0 \in 0 .. Len(s)
    BY <1>0
  <2> HIDE DEF Sol
  <2> QED
    BY <2>1, <2>2
<1>2. ASSUME NEW n \in 0 .. Len(s) - 1, n \in S
      PROVE  n + 1 \in S
  <2>1. PICK g : Sol(n, g)
    BY <1>2
  <2> DEFINE h == [k \in 0 .. n + 1 |-> IF k = n + 1 THEN Step(g, n + 1) ELSE g[k]]
  <2>2. h[0] = 0 /\ h = [k \in 0 .. n + 1 |-> h[k]]
    BY <2>1
  <2>3. \A k \in 0 .. n : h[k] = g[k]
    OBVIOUS
  <2>4. h[n + 1] = Step(g, n + 1)
    OBVIOUS
  <2> HIDE DEF h
  <2>5. ASSUME NEW k \in 1 .. n + 1 PROVE h[k] = Step(h, k)
    <3>1. k - 1 \in 0 .. n
      OBVIOUS
    <3>2. h[k - 1] = g[k - 1]
      BY <2>3, <3>1
    <3>3. k # n + 1 => k \in 1 .. n /\ k \in 0 .. n
      OBVIOUS
    <3>4. k # n + 1 => h[k] = Step(g, k)
      BY <2>1, <2>3, <3>3
    <3>5. k = n + 1 => h[k] = Step(g, k)
      BY <2>4
    <3> QED
      BY <3>2, <3>4, <3>5
  <2>6. Sol(n + 1, h)
    BY <2>2, <2>5
  <2> HIDE DEF Sol
  <2> QED
    BY <2>6
<1>3. Len(s) \in S
  <2> HIDE DEF S
  <2>1. 0 .. Len(s) \subseteq S
    BY <1>0, <1>1, <1>2, UpTo
  <2>2. Len(s) \in 0 .. Len(s)
    BY <1>0
  <2> QED
    BY <2>1, <2>2
<1>4. PICK g : Sol(Len(s), g)
  BY <1>3
<1>5. Reads(s, g)
  BY <1>4 DEF Reads
<1> QED
  BY <1>5

\* Atoi follows the equation.
LEMMA AtoiReads ==
  ASSUME NEW s \in Text
  PROVE  \E f : Reads(s, f) /\ Atoi(s) = f[Len(s)]
<1> DEFINE v == CHOOSE f : Reads(s, f)
<1>1. Reads(s, v)
  BY ReadsExists, Zenon
<1>2. Atoi(s) = v[Len(s)]
  BY DEF Atoi, Reads
<1> QED
  BY <1>1, <1>2

\* What it passes through are naturals.
LEMMA ReadsNat ==
  ASSUME NEW s \in Text, NEW f, Reads(s, f)
  PROVE  \A n \in 0 .. Len(s) : f[n] \in Nat
<1> DEFINE S == {n \in 0 .. Len(s) : f[n] \in Nat}
<1>0. Len(s) \in Nat
  BY DEF Text
<1>1. 0 \in S
  BY <1>0 DEF Reads
<1>2. ASSUME NEW n \in 0 .. Len(s) - 1, n \in S
      PROVE  n + 1 \in S
  <2>1. f[n + 1] = IF \A k \in 1 .. n + 1 : s[k] \in DOMAIN Digits
                   THEN 10 * f[n] + Digits[s[n + 1]] ELSE f[n]
    BY <1>0 DEF Reads
  <2>2. s[n + 1] \in DOMAIN Digits => Digits[s[n + 1]] \in Nat
    BY DEF Digits
  <2> QED
    BY <1>0, <1>2, <2>1, <2>2
<1> HIDE DEF S
<1>3. 0 .. Len(s) \subseteq S
  BY <1>0, <1>1, <1>2, UpTo
<1> QED
  BY <1>3 DEF S

\* std::atoi of a text is a natural number, and zero of the empty text.
LEMMA AtoiNat ==
  ASSUME NEW s \in Text
  PROVE  Atoi(s) \in Nat /\ (s = <<>> => Atoi(s) = 0)
<1>1. PICK f : Reads(s, f) /\ Atoi(s) = f[Len(s)]
  BY AtoiReads
<1>2. Len(s) \in Nat
  BY DEF Text
<1>3. f[Len(s)] \in Nat
  BY <1>1, <1>2, ReadsNat
<1>4. f[0] = 0
  BY <1>1, <1>2 DEF Reads
<1> QED
  BY <1>1, <1>3, <1>4

\* std::atoi stops at the first character that is not a digit: what follows
\* it does not matter.
LEMMA AtoiStops ==
  ASSUME NEW s \in Text, NEW t \in Text, Len(s) < Len(t),
         \A k \in 1 .. Len(s) : t[k] = s[k],
         t[Len(s) + 1] \notin DOMAIN Digits
  PROVE  Atoi(t) = Atoi(s)
<1>0. Len(s) \in Nat /\ Len(t) \in Nat
  BY DEF Text
<1>1. PICK f : Reads(s, f) /\ Atoi(s) = f[Len(s)]
  BY AtoiReads
<1>2. PICK g : Reads(t, g) /\ Atoi(t) = g[Len(t)]
  BY AtoiReads
<1> DEFINE S == {n \in 0 .. Len(s) : g[n] = f[n]}
           T == {n \in Nat : Len(s) + n <= Len(t) => g[Len(s) + n] = g[Len(s)]}
<1>3. 0 \in S
  BY <1>0, <1>1, <1>2 DEF Reads
<1>4. ASSUME NEW n \in 0 .. Len(s) - 1, n \in S
      PROVE  n + 1 \in S
  <2>1. f[n + 1] = IF \A k \in 1 .. n + 1 : s[k] \in DOMAIN Digits
                   THEN 10 * f[n] + Digits[s[n + 1]] ELSE f[n]
    BY <1>0, <1>1 DEF Reads
  <2>2. g[n + 1] = IF \A k \in 1 .. n + 1 : t[k] \in DOMAIN Digits
                   THEN 10 * g[n] + Digits[t[n + 1]] ELSE g[n]
    <3>1. n + 1 \in 0 .. Len(t) /\ n + 1 # 0 /\ (n + 1) - 1 = n
      BY <1>0
    <3> QED
      BY <1>2, <3>1 DEF Reads
  <2>3. \A k \in 1 .. n + 1 : t[k] = s[k]
    BY <1>0
  <2>4. g[n] = f[n] /\ t[n + 1] = s[n + 1]
    BY <1>4, <2>3
  <2> QED
    BY <1>0, <2>1, <2>2, <2>3, <2>4
<1>5. g[Len(s)] = f[Len(s)]
  <2> HIDE DEF S
  <2>1. 0 .. Len(s) \subseteq S
    BY <1>0, <1>3, <1>4, UpTo
  <2> QED
    BY <1>0, <2>1 DEF S
<1>6. 0 \in T
  BY <1>0
<1>7. ASSUME NEW n \in 0 .. Len(t) - Len(s) - 1, n \in T
      PROVE  n + 1 \in T
  <2>1. Len(s) + (n + 1) \in 1 .. Len(t) /\ Len(s) + n \in 0 .. Len(t)
    BY <1>0
  <2>2. Len(s) + 1 \in 1 .. Len(s) + (n + 1)
    BY <1>0
  <2>3. ~(\A k \in 1 .. Len(s) + (n + 1) : t[k] \in DOMAIN Digits)
    BY <2>2
  <2>4. (Len(s) + (n + 1)) - 1 = Len(s) + n
    BY <1>0
  <2>5. g[Len(s) + (n + 1)] = g[Len(s) + n]
    <3> DEFINE m == Len(s) + (n + 1)
    <3>1. m \in 0 .. Len(t) /\ m # 0 /\ m - 1 = Len(s) + n
      BY <1>0
    <3>2. ~(\A k \in 1 .. m : t[k] \in DOMAIN Digits)
      BY <2>3
    <3> HIDE DEF m
    <3>3. g[m] = g[m - 1]
      BY <1>2, <3>1, <3>2 DEF Reads
    <3> QED
      BY <3>1, <3>3 DEF m
  <2> QED
    BY <1>0, <1>7, <2>1, <2>5
<1>8. g[Len(t)] = g[Len(s)]
  <2> HIDE DEF T
  <2>1. Len(t) - Len(s) \in Nat
    BY <1>0
  <2>2. 0 .. Len(t) - Len(s) \subseteq T
    BY <1>6, <1>7, <2>1, UpTo
  <2>3. Len(t) - Len(s) \in T
    BY <2>1, <2>2
  <2>4. Len(s) + (Len(t) - Len(s)) = Len(t)
    BY <1>0
  <2> QED
    BY <1>0, <2>3, <2>4 DEF T
<1> QED
  BY <1>1, <1>2, <1>5, <1>8
-----------------------------------------------------------------------------
(***************************************************************************)
(* The rows of the table, one by one.                                      *)
(***************************************************************************)
\* A step from one state to another.
Row(from, to, guard, action) == state = from /\ guard /\ state' = to /\ action

\* The rows but those that lead to Error.
Taken(c) ==
  \/ Row("Start", "Method", isAlpha(c), appendToBuffer(c))
  \/ Row("Method", "Method", isAlpha(c), appendToBuffer(c))
  \/ Row("Method", "Uri", isValidMethod(c), onMethodFinish)
  \/ Row("Uri", "Uri", isValidUriChar(c), appendToBuffer(c))
  \/ Row("Uri", "Http", isSpace(c), restartTemp)
  \/ Row("Http", "Http", isAlpha(c), appendToBuffer(c))
  \/ Row("Http", "Major", isValidHttp(c), restartTemp)
  \/ Row("Major", "Major", isDigit(c), appendToBuffer(c))
  \/ Row("Major", "Minor", isValidMajor(c), restartTemp)
  \/ Row("Minor", "Minor", isDigit(c), appendToBuffer(c))
  \/ Row("Minor", "Expecting_newline_1", isValidMinor(c), restartTemp)
  \/ Row("Expecting_newline_1", "Header_line_start", isNewLine(c), restartTemp)
  \/ Row("Header_line_start", "Expecting_newline_3", isCarryReturn(c), noAction)
  \/ Row("Header_line_start", "Header_line", isAlpha(c), appendToBuffer(c))
  \/ Row("Header_line", "Expecting_newline_2", isCarryReturn(c), noAction)
  \/ Row("Header_line", "Header_line", ~isCarryReturn(c) /\ ~isNewLine(c), appendToBuffer(c))
  \/ Row("Expecting_newline_2", "Header_line_start", isNewLine(c), onHeaderLineFinish)
  \/ Row("Expecting_newline_3", "Expecting_body", isNeedBody(c), restartTemp)
  \/ Row("Expecting_newline_3", "Finish", isNewLine(c) /\ ~isNeedBody(c), noAction)
  \/ Row("Expecting_body", "Expecting_body", needMoreBody(c), appendToBuffer(c))
  \/ Row("Expecting_body", "Finish", ~needMoreBody(c), onBodyFinish(c))
  \/ state' = "Error" /\ noAction

\* The first row that applies is one of these, or one that leads to Error.
LEMMA FirstRow ==
  ASSUME NEW c, process_event(c)
  PROVE  Taken(c)
<1>1. PICK i \in DOMAIN transition_table :
        /\ Applies(i, c)
        /\ \A j \in 1 .. i - 1 : ~Applies(j, c)
        /\ state' = transition_table[i][2]
        /\ Do(transition_table[i][3], c)
  BY DEF process_event
<1>2. i \in 1 .. 32
  BY DEF transition_table
<1> DEFINE r == transition_table[i]
<1>0. state = r[1] /\ Guard(r[4], c) /\ state' = r[2] /\ Do(r[3], c)
  BY <1>1 DEF Applies
<1> HIDE DEF r
<1>3. CASE i = 1
  <2>1. r = <<"Start", "Method", "appendToBuffer", "isAlpha">>
    BY <1>3 DEF transition_table, r
  <2> QED
    BY <1>0, <2>1 DEF Guard, Do, Taken, Row
<1>4. CASE i = 2
  <2>1. r = <<"Start", "Error", "errorAction", "noGuard">>
    BY <1>4 DEF transition_table, r
  <2> QED
    BY <1>0, <2>1 DEF Guard, Do, Taken, Row
<1>5. CASE i = 3
  <2>1. r = <<"Method", "Method", "appendToBuffer", "isAlpha">>
    BY <1>5 DEF transition_table, r
  <2> QED
    BY <1>0, <2>1 DEF Guard, Do, Taken, Row
<1>6. CASE i = 4
  <2>1. r = <<"Method", "Uri", "onMethodFinish", "isValidMethod">>
    BY <1>6 DEF transition_table, r
  <2> QED
    BY <1>0, <2>1 DEF Guard, Do, Taken, Row
<1>7. CASE i = 5
  <2>1. r = <<"Method", "Error", "errorAction", "noGuard">>
    BY <1>7 DEF transition_table, r
  <2> QED
    BY <1>0, <2>1 DEF Guard, Do, Taken, Row
<1>8. CASE i = 6
  <2>1. r = <<"Uri", "Uri", "appendToBuffer", "isValidUriChar">>
    BY <1>8 DEF transition_table, r
  <2> QED
    BY <1>0, <2>1 DEF Guard, Do, Taken, Row
<1>9. CASE i = 7
  <2>1. r = <<"Uri", "Http", "onUriFinish", "isSpace">>
    BY <1>9 DEF transition_table, r
  <2> QED
    BY <1>0, <2>1 DEF Guard, Do, Taken, Row
<1>10. CASE i = 8
  <2>1. r = <<"Uri", "Error", "errorAction", "noGuard">>
    BY <1>10 DEF transition_table, r
  <2> QED
    BY <1>0, <2>1 DEF Guard, Do, Taken, Row
<1>11. CASE i = 9
  <2>1. r = <<"Http", "Http", "appendToBuffer", "isAlpha">>
    BY <1>11 DEF transition_table, r
  <2> QED
    BY <1>0, <2>1 DEF Guard, Do, Taken, Row
<1>12. CASE i = 10
  <2>1. r = <<"Http", "Major", "onHttpFinish", "isValidHttp">>
    BY <1>12 DEF transition_table, r
  <2> QED
    BY <1>0, <2>1 DEF Guard, Do, Taken, Row
<1>13. CASE i = 11
  <2>1. r = <<"Http", "Error", "errorAction", "noGuard">>
    BY <1>13 DEF transition_table, r
  <2> QED
    BY <1>0, <2>1 DEF Guard, Do, Taken, Row
<1>14. CASE i = 12
  <2>1. r = <<"Major", "Major", "appendToBuffer", "isDigit">>
    BY <1>14 DEF transition_table, r
  <2> QED
    BY <1>0, <2>1 DEF Guard, Do, Taken, Row
<1>15. CASE i = 13
  <2>1. r = <<"Major", "Minor", "onMajorFinish", "isValidMajor">>
    BY <1>15 DEF transition_table, r
  <2> QED
    BY <1>0, <2>1 DEF Guard, Do, Taken, Row
<1>16. CASE i = 14
  <2>1. r = <<"Major", "Error", "errorAction", "noGuard">>
    BY <1>16 DEF transition_table, r
  <2> QED
    BY <1>0, <2>1 DEF Guard, Do, Taken, Row
<1>17. CASE i = 15
  <2>1. r = <<"Minor", "Minor", "appendToBuffer", "isDigit">>
    BY <1>17 DEF transition_table, r
  <2> QED
    BY <1>0, <2>1 DEF Guard, Do, Taken, Row
<1>18. CASE i = 16
  <2>1. r = <<"Minor", "Expecting_newline_1", "onMinorFinish", "isValidMinor">>
    BY <1>18 DEF transition_table, r
  <2> QED
    BY <1>0, <2>1 DEF Guard, Do, Taken, Row
<1>19. CASE i = 17
  <2>1. r = <<"Minor", "Error", "errorAction", "noGuard">>
    BY <1>19 DEF transition_table, r
  <2> QED
    BY <1>0, <2>1 DEF Guard, Do, Taken, Row
<1>20. CASE i = 18
  <2>1. r = <<"Expecting_newline_1", "Header_line_start", "onHeaderLineStart", "isNewLine">>
    BY <1>20 DEF transition_table, r
  <2> QED
    BY <1>0, <2>1 DEF Guard, Do, Taken, Row
<1>21. CASE i = 19
  <2>1. r = <<"Expecting_newline_1", "Error", "errorAction", "noGuard">>
    BY <1>21 DEF transition_table, r
  <2> QED
    BY <1>0, <2>1 DEF Guard, Do, Taken, Row
<1>22. CASE i = 20
  <2>1. r = <<"Header_line_start", "Expecting_newline_3", "noAction", "isCarryReturn">>
    BY <1>22 DEF transition_table, r
  <2> QED
    BY <1>0, <2>1 DEF Guard, Do, Taken, Row
<1>23. CASE i = 21
  <2>1. r = <<"Header_line_start", "Header_line", "appendToBuffer", "isAlpha">>
    BY <1>23 DEF transition_table, r
  <2> QED
    BY <1>0, <2>1 DEF Guard, Do, Taken, Row
<1>24. CASE i = 22
  <2>1. r = <<"Header_line_start", "Error", "errorAction", "noGuard">>
    BY <1>24 DEF transition_table, r
  <2> QED
    BY <1>0, <2>1 DEF Guard, Do, Taken, Row
<1>25. CASE i = 23
  <2>1. r = <<"Header_line", "Expecting_newline_2", "noAction", "isCarryReturn">>
    BY <1>25 DEF transition_table, r
  <2> QED
    BY <1>0, <2>1 DEF Guard, Do, Taken, Row
<1>26. CASE i = 24
  <2>1. r = <<"Header_line", "Error", "errorAction", "isNewLine">>
    BY <1>26 DEF transition_table, r
  <2> QED
    BY <1>0, <2>1 DEF Guard, Do, Taken, Row
<1>27. CASE i = 25
  <2>1. Applies(25, c) /\ ~Applies(23, c) /\ ~Applies(24, c)
    BY <1>1, <1>27
  <2>2. /\ transition_table[23][1] = "Header_line" /\ transition_table[23][4] = "isCarryReturn"
        /\ transition_table[24][1] = "Header_line" /\ transition_table[24][4] = "isNewLine"
        /\ transition_table[25][1] = "Header_line" /\ transition_table[25][2] = "Header_line"
        /\ transition_table[25][3] = "appendToBuffer"
    BY DEF transition_table
  <2>3. state = "Header_line" /\ state' = "Header_line"
    BY <1>1, <1>27, <2>1, <2>2 DEF Applies
  <2>4. ~Guard("isCarryReturn", c) /\ ~Guard("isNewLine", c)
    BY <2>1, <2>2, <2>3 DEF Applies
  <2>5. ~isCarryReturn(c) /\ ~isNewLine(c)
    BY <2>4 DEF Guard
  <2>6. appendToBuffer(c)
    BY <1>1, <1>27, <2>2 DEF Do
  <2> QED
    BY <2>3, <2>5, <2>6 DEF Taken, Row
<1>28. CASE i = 26
  <2>1. r = <<"Expecting_newline_2", "Header_line_start", "onHeaderLineFinish", "isNewLine">>
    BY <1>28 DEF transition_table, r
  <2> QED
    BY <1>0, <2>1 DEF Guard, Do, Taken, Row
<1>29. CASE i = 27
  <2>1. r = <<"Expecting_newline_2", "Error", "errorAction", "noGuard">>
    BY <1>29 DEF transition_table, r
  <2> QED
    BY <1>0, <2>1 DEF Guard, Do, Taken, Row
<1>30. CASE i = 28
  <2>1. r = <<"Expecting_newline_3", "Expecting_body", "onBodyStart", "isNeedBody">>
    BY <1>30 DEF transition_table, r
  <2> QED
    BY <1>0, <2>1 DEF Guard, Do, Taken, Row
<1>31. CASE i = 29
  <2>1. Applies(29, c) /\ ~Applies(28, c)
    BY <1>1, <1>31
  <2>2. /\ transition_table[28][1] = "Expecting_newline_3" /\ transition_table[28][4] = "isNeedBody"
        /\ transition_table[29][1] = "Expecting_newline_3" /\ transition_table[29][2] = "Finish"
        /\ transition_table[29][3] = "noAction" /\ transition_table[29][4] = "isNewLine"
    BY DEF transition_table
  <2>3. state = "Expecting_newline_3" /\ state' = "Finish" /\ Guard("isNewLine", c)
    BY <1>1, <1>31, <2>1, <2>2 DEF Applies
  <2>4. ~Guard("isNeedBody", c)
    BY <2>1, <2>2, <2>3 DEF Applies
  <2>5. isNewLine(c) /\ ~isNeedBody(c)
    BY <2>3, <2>4 DEF Guard
  <2>6. noAction
    BY <1>1, <1>31, <2>2 DEF Do
  <2> QED
    BY <2>3, <2>5, <2>6 DEF Taken, Row
<1>32. CASE i = 30
  <2>1. r = <<"Expecting_newline_3", "Error", "errorAction", "noGuard">>
    BY <1>32 DEF transition_table, r
  <2> QED
    BY <1>0, <2>1 DEF Guard, Do, Taken, Row
<1>33. CASE i = 31
  <2>1. r = <<"Expecting_body", "Expecting_body", "appendToBuffer", "needMoreBody">>
    BY <1>33 DEF transition_table, r
  <2> QED
    BY <1>0, <2>1 DEF Guard, Do, Taken, Row
<1>34. CASE i = 32
  <2>1. Applies(32, c) /\ ~Applies(31, c)
    BY <1>1, <1>34
  <2>2. /\ transition_table[31][1] = "Expecting_body" /\ transition_table[31][4] = "needMoreBody"
        /\ transition_table[32][1] = "Expecting_body" /\ transition_table[32][2] = "Finish"
        /\ transition_table[32][3] = "onBodyFinish"
    BY DEF transition_table
  <2>3. state = "Expecting_body" /\ state' = "Finish"
    BY <1>1, <1>34, <2>1, <2>2 DEF Applies
  <2>4. ~needMoreBody(c)
    BY <2>1, <2>2, <2>3 DEF Applies, Guard
  <2>5. onBodyFinish(c)
    BY <1>1, <1>34, <2>2 DEF Do
  <2> QED
    BY <2>3, <2>4, <2>5 DEF Taken, Row
<1> QED
  BY <1>2, <1>3, <1>4, <1>5, <1>6, <1>7, <1>8, <1>9, <1>10, <1>11, <1>12, <1>13,
     <1>14, <1>15, <1>16, <1>17, <1>18, <1>19, <1>20, <1>21, <1>22,
     <1>23, <1>24, <1>25, <1>26, <1>27, <1>28, <1>29, <1>30, <1>31,
     <1>32, <1>33, <1>34

\* What one step of main's loop feeds.
Fed(c) == c \in Lexemes /\ fed' = fed \o c /\ Bounded'

\* A sequence of length one.
LEMMA OneElement ==
  ASSUME NEW S, NEW s \in Seq(S), Len(s) = 1
  PROVE  s = <<s[1]>>
<1>1. s[1] \in S
  OBVIOUS
<1>2. <<s[1]>> \in Seq(S) /\ Len(<<s[1]>>) = 1
  BY <1>1
<1>3. \A k \in 1 .. Len(s) : s[k] = <<s[1]>>[k]
  OBVIOUS
<1> QED
  BY <1>2, <1>3, SeqEqual

\* A single character is a text of one token.
LEMMA CharText ==
  ASSUME NEW c \in Chars
  PROVE  c \in Text /\ Len(c) = 1 /\ Head(c) = c[1] /\ c = <<c[1]>> /\ c[1] \in Token
<1>1. PICK t \in Token : c = <<t>>
  BY DEF Chars, Token, SP, CR, LF, Words, Digits
<1> QED
  BY <1>1 DEF Text

\* A piece of a header line opens one, and has no end of line.
LEMMA PieceText ==
  ASSUME NEW c \in HeaderTexts
  PROVE  c \in Text /\ Opens(c) /\ NoBreak(c) /\ Head(c) = c[1]
<1>1. {"Host", "Content-Length", ":", "0", "2"} \subseteq Token
  BY DEF Token, HeaderNames, Digits
<1>2. CASE c = <<"Host">>
  BY <1>1, <1>2 DEF Text, Opens, NoBreak
<1>3. CASE c = <<"Host", ":", "0">>
  BY <1>1, <1>3 DEF Text, Opens, NoBreak
<1>4. CASE c = <<"Content-Length", ":", "0">>
  BY <1>1, <1>4 DEF Text, Opens, NoBreak
<1>5. CASE c = <<"Content-Length", ":", "2">>
  BY <1>1, <1>5 DEF Text, Opens, NoBreak
<1> QED
  BY <1>2, <1>3, <1>4, <1>5 DEF HeaderTexts

\* What is fed is a text that is not empty, a character but in header lines.
LEMMA LexemeText ==
  ASSUME NEW c \in Lexemes
  PROVE  /\ c \in Text /\ Len(c) > 0
         /\ state \notin {"Header_line_start", "Header_line"} => c \in Chars
         /\ c \in Chars \cup HeaderTexts
<1>1. c \in Chars \cup HeaderTexts
  BY DEF Lexemes, Chars
<1>2. state \notin {"Header_line_start", "Header_line"} => c \in Chars
  BY DEF Lexemes
<1> QED
  BY <1>1, <1>2, CharText, PieceText DEF Opens

\* The first colon of a line, if there is one.
LEMMA ColonIs ==
  ASSUME NEW line \in Text
  PROVE  \/ Colon(line) = 0 /\ \A k \in 1 .. Len(line) : line[k] # ":"
         \/ /\ Colon(line) \in 1 .. Len(line) /\ line[Colon(line)] = ":"
            /\ \A k \in 1 .. Colon(line) - 1 : line[k] # ":"
<1> DEFINE I == {i \in 1 .. Len(line) : line[i] = ":"}
<1>1. Colon(line) = IF I # {} THEN Min(I) ELSE 0
  BY DEF Colon, SelectInSeq
<1>2. I \in SUBSET Nat
  OBVIOUS
<1> HIDE DEF I
<1>3. I # {} => Min(I) \in I /\ \A k \in I : Min(I) <= k
  BY <1>2, LeastElement
<1>4. CASE I = {}
  BY <1>1, <1>4 DEF I
<1>5. CASE I # {}
  <2>1. Colon(line) \in I /\ \A k \in I : Colon(line) <= k
    BY <1>1, <1>3, <1>5
  <2>2. Colon(line) \in 1 .. Len(line) /\ line[Colon(line)] = ":"
    BY <2>1 DEF I
  <2>3. \A k \in 1 .. Colon(line) - 1 : k \notin I
    BY <2>1, <2>2
  <2>4. Len(line) \in Nat
    BY DEF Text
  <2>5. \A k \in 1 .. Colon(line) - 1 : line[k] # ":"
    BY <2>2, <2>3, <2>4 DEF I
  <2> QED
    BY <2>2, <2>5
<1> QED
  BY <1>4, <1>5

\* The name and the value a line is split into.
Name(line) == IF Colon(line) = 0 THEN line ELSE SubSeq(line, 1, Colon(line) - 1)
Value(line) == IF Colon(line) = 0 THEN <<>>
               ELSE SubSeq(line, Colon(line) + 1, Len(line))

\* Both are texts, and a line that opens as the model's lines do has a name:
\* Content-Length when it opens with that and a colon, else another.
LEMMA NameIs ==
  ASSUME NEW line \in Text
  PROVE  /\ Name(line) \in Text /\ Value(line) \in Text
         /\ Opens(line) /\ line[1] = "Host" =>
              Name(line) # <<>> /\ Name(line) # <<"Content-Length">>
         /\ Opens(line) /\ line[1] # "Host" =>
              /\ Name(line) = <<"Content-Length">>
              /\ Value(line) = SubSeq(line, 3, Len(line))
<1>1. Len(line) \in Nat
  BY DEF Text
<1>2. Name(line) \in Text /\ Value(line) \in Text
  BY <1>1, ColonIs DEF Text, Name, Value
<1>3. ASSUME Len(line) > 0, line[1] = "Host"
      PROVE  Name(line) # <<>> /\ Name(line) # <<"Content-Length">>
  <2>1. Len(Name(line)) > 0 /\ Name(line)[1] = "Host"
    BY <1>1, <1>3, ColonIs DEF Text, Name
  <2> QED
    BY <2>1
<1>4. ASSUME Len(line) > 1, line[1] = "Content-Length", line[2] = ":"
      PROVE  /\ Name(line) = <<"Content-Length">>
             /\ Value(line) = SubSeq(line, 3, Len(line))
  <2>1. Colon(line) = 2
    BY <1>1, <1>4, ColonIs
  <2>2. SubSeq(line, 1, 1) = <<line[1]>>
    <3>1. SubSeq(line, 1, 1) \in Seq(Token) /\ Len(SubSeq(line, 1, 1)) = 1
      BY <1>1, <1>4 DEF Text
    <3>2. SubSeq(line, 1, 1)[1] = line[1]
      BY <1>1, <1>4 DEF Text
    <3>3. SubSeq(line, 1, 1) = <<SubSeq(line, 1, 1)[1]>>
      BY <3>1, OneElement
    <3> QED
      BY <3>2, <3>3
  <2> QED
    BY <1>4, <2>1, <2>2 DEF Name, Value
<1> QED
  BY <1>2, <1>3, <1>4 DEF Opens

\* The header the code adds when a line ends.
LEMMA LineFinish ==
  ASSUME onHeaderLineFinish
  PROVE  headers' = IF Name(store[buffer]) = <<>> THEN headers
                    ELSE Append(headers, <<Name(store[buffer]), Value(store[buffer])>>)
BY DEF onHeaderLineFinish, Name, Value
-----------------------------------------------------------------------------
(***************************************************************************)
(* Types, and what the actions leave in the store.                         *)
(***************************************************************************)
\* A character is appended to the field that buffer_ points to.
LEMMA StoreAppend ==
  ASSUME Types, NEW c \in Text, appendToBuffer(c)
  PROVE  /\ store' \in [method : Text, uri : Text, temp : Text]
         /\ store'.method = IF buffer = "method" THEN store.method \o c ELSE store.method
         /\ store'.uri = IF buffer = "uri" THEN store.uri \o c ELSE store.uri
         /\ store'.temp = IF buffer = "temp" THEN store.temp \o c ELSE store.temp
<1>1. store.method \in Text /\ store.uri \in Text /\ store.temp \in Text
  BY DEF Types
<1>2. store.method \o c \in Text /\ store.uri \o c \in Text /\ store.temp \o c \in Text
  BY <1>1 DEF Text
<1>3. CASE buffer = "method"
  BY <1>1, <1>2, <1>3 DEF Types, appendToBuffer
<1>4. CASE buffer = "uri"
  BY <1>1, <1>2, <1>4 DEF Types, appendToBuffer
<1>5. CASE buffer = "temp"
  BY <1>1, <1>2, <1>5 DEF Types, appendToBuffer
<1> QED
  BY <1>3, <1>4, <1>5 DEF Types

\* temp_ is cleared and nothing else.
LEMMA StoreRestart ==
  ASSUME Types, restartTemp
  PROVE  /\ store' \in [method : Text, uri : Text, temp : Text]
         /\ store'.method = store.method /\ store'.uri = store.uri
         /\ store'.temp = <<>>
<1>1. <<>> \in Text
  BY DEF Text
<1> QED
  BY <1>1 DEF Types, restartTemp

\* The body is taken out of temp_.
LEMMA StoreBody ==
  ASSUME Types, buffer = "temp", NEW c \in Text, onBodyFinish(c)
  PROVE  /\ store' \in [method : Text, uri : Text, temp : Text]
         /\ store'.method = store.method /\ store'.uri = store.uri
         /\ body' = store.temp \o c /\ body' \in Text
<1>1. <<>> \in Text
  BY DEF Text
<1>2. store.temp \in Text
  BY DEF Types
<1>3. store.temp \o c \in Text
  BY <1>2 DEF Text
<1> QED
  BY <1>1, <1>3 DEF Types, onBodyFinish

\* Every step keeps the types.
LEMMA TypesNext ==
  ASSUME Types, LineInv, NEW c, Fed(c), Taken(c)
  PROVE  Types'
<1>1. c \in Text
  BY LexemeText DEF Fed
<1>2. fed' \in Text
  BY <1>1 DEF Fed, Types, Text
<1>3. CASE appendToBuffer(c)
  BY <1>1, <1>2, <1>3, StoreAppend DEF Types, appendToBuffer
<1>4. CASE restartTemp
  BY <1>2, <1>4, StoreRestart DEF Types, restartTemp
<1>5. CASE onMethodFinish
  BY <1>2, <1>5 DEF Types, onMethodFinish
<1>6. CASE noAction
  BY <1>2, <1>6 DEF Types, noAction
<1>7. CASE onHeaderLineFinish
  <2>1. store[buffer] \in Text
    BY DEF Types
  <2>2. Name(store[buffer]) \in Text /\ Value(store[buffer]) \in Text
    BY <2>1, NameIs
  <2>3. <<Name(store[buffer]), Value(store[buffer])>> \in Text \X Text
    BY <2>2
  <2>4. headers' \in Seq(Text \X Text)
    <3> DEFINE h == <<Name(store[buffer]), Value(store[buffer])>>
               H == Text \X Text
    <3>1. headers' = headers \/ headers' = Append(headers, h)
      BY <1>7, LineFinish
    <3>2. headers \in Seq(H) /\ h \in H
      BY <2>3 DEF Types
    <3> HIDE DEF h, H
    <3>3. Append(headers, h) \in Seq(H)
      BY <3>2
    <3>4. headers' \in Seq(H)
      BY <3>1, <3>2, <3>3
    <3> QED
      BY <3>4 DEF H
  <2> QED
    BY <1>2, <1>7, <2>4 DEF Types, onHeaderLineFinish
<1>8. CASE state = "Expecting_body" /\ onBodyFinish(c)
  <2>1. buffer = "temp"
    BY <1>8 DEF LineInv
  <2> QED
    BY <1>1, <1>2, <1>8, <2>1, StoreBody DEF Types, onBodyFinish
<1> QED
  BY <1>3, <1>4, <1>5, <1>6, <1>7, <1>8 DEF Taken, Row

-----------------------------------------------------------------------------
(***************************************************************************)
(* The request line.                                                       *)
(***************************************************************************)
\* Texts put together are texts, in whichever order.
LEMMA ConcatText ==
  ASSUME NEW a \in Text, NEW b \in Text
  PROVE  a \o b \in Text
BY DEF Text

\* Concatenation is associative.
LEMMA ConcatAssoc ==
  ASSUME NEW a \in Text, NEW b \in Text, NEW d \in Text
  PROVE  (a \o b) \o d = a \o (b \o d)
BY DEF Text

\* The empty text adds nothing.
LEMMA ConcatNone ==
  ASSUME NEW a \in Text
  PROVE  a \o <<>> = a
BY DEF Text

\* The fixed parts of a request line are texts.
LEMMA PartsText ==
  /\ SP \in Text /\ <<"HTTP">> \in Text /\ <<"/">> \in Text /\ <<".">> \in Text
  /\ <<"HTTP", "/">> \in Text /\ <<>> \in Text
  /\ <<"HTTP">> \o <<"/">> = <<"HTTP", "/">>
<1>1. {" ", "HTTP", "/", "."} \subseteq Token
  BY DEF Token, Words
<1>2. \A t \in Token : <<t>> \in Text
  BY DEF Text
<1>3. \A t, u \in Token : <<t, u>> \in Text
  BY DEF Text
<1>4. <<>> \in Text
  BY DEF Text
<1>5. ASSUME NEW t \in Token, NEW u \in Token
      PROVE  <<t>> \o <<u>> = <<t, u>>
  <2> DEFINE a == <<t>> \o <<u>>
             b == <<t, u>>
  <2>1. a \in Seq(Token) /\ Len(a) = 2
    OBVIOUS
  <2>2. b \in Seq(Token) /\ Len(b) = 2
    OBVIOUS
  <2>3. a[1] = b[1] /\ a[2] = b[2]
    OBVIOUS
  <2> HIDE DEF a, b
  <2>4. a = b
    BY <2>1, <2>2, <2>3, SeqEqual
  <2> QED
    BY <2>4 DEF a, b
<1> QED
  BY <1>1, <1>2, <1>3, <1>4, <1>5 DEF SP

\* Two texts without an end of line, put together, have none.
LEMMA NoBreakConcat ==
  ASSUME NEW a \in Text, NEW b \in Text, NoBreak(a), NoBreak(b)
  PROVE  NoBreak(a \o b)
BY DEF NoBreak, Text

\* A character that does not end a line.
LEMMA NoBreakChar ==
  ASSUME NEW c \in Chars, c # CR, c # LF
  PROVE  NoBreak(c)
<1>1. Len(c) = 1 /\ c = <<c[1]>>
  BY CharText
<1>2. c[1] \notin {"\r", "\n"}
  BY <1>1 DEF CR, LF
<1> QED
  BY <1>1, <1>2 DEF NoBreak

\* A version field is a text of digits, and its length is bounded.
LEMMA NumberText ==
  ASSUME NEW s \in Number
  PROVE  s \in Text /\ s \in Seq(DOMAIN Digits)
<1>1. PICK n \in Nat : s \in [1 .. n -> DOMAIN Digits]
  BY ParserAssumption DEF Number
<1>2. s \in Seq(DOMAIN Digits)
  BY <1>1
<1>3. s \in [1 .. n -> Token]
  BY <1>1 DEF Token
<1> QED
  BY <1>2, <1>3 DEF Text

\* The field grows by a digit within the bound.
LEMMA NumberAppend ==
  ASSUME NEW s \in Number, NEW c \in Chars, isDigit(c), Len(s \o c) <= MaxField
  PROVE  s \o c \in Number
<1>1. s \in Seq(DOMAIN Digits)
  BY NumberText
<1>2. c \in Seq(DOMAIN Digits)
  <2>1. c = <<c[1]>> /\ Head(c) = c[1]
    BY CharText
  <2>2. c[1] \in DOMAIN Digits
    BY <2>1 DEF isDigit
  <2>3. \A t \in DOMAIN Digits : <<t>> \in Seq(DOMAIN Digits)
    OBVIOUS
  <2> QED
    BY <2>1, <2>2, <2>3
<1>3. s \o c \in Seq(DOMAIN Digits) /\ Len(s \o c) \in 0 .. MaxField
  BY <1>1, <1>2, ParserAssumption
<1>4. s \o c \in [1 .. Len(s \o c) -> DOMAIN Digits]
  <2>1. \A q \in Seq(DOMAIN Digits) : q \in [1 .. Len(q) -> DOMAIN Digits]
    OBVIOUS
  <2> QED
    BY <1>3, <2>1
<1> QED
  BY <1>3, <1>4 DEF Number

\* The empty field.
LEMMA NumberNone == <<>> \in Number
<1>1. <<>> \in [1 .. 0 -> DOMAIN Digits]
  OBVIOUS
<1> QED
  BY <1>1, ParserAssumption DEF Number

\* While the line is read temp_ keeps to the bound of its fields.
LEMMA FieldBound ==
  ASSUME Types', Bounded', NoBreak(fed)'
  PROVE  Len(store'.temp) <= MaxField
<1>1. "\n" \notin Range(fed')
  BY DEF NoBreak, Range, Types, Text
<1> QED
  BY <1>1 DEF Bounded

\* The target and the version put together are texts.
LEMMA TargetText ==
  ASSUME Types
  PROVE  Target \in Text /\ Target \o SP \in Text /\ Target \o SP \o <<"HTTP", "/">> \in Text
<1>1. store.method \in Text /\ store.uri \in Text
  BY DEF Types
<1>2. store.method \o SP \in Text
  BY <1>1, PartsText, ConcatText
<1>3. Target \in Text
  BY <1>1, <1>2, ConcatText DEF Target
<1>4. Target \o SP \in Text
  BY <1>3, PartsText, ConcatText
<1> QED
  BY <1>3, <1>4, PartsText, ConcatText

\* While the method and the uri are read their buffers hold what was fed.
LEMMA TargetNext ==
  ASSUME Types, LineInv, NEW c, Fed(c), Taken(c),
         state \in {"Start", "Method", "Uri"}, state' # "Error"
  PROVE  LineInv'
<1> USE DEF Row
<1>1. c \in Chars /\ fed' = fed \o c
  BY LexemeText DEF Fed
<1>2. c \in Text
  BY <1>1, CharText
<1>3. store.method \in Text /\ store.uri \in Text /\ store.temp \in Text /\ fed \in Text
  BY DEF Types
<1>4. NoBreak(fed)
  BY DEF LineInv, InLine
<1>5. c # CR /\ c # LF => NoBreak(fed')
  BY <1>1, <1>2, <1>3, <1>4, NoBreakChar, NoBreakConcat
<1>6. SP # CR /\ SP # LF
  BY DEF SP, CR, LF
<1>7. isAlpha(c) => c # CR /\ c # LF
  BY DEF isAlpha, CR, LF, Words, HeaderNames
<1>8. CASE state \in {"Start", "Method"} /\ isAlpha(c) /\ state' = "Method" /\ appendToBuffer(c)
  <2>1. buffer = "method" /\ fed = store.method /\ store.uri = <<>>
    BY <1>8 DEF LineInv
  <2>2. store'.method = fed' /\ store'.uri = <<>> /\ buffer' = "method"
    BY <1>1, <1>2, <1>8, <2>1, StoreAppend DEF appendToBuffer
  <2> QED
    BY <1>5, <1>7, <1>8, <2>2 DEF LineInv, InLine
<1>9. CASE state = "Method" /\ isValidMethod(c) /\ state' = "Uri" /\ onMethodFinish
  <2>1. fed = store.method /\ store.uri = <<>>
    BY <1>9 DEF LineInv
  <2>2. c = SP /\ store.method \in {<<"GET">>, <<"POST">>} /\ store' = store /\ buffer' = "uri"
    BY <1>9 DEF isValidMethod, onMethodFinish
  <2>3. store.method \o SP \in Text
    BY <1>3, PartsText, ConcatText
  <2>4. fed' = Target
    BY <1>1, <2>1, <2>2, <2>3, ConcatNone DEF Target
  <2>5. Target' = Target
    BY <2>2 DEF Target
  <2> QED
    BY <1>5, <1>6, <1>9, <2>2, <2>4, <2>5 DEF LineInv, InLine
<1>10. CASE state = "Uri" /\ isValidUriChar(c) /\ state' = "Uri" /\ appendToBuffer(c)
  <2>1. fed = Target /\ buffer = "uri" /\ store.method \in {<<"GET">>, <<"POST">>}
    BY <1>10 DEF LineInv
  <2>2. store'.method = store.method /\ store'.uri = store.uri \o c /\ buffer' = "uri"
    BY <1>2, <1>10, <2>1, StoreAppend DEF appendToBuffer
  <2>3. store.method \o SP \in Text
    BY <1>3, PartsText, ConcatText
  <2>4. (store.method \o SP \o store.uri) \o c = store.method \o SP \o (store.uri \o c)
    <3> DEFINE X == store.method \o SP
               u == store.uri
    <3>1. X \in Text /\ u \in Text
      BY <1>3, <2>3
    <3> HIDE DEF X, u
    <3>2. (X \o u) \o c = X \o (u \o c)
      BY <1>2, <3>1, ConcatAssoc
    <3> QED
      BY <3>2 DEF X, u
  <2>5. fed' = Target'
    BY <1>1, <2>1, <2>2, <2>4 DEF Target
  <2>6. c # CR /\ c # LF
    BY <1>10 DEF isValidUriChar
  <2> QED
    BY <1>5, <1>10, <2>1, <2>2, <2>5, <2>6 DEF LineInv, InLine
<1>11. CASE state = "Uri" /\ isSpace(c) /\ state' = "Http" /\ restartTemp
  <2>1. fed = Target /\ store.method \in {<<"GET">>, <<"POST">>}
    BY <1>11 DEF LineInv
  <2>2. store'.method = store.method /\ store'.uri = store.uri /\ store'.temp = <<>>
    BY <1>11, StoreRestart
  <2>3. Target' = Target
    BY <2>2 DEF Target
  <2>4. c = SP /\ buffer' = "temp"
    BY <1>11 DEF isSpace, restartTemp
  <2>5. (Target \o SP) \o <<>> = Target \o SP
    BY TargetText, ConcatNone
  <2>6. fed' = Target' \o SP \o store'.temp
    BY <1>1, <2>1, <2>2, <2>3, <2>4, <2>5
  <2> QED
    BY <1>5, <1>6, <1>11, <2>1, <2>2, <2>4, <2>6 DEF LineInv, InLine
<1> QED
  BY <1>8, <1>9, <1>10, <1>11 DEF Taken

\* While the version is read, what was fed is the fields and temp_.
LEMMA VersionNext ==
  ASSUME Types, Types', LineInv, NEW c, Fed(c), Taken(c),
         state \in {"Http", "Major", "Minor"}, state' # "Error"
  PROVE  LineInv'
<1> USE DEF Row
<1>1. c \in Chars /\ fed' = fed \o c
  BY LexemeText DEF Fed
<1>2. c \in Text
  BY <1>1, CharText
<1>3. store.temp \in Text /\ fed \in Text
  BY DEF Types
<1>4. NoBreak(fed)
  BY DEF LineInv, InLine
<1>5. c # CR /\ c # LF => NoBreak(fed')
  BY <1>1, <1>2, <1>3, <1>4, NoBreakChar, NoBreakConcat
<1>6. buffer = "temp" /\ store.method \in {<<"GET">>, <<"POST">>}
  BY DEF LineInv
<1>7. /\ store'.method = store.method /\ store'.uri = store.uri /\ buffer' = "temp"
      /\ appendToBuffer(c) => store'.temp = store.temp \o c
      /\ restartTemp => store'.temp = <<>>
  <2>1. CASE appendToBuffer(c)
    BY <1>2, <1>6, <2>1, StoreAppend DEF appendToBuffer, restartTemp
  <2>2. CASE restartTemp /\ ~appendToBuffer(c)
    BY <2>2, StoreRestart DEF restartTemp
  <2> QED
    BY <2>1, <2>2 DEF Taken
<1>8. Target' = Target
  BY <1>7 DEF Target
<1>9. /\ isAlpha(c) \/ isDigit(c) => c # CR /\ c # LF
      /\ isValidHttp(c) \/ isValidMajor(c) => c # CR /\ c # LF
  BY DEF isAlpha, isDigit, isValidHttp, isValidMajor, CR, LF, Words, HeaderNames, Digits
<1>10. CASE state = "Http" /\ isAlpha(c) /\ state' = "Http" /\ appendToBuffer(c)
  <2>1. fed = Target \o SP \o store.temp
    BY <1>10 DEF LineInv
  <2>2. (Target \o SP \o store.temp) \o c = Target \o SP \o (store.temp \o c)
    <3> DEFINE X == Target \o SP
    <3>1. X \in Text
      BY TargetText
    <3> HIDE DEF X
    <3>2. (X \o store.temp) \o c = X \o (store.temp \o c)
      BY <1>2, <1>3, <3>1, ConcatAssoc
    <3> QED
      BY <3>2 DEF X
  <2>3. fed' = Target' \o SP \o store'.temp
    BY <1>1, <1>7, <1>8, <1>10, <2>1, <2>2
  <2> QED
    BY <1>5, <1>6, <1>7, <1>9, <1>10, <2>3 DEF LineInv, InLine
<1>11. CASE state = "Http" /\ isValidHttp(c) /\ state' = "Major" /\ restartTemp
  <2>1. fed = Target \o SP \o <<"HTTP">> /\ c = <<"/">>
    BY <1>11 DEF LineInv, isValidHttp
  <2>2. (Target \o SP \o <<"HTTP">>) \o <<"/">> = Target \o SP \o (<<"HTTP">> \o <<"/">>)
    <3> DEFINE X == Target \o SP
               h == <<"HTTP">>
               d == <<"/">>
    <3>1. X \in Text /\ h \in Text /\ d \in Text
      BY TargetText, PartsText
    <3> HIDE DEF X, h, d
    <3>2. (X \o h) \o d = X \o (h \o d)
      BY <3>1, ConcatAssoc
    <3> QED
      BY <3>2 DEF X, h, d
  <2>3. (Target \o SP \o <<"HTTP", "/">>) \o <<>> = Target \o SP \o <<"HTTP", "/">>
    BY TargetText, ConcatNone
  <2>4. fed' = Target' \o SP \o <<"HTTP", "/">> \o store'.temp
    BY <1>1, <1>7, <1>8, <1>11, <2>1, <2>2, <2>3, PartsText
  <2>5. store'.temp \in Number
    BY <1>7, <1>11, NumberNone
  <2> QED
    BY <1>5, <1>6, <1>7, <1>9, <1>11, <2>4, <2>5 DEF LineInv, InLine
<1>12. CASE state = "Major" /\ isDigit(c) /\ state' = "Major" /\ appendToBuffer(c)
  <2> DEFINE X == Target \o SP \o <<"HTTP", "/">>
  <2>1. fed = X \o store.temp /\ store.temp \in Number
    BY <1>12 DEF LineInv
  <2>2. X \in Text
    BY TargetText
  <2>3. X' = X
    BY <1>8
  <2> HIDE DEF X
  <2>4. (X \o store.temp) \o c = X \o (store.temp \o c)
    BY <1>2, <1>3, <2>2, ConcatAssoc
  <2>5. fed' = X \o store'.temp
    BY <1>1, <1>7, <1>12, <2>1, <2>4
  <2>6. NoBreak(fed')
    BY <1>5, <1>9, <1>12
  <2>7. Len(store'.temp) <= MaxField
    BY <2>6, FieldBound DEF Fed
  <2>8. store'.temp \in Number
    BY <1>1, <1>7, <1>12, <2>1, <2>7, NumberAppend
  <2>9. fed' = Target' \o SP \o <<"HTTP", "/">> \o store'.temp
    BY <1>8, <2>5 DEF X
  <2> QED
    BY <1>6, <1>7, <1>12, <2>6, <2>8, <2>9 DEF LineInv, InLine
<1>13. CASE state = "Major" /\ isValidMajor(c) /\ state' = "Minor" /\ restartTemp
  <2> DEFINE X == Target \o SP \o <<"HTTP", "/">>
  <2>1. fed = X \o store.temp /\ store.temp \in Number /\ c = <<".">>
    BY <1>13 DEF LineInv, isValidMajor
  <2>2. X \in Text
    BY TargetText
  <2> HIDE DEF X
  <2>3. X \o store.temp \o <<".">> \in Text
    BY <1>3, <2>2, PartsText, ConcatText
  <2>4. fed' = X \o store.temp \o <<".">> \o <<>>
    BY <1>1, <2>1, <2>3, ConcatNone
  <2>5. PICK major \in Number : major = store.temp
    BY <2>1
  <2>7. fed' = Target' \o SP \o <<"HTTP", "/">> \o major \o <<".">> \o store'.temp
    BY <1>7, <1>8, <1>13, <2>4, <2>5 DEF X
  <2>6. store'.temp \in Number
    BY <1>7, <1>13, NumberNone
  <2> QED
    BY <1>5, <1>6, <1>7, <1>9, <1>13, <2>6, <2>7 DEF LineInv, InLine, Line
<1>14. CASE state = "Minor" /\ isDigit(c) /\ state' = "Minor" /\ appendToBuffer(c)
  <2>1. PICK major \in Number : fed = Line(major, store.temp) /\ store.temp \in Number
    BY <1>14 DEF LineInv
  <2> DEFINE X == Target \o SP \o <<"HTTP", "/">>
             Y == X \o major \o <<".">>
  <2>2. X \in Text /\ major \in Text
    BY <2>1, TargetText, NumberText
  <2>3. Y \in Text
    <3> HIDE DEF X
    <3> QED
      BY <2>2, PartsText, ConcatText
  <2>4. fed = Y \o store.temp
    BY <2>1 DEF Line
  <2>5. Target' \o SP \o <<"HTTP", "/">> \o major \o <<".">> = Y
    BY <1>8
  <2> HIDE DEF Y
  <2>6. (Y \o store.temp) \o c = Y \o (store.temp \o c)
    BY <1>2, <1>3, <2>3, ConcatAssoc
  <2>7. fed' = Target' \o SP \o <<"HTTP", "/">> \o major \o <<".">> \o store'.temp
    BY <1>1, <1>7, <1>14, <2>4, <2>5, <2>6
  <2>8. NoBreak(fed')
    BY <1>5, <1>9, <1>14
  <2>9. Len(store'.temp) <= MaxField
    BY <2>8, FieldBound DEF Fed
  <2>10. store'.temp \in Number
    BY <1>1, <1>7, <1>14, <2>1, <2>9, NumberAppend
  <2> QED
    BY <1>6, <1>7, <1>14, <2>7, <2>8, <2>10 DEF LineInv, InLine, Line
<1>15. CASE state = "Minor" /\ state' = "Expecting_newline_1"
  BY <1>6, <1>7, <1>15 DEF LineInv, InLine
<1> QED
  BY <1>10, <1>11, <1>12, <1>13, <1>14, <1>15 DEF Taken

\* The states after the request line, in the order they are reached.
InHeaders == {"Header_line_start", "Header_line", "Expecting_newline_2",
              "Expecting_newline_3"}
AfterLine == {"Expecting_newline_1", "Expecting_body"} \cup InHeaders

\* After the line its fields are left alone.
LEMMA FieldsKept ==
  ASSUME Types, LineInv, NEW c, Fed(c), Taken(c), state \in AfterLine, state' # "Error"
  PROVE  /\ store'.method = store.method /\ store'.uri = store.uri
         /\ buffer = "temp" /\ buffer' = "temp"
         /\ state' \notin InLine \cup {"Expecting_newline_1"}
<1> USE DEF Row, InLine, InHeaders, AfterLine
<1>1. buffer = "temp"
  BY DEF LineInv
<1>2. c \in Text
  BY LexemeText DEF Fed
<1>3. CASE appendToBuffer(c) /\ state' \notin InLine \cup {"Expecting_newline_1"}
  BY <1>1, <1>2, <1>3, StoreAppend DEF appendToBuffer
<1>4. CASE restartTemp /\ state' \notin InLine \cup {"Expecting_newline_1"}
  BY <1>1, <1>4, StoreRestart DEF restartTemp
<1>5. CASE (noAction \/ onHeaderLineFinish) /\ state' \notin InLine \cup {"Expecting_newline_1"}
  BY <1>1, <1>5 DEF noAction, onHeaderLineFinish
<1>6. CASE onBodyFinish(c) /\ state' \notin InLine \cup {"Expecting_newline_1"}
  BY <1>1, <1>2, <1>6, StoreBody DEF onBodyFinish
<1> QED
  BY <1>3, <1>4, <1>5, <1>6 DEF Taken

\* Every step keeps the fields of the line readable.
LEMMA LineNext ==
  ASSUME Types, Types', LineInv, NEW c, Fed(c), Taken(c),
         state \notin {"Error", "Finish"}
  PROVE  LineInv'
<1>1. CASE state' = "Error"
  BY <1>1 DEF LineInv, InLine
<1>2. CASE state \in AfterLine /\ state' # "Error"
  <2>1. store'.method \in {<<"GET">>, <<"POST">>} /\ buffer' = "temp"
    BY <1>2, FieldsKept DEF LineInv, AfterLine, InHeaders
  <2> QED
    BY <1>2, <2>1, FieldsKept DEF LineInv, InLine
<1>3. state' # "Error" => state \in InLine \cup AfterLine
  BY DEF Taken, Row, InLine, AfterLine, InHeaders
<1> QED
  BY <1>1, <1>2, <1>3, TargetNext, VersionNext DEF InLine
-----------------------------------------------------------------------------
(***************************************************************************)
(* What was fed is only added to.                                          *)
(***************************************************************************)
\* The tokens of two texts put together.
LEMMA Grow ==
  ASSUME NEW s \in Text, NEW c \in Text
  PROVE  /\ Len(s) \in Nat /\ Len(c) \in Nat
         /\ Len(s \o c) = Len(s) + Len(c)
         /\ \A k \in 1 .. Len(s) : (s \o c)[k] = s[k]
         /\ \A k \in 1 .. Len(c) : (s \o c)[Len(s) + k] = c[k]
BY DEF Text

\* A part of the first text is that part of both.
LEMMA PartKept ==
  ASSUME NEW s \in Text, NEW c \in Text, NEW i \in Nat \ {0}, NEW j \in 0 .. Len(s)
  PROVE  SubSeq(s \o c, i, j) = SubSeq(s, i, j)
<1> DEFINE a == SubSeq(s \o c, i, j)
           b == SubSeq(s, i, j)
<1>1. Len(s) \in Nat /\ j <= Len(s) /\ s \o c \in Text /\ j <= Len(s \o c)
  BY Grow, ConcatText
<1>2. a \in Seq(Token) /\ b \in Seq(Token)
  BY <1>1 DEF Text
<1>3. Len(a) = Len(b)
  BY <1>1 DEF Text
<1>4. \A k \in 1 .. Len(a) : a[k] = b[k]
  <2> SUFFICES ASSUME NEW k \in 1 .. Len(a) PROVE a[k] = b[k]
    OBVIOUS
  <2>1. Len(a) = IF i <= j THEN j - i + 1 ELSE 0
    BY <1>1 DEF Text
  <2>2. k + i - 1 \in 1 .. Len(s)
    BY <1>1, <2>1
  <2>3. a[k] = (s \o c)[k + i - 1] /\ b[k] = s[k + i - 1]
    BY <1>1, <2>1 DEF Text
  <2> QED
    BY <2>2, <2>3, Grow
<1> HIDE DEF a, b
<1>5. a = b
  BY <1>2, <1>3, <1>4, SeqEqual
<1> QED
  BY <1>5 DEF a, b

\* The rest of both is the rest of the first and then the second.
LEMMA RestGrows ==
  ASSUME NEW s \in Text, NEW c \in Text, NEW i \in 1 .. Len(s) + 1
  PROVE  SubSeq(s \o c, i, Len(s \o c)) = SubSeq(s, i, Len(s)) \o c
<1> DEFINE a == SubSeq(s \o c, i, Len(s \o c))
           r == SubSeq(s, i, Len(s))
<1>1. Len(s) \in Nat /\ Len(c) \in Nat /\ s \o c \in Text /\ Len(s \o c) = Len(s) + Len(c)
  BY Grow, ConcatText
<1>2. r \in Seq(Token) /\ Len(r) = Len(s) - i + 1
  BY <1>1 DEF Text
<1>3. a \in Seq(Token) /\ Len(a) = Len(s) + Len(c) - i + 1
  BY <1>1 DEF Text
<1>4. \A k \in 1 .. Len(a) : a[k] = (s \o c)[k + i - 1]
  BY <1>1, <1>3 DEF Text
<1>5. \A k \in 1 .. Len(r) : r[k] = s[k + i - 1]
  BY <1>1, <1>2 DEF Text
<1> HIDE DEF a, r
<1>6. r \o c \in Seq(Token) /\ Len(r \o c) = Len(a)
  <2>1. r \in Text
    BY <1>2 DEF Text
  <2>2. r \o c \in Text /\ Len(r \o c) = Len(r) + Len(c)
    BY <2>1, Grow, ConcatText
  <2> QED
    BY <1>1, <1>2, <1>3, <2>2 DEF Text
<1>7. ASSUME NEW k \in 1 .. Len(a) PROVE a[k] = (r \o c)[k]
  <2>1. CASE k <= Len(r)
    <3>1. k + i - 1 \in 1 .. Len(s)
      BY <1>1, <1>2, <2>1
    <3>2. (r \o c)[k] = r[k]
      BY <1>2, <2>1, <1>3 DEF Text
    <3> QED
      BY <1>1, <1>2, <1>3, <1>4, <1>5, <2>1, <3>1, <3>2, Grow
  <2>2. CASE k > Len(r)
    <3>1. k + i - 1 = Len(s) + (k - Len(r)) /\ k - Len(r) \in 1 .. Len(c)
      BY <1>1, <1>2, <1>3, <2>2
    <3>0. r \in Text
      BY <1>2 DEF Text
    <3>2. (r \o c)[k] = c[k - Len(r)]
      <4>1. (r \o c)[Len(r) + (k - Len(r))] = c[k - Len(r)]
        BY <3>0, <3>1, Grow
      <4>2. Len(r) + (k - Len(r)) = k
        BY <1>1, <1>2, <1>3
      <4> QED
        BY <4>1, <4>2
    <3>3. (s \o c)[Len(s) + (k - Len(r))] = c[k - Len(r)]
      BY <3>1, Grow
    <3> QED
      BY <1>4, <3>1, <3>2, <3>3
  <2> QED
    BY <1>2, <1>3, <2>1, <2>2
<1>8. a = r \o c
  BY <1>3, <1>6, <1>7, SeqEqual
<1> QED
  BY <1>8 DEF a, r

\* The blank line that ends the headers, token by token.
BlankAt(s, i) == s[i] = "\r" /\ s[i + 1] = "\n" /\ s[i + 2] = "\r" /\ s[i + 3] = "\n"

\* A blank line occurs where these tokens are.
LEMMA BlankIs ==
  ASSUME NEW s \in Text, NEW i \in 1 .. Len(s) - 3
  PROVE  SubSeq(s, i, i + Len(BlankLine) - 1) = BlankLine <=> BlankAt(s, i)
<1>1. Len(s) \in Nat
  BY DEF Text
<1>2. /\ BlankLine \in Seq({"\r", "\n"}) /\ Len(BlankLine) = 4
      /\ BlankLine[1] = "\r" /\ BlankLine[2] = "\n"
      /\ BlankLine[3] = "\r" /\ BlankLine[4] = "\n"
  BY DEF BlankLine, CR, LF
<1>3. BlankLine \in Seq(Token)
  <2>1. BlankLine \in [1 .. 4 -> {"\r", "\n"}]
    BY <1>2
  <2>2. BlankLine \in [1 .. 4 -> Token]
    BY <2>1 DEF Token
  <2>3. \A n \in Nat : \A f \in [1 .. n -> Token] : f \in Seq(Token)
    OBVIOUS
  <2> QED
    BY <2>2, <2>3
<1> DEFINE a == SubSeq(s, i, i + 3)
<1>4. a \in Seq(Token) /\ Len(a) = 4
  BY <1>1 DEF Text
<1>5. a[1] = s[i] /\ a[2] = s[i + 1] /\ a[3] = s[i + 2] /\ a[4] = s[i + 3]
  BY <1>1 DEF Text
<1>6. i + Len(BlankLine) - 1 = i + 3
  BY <1>2
<1> HIDE DEF a
<1>7. BlankAt(s, i) => a = BlankLine
  <2> SUFFICES ASSUME BlankAt(s, i) PROVE a = BlankLine
    OBVIOUS
  <2>1. \A k \in 1 .. Len(a) : a[k] = BlankLine[k]
    <3>1. \A k \in 1 .. 4 : k = 1 \/ k = 2 \/ k = 3 \/ k = 4
      OBVIOUS
    <3> QED
      BY <1>2, <1>4, <1>5, <3>1 DEF BlankAt
  <2> QED
    BY <1>2, <1>3, <1>4, <2>1, SeqEqual
<1>8. a = BlankLine => BlankAt(s, i)
  BY <1>2, <1>5 DEF BlankAt
<1> QED
  BY <1>6, <1>7, <1>8 DEF a

\* The line stays where it is.
LEMMA LineAtKept ==
  ASSUME Types, LineInv, NEW c, Fed(c), Taken(c), state \in AfterLine, state' # "Error",
         NEW n \in 1 .. Len(fed), LineAt(n)
  PROVE  LineAt(n)' /\ n \in 1 .. Len(fed') /\ n < Len(fed')
<1>1. c \in Text /\ Len(c) > 0 /\ fed' = fed \o c /\ fed \in Text
  BY LexemeText DEF Fed, Types
<1>2. Len(fed) \in Nat /\ Len(c) \in Nat /\ Len(fed') = Len(fed) + Len(c)
  BY <1>1, Grow
<1>3. \A k \in 1 .. Len(fed) : fed'[k] = fed[k]
  BY <1>1, Grow
<1>4. SubSeq(fed', 1, n - 1) = SubSeq(fed, 1, n - 1)
  BY <1>1, <1>2, PartKept
<1>5. Target' = Target
  BY FieldsKept DEF Target
<1>6. \E major, minor \in Number : SubSeq(fed', 1, n - 1)
        = Target' \o SP \o <<"HTTP", "/">> \o major \o <<".">> \o minor
  BY <1>4, <1>5 DEF LineAt, Line
<1>7. state' # "Expecting_newline_1"
  BY FieldsKept
<1>8. fed'[n] = "\r" /\ \A k \in 1 .. n - 1 : fed'[k] \notin {"\r", "\n"}
  <2>1. fed[n] = "\r" /\ \A k \in 1 .. n - 1 : fed[k] \notin {"\r", "\n"}
    BY DEF LineAt
  <2>2. \A k \in 1 .. n - 1 : k \in 1 .. Len(fed)
    BY <1>2
  <2> QED
    BY <1>3, <2>1, <2>2
<1>9. fed'[n + 1] = "\n"
  <2>1. CASE state # "Expecting_newline_1"
    BY <1>2, <1>3, <2>1 DEF LineAt
  <2>2. CASE state = "Expecting_newline_1"
    <3>1. c = LF
      BY <2>2 DEF Taken, Row, isNewLine
    <3>2. Len(fed) = n /\ c[1] = "\n" /\ Len(c) = 1
      BY <2>2, <3>1 DEF LineAt, LF
    <3>3. fed'[Len(fed) + 1] = c[1]
      <4>1. 1 \in 1 .. Len(c)
        BY <3>2
      <4> QED
        BY <1>1, <4>1, Grow
    <3> QED
      BY <3>2, <3>3
  <2> QED
    BY <2>1, <2>2
<1> QED
  <2>1. n < Len(fed') /\ n \in 1 .. Len(fed')
    BY <1>1, <1>2
  <2> QED
    BY <1>6, <1>7, <1>8, <1>9, <2>1 DEF LineAt, Line

\* The line ends at the carriage return after the minor version.
LEMMA LineAtEnd ==
  ASSUME Types, Types', LineInv, NEW c, Fed(c), Taken(c),
         state = "Minor", state' = "Expecting_newline_1"
  PROVE  \E n \in 1 .. Len(fed') : LineAt(n)'
<1>1. c \in Text /\ fed' = fed \o c /\ fed \in Text
  BY LexemeText DEF Fed, Types
<1>2. c = CR /\ restartTemp
  BY DEF Taken, Row, isValidMinor
<1>3. Len(c) = 1 /\ c[1] = "\r"
  BY <1>2 DEF CR
<1>4. Len(fed) \in Nat /\ Len(fed') = Len(fed) + 1 /\ fed'[Len(fed) + 1] = "\r"
  <2>1. 1 \in 1 .. Len(c)
    BY <1>3
  <2>2. /\ Len(fed) \in Nat /\ Len(fed \o c) = Len(fed) + Len(c)
        /\ (fed \o c)[Len(fed) + 1] = c[1]
    BY <1>1, <2>1, Grow
  <2> QED
    BY <1>1, <1>3, <2>2
<1>5. PICK major \in Number : fed = Line(major, store.temp) /\ store.temp \in Number
  BY DEF LineInv
<1>6. PICK minor \in Number : minor = store.temp
  BY <1>5
<1>7. Target' = Target
  BY <1>2, StoreRestart DEF Target
<1>8. PICK n \in 1 .. Len(fed') : n = Len(fed) + 1
  BY <1>4
<1>9. SubSeq(fed', 1, n - 1) = fed
  <2>1. SubSeq(fed', 1, n - 1) = SubSeq(fed, 1, Len(fed))
    BY <1>1, <1>4, <1>8, PartKept
  <2>2. SubSeq(fed, 1, Len(fed)) = fed
    BY <1>1, SubSeqFull DEF Text
  <2> QED
    BY <2>1, <2>2
<1>10. SubSeq(fed', 1, n - 1)
         = Target' \o SP \o <<"HTTP", "/">> \o major \o <<".">> \o minor
  BY <1>5, <1>6, <1>7, <1>9 DEF Line
<1>11. \A k \in 1 .. n - 1 : fed'[k] \notin {"\r", "\n"}
  BY <1>1, <1>4, <1>8, Grow DEF LineInv, InLine, NoBreak
<1> QED
  BY <1>4, <1>8, <1>10, <1>11 DEF LineAt, Line
-----------------------------------------------------------------------------
(***************************************************************************)
(* The header lines.                                                       *)
(***************************************************************************)
\* contentLength() with no header of that name, and with one in front.
LEMMA LengthIs ==
  ASSUME Types
  PROVE  /\ (\A i \in 1 .. Len(headers) : headers[i][1] # <<"Content-Length">>)
              => contentLength = <<>>
         /\ (Len(headers) > 0 /\ headers[1][1] = <<"Content-Length">>)
              => contentLength = headers[1][2] /\ headers[1][2] \in Text
<1> DEFINE I == {i \in 1 .. Len(headers) : headers[i][1] = <<"Content-Length">>}
<1>1. contentLength = IF I = {} THEN <<>> ELSE headers[Min(I)][2]
  <2>1. I # {} => Min(I) \in I
    <3>1. I \in SUBSET Nat
      OBVIOUS
    <3> HIDE DEF I
    <3> QED
      BY <3>1, LeastElement
  <2>2. I # {} => Min(I) # 0
    BY <2>1
  <2> QED
    BY <2>2 DEF contentLength, SelectInSeq
<1>2. (\A i \in 1 .. Len(headers) : headers[i][1] # <<"Content-Length">>) => I = {}
  OBVIOUS
<1>3. ASSUME Len(headers) > 0, headers[1][1] = <<"Content-Length">>
      PROVE  I # {} /\ Min(I) = 1 /\ headers[1][2] \in Text
  <2>1. Len(headers) \in Nat /\ headers[1] \in Text \X Text
    BY <1>3 DEF Types
  <2>2. 1 \in I /\ \A k \in I : 1 <= k /\ k \in Nat
    BY <1>3, <2>1
  <2>3. I \in SUBSET Nat /\ I # {}
    BY <2>2
  <2> HIDE DEF I
  <2>4. Min(I) \in I /\ \A k \in I : Min(I) <= k
    BY <2>3, LeastElement
  <2>5. Min(I) = 1
    BY <2>2, <2>4
  <2> QED
    BY <2>1, <2>3, <2>5
<1> HIDE DEF I
<1> QED
  BY <1>1, <1>2, <1>3

\* What the first line says stays what contentLength() finds.
LEMMA FirstHeaderKept ==
  ASSUME Types, NEW c \in Text, fed' = fed \o c, headers' = headers,
         NEW p \in Nat \ {0}, p < Len(fed), FirstHeaderAt(p)
  PROVE  FirstHeaderAt(p)' /\ p < Len(fed') /\ fed'[p] = fed[p]
<1>1. fed \in Text /\ Len(fed) \in Nat /\ Len(c) \in Nat /\ Len(fed') = Len(fed) + Len(c)
  BY Grow DEF Types
<1>2. \A k \in 1 .. Len(fed) : fed'[k] = fed[k]
  BY <1>1, Grow
<1>3. fed'[p] = fed[p] /\ fed'[p + 1] = fed[p + 1] /\ p < Len(fed')
  BY <1>1, <1>2
<1>4. CASE /\ fed[p] = "Host"
           /\ \A i \in 1 .. Len(headers) : headers[i][1] # <<"Content-Length">>
  BY <1>3, <1>4 DEF FirstHeaderAt
<1>5. CASE /\ fed[p] = "Content-Length" /\ fed[p + 1] = ":"
           /\ headers[1][1] = <<"Content-Length">>
           /\ \E q \in p + 2 .. Len(fed) :
                fed[q] = "\r" /\ headers[1][2] = SubSeq(fed, p + 2, q - 1)
  <2>1. PICK q \in p + 2 .. Len(fed) :
          fed[q] = "\r" /\ headers[1][2] = SubSeq(fed, p + 2, q - 1)
    BY <1>5
  <2>2. SubSeq(fed', p + 2, q - 1) = SubSeq(fed, p + 2, q - 1)
    BY <1>1, PartKept
  <2>3. q \in p + 2 .. Len(fed') /\ fed'[q] = "\r"
    BY <1>1, <1>2, <2>1
  <2> QED
    BY <1>3, <1>5, <2>1, <2>2, <2>3 DEF FirstHeaderAt
<1> QED
  BY <1>3, <1>4, <1>5 DEF FirstHeaderAt

\* A text opens as it did before more was appended.
LEMMA OpensKept ==
  ASSUME NEW s \in Text, NEW c \in Text, Opens(s)
  PROVE  Opens(s \o c) /\ (s \o c)[1] = s[1]
<1>1. /\ Len(s) \in Nat /\ Len(c) \in Nat /\ Len(s \o c) = Len(s) + Len(c)
      /\ \A k \in 1 .. Len(s) : (s \o c)[k] = s[k]
  BY Grow
<1>2. (s \o c)[1] = s[1]
  BY <1>1 DEF Opens
<1>3. Len(s) > 1 => (s \o c)[2] = s[2]
  BY <1>1
<1> QED
  BY <1>1, <1>2, <1>3 DEF Opens

\* A line that is read grows by a piece of a header line.
LEMMA PieceFed ==
  ASSUME NEW c \in Lexemes, \/ state = "Header_line_start" /\ isAlpha(c)
                            \/ state = "Header_line" /\ ~isCarryReturn(c) /\ ~isNewLine(c)
  PROVE  c \in HeaderTexts
<1>1. CASE state = "Header_line_start" /\ isAlpha(c)
  <2>1. \A d \in Chars : Head(d) \notin HeaderNames
    <3>2. \A d \in Chars : \E t \in {" ", "\r", "\n", "GET", "POST", "HTTP", "2", "/", "."} :
            d = <<t>>
      BY DEF Chars, SP, CR, LF, Words
    <3>3. ASSUME NEW d \in Chars PROVE Head(d) \notin HeaderNames
      <4>1. PICK t \in {" ", "\r", "\n", "GET", "POST", "HTTP", "2", "/", "."} : d = <<t>>
        BY <3>2
      <4>2. Head(d) = t
        <5>1. Head(d) = d[1]
          BY CharText
        <5>2. d[1] = t
          BY <4>1
        <5> QED
          BY <5>1, <5>2
      <4> QED
        BY <4>2 DEF HeaderNames
    <3> QED
      BY <3>3
  <2> QED
    BY <1>1, <2>1 DEF Lexemes, isAlpha
<1>2. CASE state = "Header_line" /\ ~isCarryReturn(c) /\ ~isNewLine(c)
  BY <1>2 DEF Lexemes, isCarryReturn, isNewLine
<1> QED
  BY <1>1, <1>2

\* The end of a header line stores the first header, or one more of its name.
LEMMA HeaderStored ==
  ASSUME Types, Types', LineInv, BlankInv, NEW c \in Text, fed' = fed \o c, Len(c) = 1,
         state = "Expecting_newline_2", state' = "Header_line_start", onHeaderLineFinish,
         NEW p \in Nat \ {0, 1, 2}, p <= Len(fed), HeadersAt(p)
  PROVE  HeadersAt(p)'
<1>1. buffer = "temp" /\ store' = store /\ store.temp \in Text /\ fed \in Text
  BY DEF LineInv, onHeaderLineFinish, Types
<1>2. Opens(store.temp) /\ Len(store.temp) \in Nat
  BY <1>1 DEF HeadersAt, Text
<1> DEFINE N == Name(store.temp)
           V == Value(store.temp)
<1>3. /\ N \in Text /\ V \in Text
      /\ store.temp[1] = "Host" => N # <<>> /\ N # <<"Content-Length">>
      /\ store.temp[1] # "Host" =>
           N = <<"Content-Length">> /\ V = SubSeq(store.temp, 3, Len(store.temp))
  BY <1>1, <1>2, NameIs
<1>4. headers' = Append(headers, <<N, V>>)
  <2>1. N # <<>>
    <3>1. <<"Content-Length">> # <<>>
      OBVIOUS
    <3> HIDE DEF N, V
    <3> QED
      BY <1>3, <3>1
  <2> QED
    BY <1>1, <2>1, LineFinish
<1> HIDE DEF N, V
<1>5. /\ Len(headers) \in Nat /\ Len(headers') = Len(headers) + 1
      /\ \A i \in 1 .. Len(headers) : headers'[i] = headers[i]
      /\ headers'[Len(headers) + 1] = <<N, V>>
      /\ headers' # <<>>
  BY <1>3, <1>4 DEF Types
<1>6. Len(fed) \in Nat /\ Len(fed') = Len(fed) + 1 /\ fed[Len(fed)] = "\r"
  <2>1. Len(fed) - 0 = Len(fed) /\ Len(fed) \in Nat
    BY <1>1, Grow
  <2> QED
    <3>1. Len(fed') = Len(fed) + 1
      <4>1. Len(fed \o c) = Len(fed) + Len(c)
        BY <1>1, Grow
      <4> QED
        BY <4>1
    <3>2. fed[Len(fed)] = "\r"
      BY <2>1 DEF BlankInv, FromEnd
    <3> QED
      BY <2>1, <3>1, <3>2
<1>7. \A k \in 1 .. Len(fed) : fed'[k] = fed[k]
  BY <1>1, Grow
<1>8. p < Len(fed') /\ fed'[p] = fed[p]
  BY <1>6, <1>7
<1>9. CASE headers = <<>>
  <2>1. SubSeq(fed, p, Len(fed) - 1) = store.temp
    BY <1>9 DEF HeadersAt
  <2>2. Len(store.temp) = Len(fed) - p
    <3>1. Len(SubSeq(fed, p, Len(fed) - 1)) = Len(fed) - p
      BY <1>1, <1>6 DEF Text
    <3> QED
      BY <2>1, <3>1
  <2>3. \A k \in 1 .. Len(store.temp) : store.temp[k] = fed[k + p - 1]
    <3>1. \A k \in 1 .. Len(fed) - p : SubSeq(fed, p, Len(fed) - 1)[k] = fed[k + p - 1]
      BY <1>1, <1>6 DEF Text
    <3> QED
      BY <2>1, <2>2, <3>1
  <2>4. Len(store.temp) > 0 /\ store.temp[1] = fed[p]
    <3>1. 1 \in 1 .. Len(store.temp) /\ 1 + p - 1 = p
      BY <1>2 DEF Opens
    <3> QED
      BY <1>2, <2>3, <3>1 DEF Opens
  <2>5. headers'[1] = <<N, V>> /\ Len(headers') = 1
    BY <1>5, <1>9
  <2>6. CASE store.temp[1] = "Host"
    <3>1. \A i \in 1 .. Len(headers') : headers'[i][1] # <<"Content-Length">>
      <4>1. N # <<"Content-Length">> /\ <<N, V>>[1] = N
        BY <1>3, <2>6
      <4>2. \A i \in 1 .. Len(headers') : i = 1
        BY <2>5
      <4> QED
        BY <2>5, <4>1, <4>2
    <3>2. FirstHeaderAt(p)'
      BY <1>8, <2>4, <2>6, <3>1 DEF FirstHeaderAt
    <3> QED
      BY <1>1, <1>2, <1>5, <1>8, <2>4, <3>2 DEF HeadersAt
  <2>7. CASE store.temp[1] # "Host"
    <3>1. store.temp[1] = "Content-Length" /\ Len(store.temp) > 1 /\ store.temp[2] = ":"
      BY <1>2, <2>7 DEF Opens
    <3>2. p + 2 <= Len(fed) /\ fed[p + 1] = ":"
      <4>1. 2 \in 1 .. Len(store.temp) /\ 2 + p - 1 = p + 1
        BY <1>2, <3>1
      <4>2. p + 2 <= Len(fed)
        BY <1>6, <2>2, <3>1
      <4> QED
        BY <2>3, <3>1, <4>1, <4>2
    <3>3. V = SubSeq(fed', p + 2, Len(fed) - 1)
      <4>1. SubSeq(fed', p + 2, Len(fed) - 1) = SubSeq(fed, p + 2, Len(fed) - 1)
        BY <1>1, <1>6, PartKept
      <4> DEFINE a == SubSeq(store.temp, 3, Len(store.temp))
                 b == SubSeq(fed, p + 2, Len(fed) - 1)
      <4>2. a \in Seq(Token) /\ Len(a) = Len(store.temp) - 2
        BY <1>1, <1>2, <3>1 DEF Text
      <4>3. b \in Seq(Token) /\ Len(b) = Len(fed) - p - 2
        BY <1>1, <1>6, <3>2 DEF Text
      <4>4. \A k \in 1 .. Len(a) : a[k] = store.temp[k + 2]
        BY <1>1, <1>2, <3>1, <4>2 DEF Text
      <4>5. \A k \in 1 .. Len(b) : b[k] = fed[k + p + 1]
        BY <1>1, <1>6, <3>2, <4>3 DEF Text
      <4>6. V = a
        BY <1>3, <2>7
      <4> HIDE DEF a, b
      <4>7. Len(a) = Len(b)
        BY <1>6, <2>2, <4>2, <4>3
      <4>8. ASSUME NEW k \in 1 .. Len(a) PROVE a[k] = b[k]
        <5>1. k + 2 \in 1 .. Len(store.temp) /\ (k + 2) + p - 1 = k + p + 1
          BY <1>2, <4>2
        <5> QED
          BY <2>3, <4>4, <4>5, <4>7, <5>1
      <4>9. a = b
        BY <4>2, <4>3, <4>7, <4>8, SeqEqual
      <4> QED
        BY <4>1, <4>6, <4>9 DEF b
    <3>4. fed'[p] = "Content-Length" /\ fed'[p + 1] = ":" /\ fed'[Len(fed)] = "\r"
      BY <1>6, <1>7, <1>8, <2>4, <3>1, <3>2
    <3>5. headers'[1][1] = <<"Content-Length">> /\ headers'[1][2] = V
      BY <1>3, <2>5, <2>7
    <3>6. PICK q \in p + 2 .. Len(fed') : q = Len(fed)
      BY <1>6, <3>2
    <3>7. FirstHeaderAt(p)'
      BY <3>3, <3>4, <3>5, <3>6 DEF FirstHeaderAt
    <3> QED
      BY <1>1, <1>2, <1>5, <1>8, <2>4, <3>7 DEF HeadersAt
  <2> QED
    BY <2>6, <2>7
<1>10. CASE headers # <<>>
  <2>1. FirstHeaderAt(p) /\ store.temp[1] = fed[p] /\ p < Len(fed) /\ Len(store.temp) > 0
    BY <1>10 DEF HeadersAt
  <2>2. FirstHeaderAt(p)'
    <3>1. CASE /\ fed[p] = "Host"
               /\ \A i \in 1 .. Len(headers) : headers[i][1] # <<"Content-Length">>
      <4>1. N # <<"Content-Length">>
        BY <1>3, <2>1, <3>1
      <4>2. \A i \in 1 .. Len(headers') : headers'[i][1] # <<"Content-Length">>
        <5>1. \A i \in 1 .. Len(headers') : i \in 1 .. Len(headers) \/ i = Len(headers) + 1
          BY <1>5
        <5>2. headers'[Len(headers) + 1][1] = N
          BY <1>5
        <5> QED
          BY <1>5, <3>1, <4>1, <5>1, <5>2
      <4> QED
        BY <1>8, <3>1, <4>2 DEF FirstHeaderAt
    <3>2. CASE /\ fed[p] = "Content-Length" /\ fed[p + 1] = ":"
               /\ headers[1][1] = <<"Content-Length">>
               /\ \E q \in p + 2 .. Len(fed) :
                    fed[q] = "\r" /\ headers[1][2] = SubSeq(fed, p + 2, q - 1)
      <4>1. PICK q \in p + 2 .. Len(fed) :
              fed[q] = "\r" /\ headers[1][2] = SubSeq(fed, p + 2, q - 1)
        BY <3>2
      <4>2. SubSeq(fed', p + 2, q - 1) = SubSeq(fed, p + 2, q - 1)
        BY <1>1, <1>6, PartKept
      <4>3. q \in p + 2 .. Len(fed') /\ fed'[q] = "\r" /\ fed'[p + 1] = ":"
        <5>1. q \in 1 .. Len(fed) /\ p + 1 \in 1 .. Len(fed) /\ q \in p + 2 .. Len(fed')
          BY <1>6, <2>1
        <5> QED
          BY <1>7, <3>2, <4>1, <5>1
      <4>4. headers'[1] = headers[1]
        BY <1>5, <1>10 DEF Types
      <4> QED
        BY <1>8, <3>2, <4>1, <4>2, <4>3, <4>4 DEF FirstHeaderAt
    <3> QED
      BY <2>1, <3>1, <3>2 DEF FirstHeaderAt
  <2> QED
    BY <1>1, <1>2, <1>5, <1>8, <2>1, <2>2 DEF HeadersAt
<1> QED
  BY <1>9, <1>10

\* Every step after the line keeps what the header lines say.
LEMMA HeadersNext ==
  ASSUME Types, Types', LineInv, BlankInv, BodyInv, NEW c, Fed(c), Taken(c),
         state \in AfterLine, state' # "Error",
         NEW n \in 1 .. Len(fed), LineAt(n),
         state # "Expecting_newline_1" => HeadersAt(n + 2)
  PROVE  HeadersAt(n + 2)'
<1> USE DEF Row
<1>1. c \in Text /\ c \in Lexemes /\ Len(c) > 0 /\ fed' = fed \o c /\ fed \in Text
  BY LexemeText DEF Fed, Types
<1>2. Len(fed) \in Nat /\ Len(c) \in Nat /\ Len(fed') = Len(fed) + Len(c)
  BY <1>1, Grow
<1>3. PICK p \in Nat : p = n + 2
  OBVIOUS
<1>4. p \in Nat \ {0, 1, 2} /\ n + 2 = p
  BY <1>3
<1>5. buffer = "temp" /\ store.temp \in Text
  BY FieldsKept DEF Types
<1>6. state # "Expecting_newline_1" => HeadersAt(p) /\ n < Len(fed) /\ p <= Len(fed) + 1
  BY <1>2, <1>4 DEF LineAt
<1>7. SUFFICES HeadersAt(p)'
  BY <1>4
<1>8. ASSUME state # "Expecting_newline_1", headers' = headers, headers # <<>>
      PROVE  FirstHeaderAt(p)' /\ p < Len(fed') /\ fed'[p] = fed[p]
  BY <1>1, <1>4, <1>6, <1>8, FirstHeaderKept DEF HeadersAt
<1>9. CASE state = "Expecting_newline_1" /\ isNewLine(c) /\ state' = "Header_line_start" /\ restartTemp
  <2>1. headers' = <<>> /\ Len(fed) = n
    BY <1>9 DEF BodyInv, LineAt, restartTemp
  <2>2. Len(fed') = p - 1
    BY <1>2, <1>4, <1>9, <2>1 DEF isNewLine, LF
  <2>3. store'.temp = <<>>
    BY <1>9, StoreRestart
  <2> QED
    BY <1>9, <2>1, <2>2, <2>3 DEF HeadersAt
<1>10. CASE state = "Header_line_start" /\ isCarryReturn(c) /\ state' = "Expecting_newline_3" /\ noAction
  <2>1. Len(c) = 1
    BY <1>10 DEF isCarryReturn, CR
  <2>2. headers' = headers /\ (headers = <<>> => Len(fed') = p)
    BY <1>2, <1>4, <1>6, <1>10, <2>1 DEF noAction, HeadersAt
  <2> QED
    BY <1>8, <1>10, <2>2 DEF HeadersAt
<1>11. CASE state = "Header_line_start" /\ isAlpha(c) /\ state' = "Header_line" /\ appendToBuffer(c)
  <2>1. c \in HeaderTexts
    BY <1>1, <1>11, PieceFed
  <2>2. Opens(c)
    BY <2>1, PieceText
  <2>3. store'.temp = store.temp \o c /\ headers' = headers
    BY <1>1, <1>5, <1>11, StoreAppend DEF appendToBuffer
  <2>4. CASE headers = <<>>
    <3>1. Len(fed) = p - 1 /\ store.temp = <<>>
      BY <1>6, <1>11, <2>4 DEF HeadersAt
    <3>2. store'.temp = c
      BY <1>1, <2>3, <3>1 DEF Text
    <3>3. SubSeq(fed', p, Len(fed')) = SubSeq(fed, p, Len(fed)) \o c
      <4>1. p \in 1 .. Len(fed) + 1
        BY <1>2, <1>4, <3>1
      <4> QED
        BY <1>1, <4>1, RestGrows
    <3>4. SubSeq(fed, p, Len(fed)) = <<>>
      BY <1>1, <1>2, <1>4, <3>1 DEF Text
    <3>5. SubSeq(fed', p, Len(fed')) = store'.temp
      BY <1>1, <3>2, <3>3, <3>4 DEF Text
    <3> QED
      BY <1>11, <2>2, <2>3, <2>4, <3>2, <3>5 DEF HeadersAt
  <2>5. CASE headers # <<>>
    <3>1. Opens(store.temp) /\ store.temp[1] = fed[p]
      BY <1>6, <1>11, <2>5 DEF HeadersAt
    <3>2. Opens(store'.temp) /\ store'.temp[1] = fed[p]
      BY <1>1, <1>5, <2>3, <3>1, OpensKept
    <3> QED
      BY <1>8, <1>11, <2>3, <2>5, <3>2 DEF HeadersAt, Opens
  <2> QED
    BY <2>4, <2>5
<1>12. CASE state = "Header_line" /\ isCarryReturn(c) /\ state' = "Expecting_newline_2" /\ noAction
  <2>1. Len(c) = 1 /\ headers' = headers /\ store' = store
    BY <1>12 DEF isCarryReturn, CR, noAction
  <2>2. Opens(store.temp)
    BY <1>6, <1>12 DEF HeadersAt
  <2>3. CASE headers = <<>>
    <3>1. SubSeq(fed', p, Len(fed)) = SubSeq(fed, p, Len(fed))
      BY <1>1, <1>2, <1>4, PartKept
    <3>2. Len(fed') - 1 = Len(fed)
      BY <1>2, <2>1
    <3>3. SubSeq(fed, p, Len(fed)) = store.temp
      BY <1>6, <1>12, <2>3 DEF HeadersAt
    <3>4. SubSeq(fed', p, Len(fed') - 1) = store'.temp
      BY <2>1, <3>1, <3>2, <3>3
    <3> QED
      BY <1>12, <2>1, <2>2, <2>3, <3>4 DEF HeadersAt
  <2>4. CASE headers # <<>>
    BY <1>6, <1>8, <1>12, <2>1, <2>2, <2>4 DEF HeadersAt
  <2> QED
    BY <2>3, <2>4
<1>13. CASE /\ state = "Header_line" /\ ~isCarryReturn(c) /\ ~isNewLine(c)
            /\ state' = "Header_line" /\ appendToBuffer(c)
  <2>1. store'.temp = store.temp \o c /\ headers' = headers
    BY <1>1, <1>5, <1>13, StoreAppend DEF appendToBuffer
  <2>2. Opens(store.temp)
    BY <1>6, <1>13 DEF HeadersAt
  <2>3. Opens(store'.temp) /\ store'.temp[1] = store.temp[1]
    BY <1>1, <1>5, <2>1, <2>2, OpensKept
  <2>4. CASE headers = <<>>
    <3>1. SubSeq(fed, p, Len(fed)) = store.temp
      BY <1>6, <1>13, <2>4 DEF HeadersAt
    <3>2. SubSeq(fed', p, Len(fed')) = SubSeq(fed, p, Len(fed)) \o c
      <4>1. p \in 1 .. Len(fed) + 1
        BY <1>2, <1>4, <1>6, <1>13
      <4> QED
        BY <1>1, <4>1, RestGrows
    <3> QED
      BY <1>13, <2>1, <2>3, <2>4, <3>1, <3>2 DEF HeadersAt
  <2>5. CASE headers # <<>>
    BY <1>6, <1>8, <1>13, <2>1, <2>3, <2>5 DEF HeadersAt, Opens
  <2> QED
    BY <2>4, <2>5
<1>14. CASE /\ state = "Expecting_newline_2" /\ isNewLine(c)
            /\ state' = "Header_line_start" /\ onHeaderLineFinish
  <2>1. Len(c) = 1
    BY <1>14 DEF isNewLine, LF
  <2>2. p <= Len(fed)
    <3>1. CASE headers = <<>>
      <4>1. SubSeq(fed, p, Len(fed) - 1) = store.temp /\ Opens(store.temp)
        BY <1>6, <1>14, <3>1 DEF HeadersAt
      <4>2. p > Len(fed) - 1 => Len(SubSeq(fed, p, Len(fed) - 1)) = 0
        BY <1>1, <1>2, <1>4 DEF Text
      <4> QED
        BY <1>2, <1>4, <4>1, <4>2 DEF Opens
    <3>2. CASE headers # <<>>
      BY <1>6, <1>14, <3>2 DEF HeadersAt
    <3> QED
      BY <3>1, <3>2
  <2> QED
    BY <1>1, <1>4, <1>6, <1>14, <2>1, <2>2, HeaderStored
<1>15. CASE /\ state = "Expecting_newline_3" /\ isNeedBody(c)
            /\ state' = "Expecting_body" /\ restartTemp
  <2>1. headers' = headers
    BY <1>15 DEF restartTemp
  <2>2. headers # <<>>
    <3>1. SUFFICES ASSUME headers = <<>> PROVE FALSE
      OBVIOUS
    <3>2. contentLength = <<>>
      BY <3>1, LengthIs
    <3>3. Atoi(contentLength) = 0
      BY <3>2, AtoiNat, PartsText
    <3> QED
      BY <1>15, <3>3 DEF isNeedBody
  <2> QED
    BY <1>8, <1>15, <2>1, <2>2 DEF HeadersAt
<1>16. CASE state = "Expecting_newline_3" /\ state' = "Finish" /\ noAction
  <2>1. headers' = headers
    BY <1>16 DEF noAction
  <2>2. CASE headers = <<>>
    <3>1. Len(fed) = p
      BY <1>6, <1>16, <2>2 DEF HeadersAt
    <3>2. fed[Len(fed)] = "\r"
      <4>1. Len(fed) - 0 = Len(fed)
        BY <1>2
      <4> QED
        BY <1>16, <4>1 DEF BlankInv, FromEnd
    <3>3. fed'[p] = "\r" /\ p < Len(fed')
      BY <1>1, <1>2, <1>4, <3>1, <3>2, Grow
    <3> QED
      BY <1>16, <2>1, <2>2, <3>3 DEF HeadersAt
  <2>3. CASE headers # <<>>
    BY <1>8, <1>16, <2>1, <2>3 DEF HeadersAt
  <2> QED
    BY <2>2, <2>3
<1>17. CASE state = "Expecting_body" /\ state' \in {"Expecting_body", "Finish"} /\ headers' = headers
  <2>1. headers # <<>>
    BY <1>6, <1>17 DEF HeadersAt
  <2> QED
    BY <1>8, <1>17, <2>1 DEF HeadersAt
<1>18. state = "Expecting_body" => state' \in {"Expecting_body", "Finish"} /\ headers' = headers
  BY DEF Taken, appendToBuffer, onBodyFinish
<1> QED
  BY <1>9, <1>10, <1>11, <1>12, <1>13, <1>14, <1>15, <1>16, <1>17, <1>18
     DEF Taken, AfterLine, InHeaders

\* Every step keeps the line and the header lines where they are.
LEMMA HeaderNext ==
  ASSUME Types, Types', LineInv, HeaderInv, BlankInv, BodyInv, NEW c, Fed(c), Taken(c),
         state \notin {"Error", "Finish"}
  PROVE  HeaderInv'
<1>1. CASE state' \in InLine \cup {"Error"}
  BY <1>1 DEF HeaderInv
<1>2. CASE state = "Minor" /\ state' = "Expecting_newline_1"
  BY <1>2, LineAtEnd DEF HeaderInv
<1>3. CASE state \in AfterLine /\ state' \notin InLine \cup {"Error"}
  <2>1. PICK n \in 1 .. Len(fed) :
          LineAt(n) /\ (state # "Expecting_newline_1" => HeadersAt(n + 2))
    BY <1>3 DEF HeaderInv, AfterLine, InHeaders, InLine
  <2>2. n \in 1 .. Len(fed') /\ LineAt(n)'
    BY <1>3, <2>1, LineAtKept
  <2>3. HeadersAt(n + 2)'
    BY <1>3, <2>1, HeadersNext
  <2> QED
    BY <2>2, <2>3 DEF HeaderInv
<1> QED
  BY <1>1, <1>2, <1>3 DEF Taken, Row, InLine, AfterLine, InHeaders
-----------------------------------------------------------------------------
(***************************************************************************)
(* The blank line and the body.                                            *)
(***************************************************************************)
NoBlank(s) == \A i \in 1 .. Len(s) - 3 : ~BlankAt(s, i)

\* The invariant's part on blank lines, token by token.
LEMMA NoBlankIs ==
  ASSUME Types
  PROVE  (\A i \in 1 .. Len(fed) - 3 : ~Occurs(BlankLine, i)) <=> NoBlank(fed)
BY BlankIs DEF Types, Occurs, NoBlank

\* The same after a step.
LEMMA NoBlankIsNext ==
  ASSUME Types'
  PROVE  (\A i \in 1 .. Len(fed') - 3 : ~Occurs(BlankLine, i)') <=> NoBlank(fed')
BY BlankIs DEF Types, Occurs, NoBlank

\* No blank line appears when no line ends.
LEMMA NoBlankGrows ==
  ASSUME NEW s \in Text, NEW c \in Text, NoBlank(s),
         \A k \in 1 .. Len(c) : c[k] # "\n"
  PROVE  NoBlank(s \o c)
<1>1. /\ Len(s) \in Nat /\ Len(c) \in Nat /\ Len(s \o c) = Len(s) + Len(c)
      /\ \A k \in 1 .. Len(s) : (s \o c)[k] = s[k]
      /\ \A k \in 1 .. Len(c) : (s \o c)[Len(s) + k] = c[k]
  BY Grow
<1> DEFINE t == s \o c
<1> SUFFICES ASSUME NEW i \in 1 .. Len(t) - 3, BlankAt(t, i) PROVE FALSE
  BY DEF NoBlank
<1>2. CASE i + 3 <= Len(s)
  <2>1. i \in 1 .. Len(s) - 3
    BY <1>1, <1>2
  <2>2. t[i] = s[i] /\ t[i + 1] = s[i + 1] /\ t[i + 2] = s[i + 2] /\ t[i + 3] = s[i + 3]
    BY <1>1, <2>1
  <2>3. BlankAt(s, i)
    BY <2>2 DEF BlankAt
  <2> QED
    BY <2>1, <2>3 DEF NoBlank
<1>3. CASE i + 3 > Len(s)
  <2>1. PICK k \in 1 .. Len(c) : i + 3 = Len(s) + k
    <3>1. i + 3 - Len(s) \in 1 .. Len(c) /\ i + 3 = Len(s) + (i + 3 - Len(s))
      BY <1>1, <1>3
    <3> QED
      BY <3>1
  <2>2. t[i + 3] = c[k]
    BY <1>1, <2>1
  <2> QED
    BY <2>2 DEF BlankAt
<1> QED
  BY <1>1, <1>2, <1>3

\* A line that ends is no blank line when the token before its carriage
\* return ends no line.
LEMMA NoBlankLine ==
  ASSUME NEW s \in Text, NoBlank(s), Len(s) > 1 => s[Len(s) - 1] # "\n"
  PROVE  NoBlank(s \o LF)
<1>0. LF \in Text /\ Len(LF) = 1
  BY CharText DEF Chars
<1>1. /\ Len(s) \in Nat /\ Len(s \o LF) = Len(s) + 1
      /\ \A k \in 1 .. Len(s) : (s \o LF)[k] = s[k]
  <2>1. Len(s \o LF) = Len(s) + Len(LF)
    BY <1>0, Grow
  <2> QED
    BY <1>0, <2>1, Grow
<1> DEFINE t == s \o LF
<1> SUFFICES ASSUME NEW i \in 1 .. Len(t) - 3, BlankAt(t, i) PROVE FALSE
  BY DEF NoBlank
<1>2. CASE i + 3 <= Len(s)
  <2>1. i \in 1 .. Len(s) - 3
    BY <1>1, <1>2
  <2>2. t[i] = s[i] /\ t[i + 1] = s[i + 1] /\ t[i + 2] = s[i + 2] /\ t[i + 3] = s[i + 3]
    BY <1>1, <2>1
  <2>3. BlankAt(s, i)
    BY <2>2 DEF BlankAt
  <2> QED
    BY <2>1, <2>3 DEF NoBlank
<1>3. CASE i + 3 > Len(s)
  <2>1. i + 1 = Len(s) - 1 /\ i + 1 \in 1 .. Len(s)
    BY <1>1, <1>3
  <2>2. t[i + 1] = s[Len(s) - 1]
    BY <1>1, <2>1
  <2> QED
    BY <1>1, <2>1, <2>2 DEF BlankAt
<1> QED
  BY <1>1, <1>2, <1>3

\* The token before the last, and the last, once a character came.
LEMMA Ends ==
  ASSUME NEW s \in Text, NEW c \in Text, Len(c) > 0
  PROVE  /\ (s \o c)[Len(s \o c)] = c[Len(c)]
         /\ Len(c) = 1 /\ Len(s) > 0 => (s \o c)[Len(s \o c) - 1] = s[Len(s)]
         /\ Len(c) = 1 /\ Len(s) > 1 => (s \o c)[Len(s \o c) - 2] = s[Len(s) - 1]
<1>1. /\ Len(s) \in Nat /\ Len(c) \in Nat /\ Len(s \o c) = Len(s) + Len(c)
      /\ \A k \in 1 .. Len(s) : (s \o c)[k] = s[k]
      /\ \A k \in 1 .. Len(c) : (s \o c)[Len(s) + k] = c[k]
  BY Grow
<1>2. Len(c) \in 1 .. Len(c)
  BY <1>1
<1>3. (s \o c)[Len(s \o c)] = c[Len(c)]
  BY <1>1, <1>2
<1>4. Len(c) = 1 /\ Len(s) > 0 => Len(s) \in 1 .. Len(s) /\ Len(s \o c) - 1 = Len(s)
  BY <1>1
<1>5. Len(c) = 1 /\ Len(s) > 1 => Len(s) - 1 \in 1 .. Len(s) /\ Len(s \o c) - 2 = Len(s) - 1
  BY <1>1
<1> QED
  BY <1>1, <1>3, <1>4, <1>5

\* Every step keeps the parser's place: no blank line before it saw one.
LEMMA BlankNext ==
  ASSUME Types, Types', LineInv, HeaderInv, BlankInv, NEW c, Fed(c), Taken(c),
         state \notin {"Error", "Finish"}
  PROVE  BlankInv'
<1> USE DEF Row
<1>1. c \in Text /\ c \in Lexemes /\ Len(c) > 0 /\ fed' = fed \o c /\ fed \in Text
  BY LexemeText DEF Fed, Types
<1>2. Len(fed) \in Nat /\ Len(c) \in Nat /\ Len(fed') = Len(fed) + Len(c)
  BY <1>1, Grow
<1>3. SUFFICES ASSUME state' \in InHeaders PROVE BlankInv'
  BY DEF BlankInv, InHeaders
<1>4. state \in AfterLine /\ state # "Expecting_body"
  BY <1>3 DEF Taken, AfterLine, InHeaders
<1>5. PICK n \in 1 .. Len(fed) :
        LineAt(n) /\ (state # "Expecting_newline_1" => HeadersAt(n + 2))
  BY <1>4 DEF HeaderInv, AfterLine, InHeaders, InLine
<1>6. Len(fed) > 0 /\ (state # "Expecting_newline_1" => Len(fed) > 1)
  BY <1>2, <1>5 DEF LineAt
<1>7. Len(fed) - 0 = Len(fed) /\ Len(fed') - 0 = Len(fed')
  BY <1>2
<1>8. state \in InHeaders => NoBlank(fed)
  BY NoBlankIs DEF BlankInv, InHeaders
<1>9. /\ fed'[Len(fed')] = c[Len(c)]
      /\ Len(c) = 1 => fed'[Len(fed') - 1] = fed[Len(fed)]
      /\ Len(c) = 1 /\ Len(fed) > 1 => fed'[Len(fed') - 2] = fed[Len(fed) - 1]
  BY <1>1, <1>6, Ends
<1>10. isNewLine(c) => c = LF /\ Len(c) = 1 /\ c[1] = "\n"
  BY DEF isNewLine, LF
<1>11. isCarryReturn(c) => Len(c) = 1 /\ c[1] = "\r"
  BY DEF isCarryReturn, CR
<1>12. SUFFICES /\ NoBlank(fed')
                /\ state' = "Header_line_start" =>
                     fed'[Len(fed') - 1] = "\r" /\ fed'[Len(fed')] = "\n"
                /\ state' = "Header_line" => fed'[Len(fed')] \notin {"\r", "\n"}
                /\ state' = "Expecting_newline_2" =>
                     fed'[Len(fed') - 1] \notin {"\r", "\n"} /\ fed'[Len(fed')] = "\r"
                /\ state' = "Expecting_newline_3" =>
                     /\ fed'[Len(fed') - 2] = "\r" /\ fed'[Len(fed') - 1] = "\n"
                     /\ fed'[Len(fed')] = "\r"
  BY <1>7, NoBlankIsNext DEF BlankInv, FromEnd
<1>13. CASE state = "Expecting_newline_1" /\ isNewLine(c) /\ state' = "Header_line_start"
  <2>1. Len(fed) = n /\ fed[n] = "\r" /\ \A k \in 1 .. n - 1 : fed[k] \notin {"\r", "\n"}
    BY <1>5, <1>13 DEF LineAt
  <2>2. NoBlank(fed)
    BY <1>2, <2>1 DEF NoBlank, BlankAt
  <2>3. Len(fed) > 1 => fed[Len(fed) - 1] # "\n"
    BY <1>2, <2>1
  <2>4. NoBlank(fed')
    BY <1>1, <1>10, <1>13, <2>2, <2>3, NoBlankLine
  <2> QED
    BY <1>9, <1>10, <1>13, <2>1, <2>4
<1>14. CASE state = "Header_line_start" /\ isCarryReturn(c) /\ state' = "Expecting_newline_3"
  <2>1. fed[Len(fed) - 1] = "\r" /\ fed[Len(fed)] = "\n"
    BY <1>7, <1>14 DEF BlankInv, FromEnd
  <2>2. NoBlank(fed')
    <3>1. \A k \in 1 .. Len(c) : c[k] # "\n"
      <4>1. Len(c) = 1 /\ c[1] = "\r"
        BY <1>11, <1>14
      <4>2. \A k \in 1 .. 1 : k = 1
        OBVIOUS
      <4> QED
        BY <4>1, <4>2
    <3> QED
      BY <1>1, <1>8, <1>14, <3>1, NoBlankGrows DEF InHeaders
  <2> QED
    BY <1>6, <1>9, <1>11, <1>14, <2>1, <2>2
<1>15. CASE /\ state' = "Header_line" /\ state \in InHeaders
            /\ \/ state = "Header_line_start" /\ isAlpha(c)
               \/ state = "Header_line" /\ ~isCarryReturn(c) /\ ~isNewLine(c)
  <2>1. c \in HeaderTexts
    BY <1>1, <1>15, PieceFed
  <2>2. \A k \in 1 .. Len(c) : c[k] \notin {"\r", "\n"}
    BY <2>1, PieceText DEF NoBreak
  <2>3. NoBlank(fed')
    BY <1>1, <1>8, <1>15, <2>2, NoBlankGrows
  <2>4. Len(c) \in 1 .. Len(c)
    BY <1>1, <1>2
  <2> QED
    BY <1>9, <1>15, <2>2, <2>3, <2>4
<1>16. CASE state = "Header_line" /\ isCarryReturn(c) /\ state' = "Expecting_newline_2"
  <2>1. fed[Len(fed)] \notin {"\r", "\n"}
    BY <1>7, <1>16 DEF BlankInv, FromEnd
  <2>2. NoBlank(fed')
    <3>1. \A k \in 1 .. Len(c) : c[k] # "\n"
      <4>1. Len(c) = 1 /\ c[1] = "\r"
        BY <1>11, <1>16
      <4>2. \A k \in 1 .. 1 : k = 1
        OBVIOUS
      <4> QED
        BY <4>1, <4>2
    <3> QED
      BY <1>1, <1>8, <1>16, <3>1, NoBlankGrows DEF InHeaders
  <2> QED
    BY <1>9, <1>11, <1>16, <2>1, <2>2
<1>17. CASE state = "Expecting_newline_2" /\ isNewLine(c) /\ state' = "Header_line_start"
  <2>1. fed[Len(fed) - 1] # "\n" /\ fed[Len(fed)] = "\r"
    BY <1>7, <1>17 DEF BlankInv, FromEnd
  <2>2. NoBlank(fed')
    BY <1>1, <1>8, <1>10, <1>17, <2>1, NoBlankLine DEF InHeaders
  <2> QED
    BY <1>9, <1>10, <1>17, <2>1, <2>2
<1> QED
  BY <1>3, <1>13, <1>14, <1>15, <1>16, <1>17 DEF Taken, InHeaders

\* What contentLength() finds is a text.
LEMMA LengthText ==
  ASSUME Types, NEW p \in Nat \ {0}, HeadersAt(p)
  PROVE  contentLength \in Text /\ Atoi(contentLength) \in Nat
<1>1. CASE headers = <<>>
  <2>1. contentLength = <<>>
    BY <1>1, LengthIs
  <2> QED
    BY <2>1, PartsText, AtoiNat
<1>2. CASE headers # <<>>
  <2>1. FirstHeaderAt(p) /\ Len(headers) > 0
    BY <1>2 DEF HeadersAt, Types
  <2>2. contentLength \in Text
    BY <2>1, LengthIs, PartsText DEF FirstHeaderAt
  <2> QED
    BY <2>2, AtoiNat
<1> QED
  BY <1>1, <1>2

\* The blank line is found where the parser met it.
LEMMA BlankFound ==
  ASSUME Types, Types', LineInv, HeaderInv, BlankInv, NEW c, Fed(c),
         state = "Expecting_newline_3", c = LF
  PROVE  \E b \in 1 .. Len(fed') - 3 :
           First(BlankLine, b)' /\ SubSeq(fed', b + 4, Len(fed')) = <<>>
<1>1. c \in Text /\ fed' = fed \o c /\ fed \in Text /\ fed' \in Text
  BY LexemeText DEF Fed, Types
<1>2. Len(c) = 1 /\ c[1] = "\n"
  BY DEF LF
<1>3. Len(fed) \in Nat /\ Len(fed') = Len(fed) + 1
  <2>1. Len(fed \o c) = Len(fed) + Len(c) /\ Len(fed) \in Nat
    BY <1>1, Grow
  <2> QED
    BY <1>1, <1>2, <2>1
<1>4. PICK n \in 1 .. Len(fed) : LineAt(n) /\ HeadersAt(n + 2)
  BY DEF HeaderInv, InLine
<1>5. Len(fed) > 2
  <2>1. n + 2 <= Len(fed)
    BY <1>3, <1>4 DEF HeadersAt
  <2> QED
    BY <1>3, <2>1
<1>6. fed[Len(fed) - 2] = "\r" /\ fed[Len(fed) - 1] = "\n" /\ fed[Len(fed)] = "\r"
  <2>1. Len(fed) - 0 = Len(fed)
    BY <1>3
  <2> QED
    BY <2>1 DEF BlankInv, FromEnd
<1>7. \A k \in 1 .. Len(fed) : fed'[k] = fed[k]
  BY <1>1, Grow
<1>8. fed'[Len(fed) + 1] = "\n"
  <2>1. 1 \in 1 .. Len(c)
    BY <1>2
  <2> QED
    <3>1. (fed \o c)[Len(fed) + 1] = c[1]
      BY <1>1, <2>1, Grow
    <3> QED
      BY <1>1, <1>2, <3>1
<1>9. PICK b \in 1 .. Len(fed') - 3 : b = Len(fed) - 2
  BY <1>3, <1>5
<1>10. b + 1 = Len(fed) - 1 /\ b + 2 = Len(fed) /\ b + 3 = Len(fed) + 1
  BY <1>3, <1>9
<1>11. BlankAt(fed', b)
  <2>1. b \in 1 .. Len(fed) /\ b + 1 \in 1 .. Len(fed) /\ b + 2 \in 1 .. Len(fed)
    BY <1>3, <1>5, <1>9
  <2>2. fed'[b] = "\r" /\ fed'[b + 1] = "\n" /\ fed'[b + 2] = "\r"
    BY <1>6, <1>7, <1>9, <1>10, <2>1
  <2> QED
    BY <1>8, <1>10, <2>2 DEF BlankAt
<1>12. \A j \in 1 .. b - 1 : ~BlankAt(fed', j)
  <2> SUFFICES ASSUME NEW j \in 1 .. b - 1, BlankAt(fed', j) PROVE FALSE
    OBVIOUS
  <2>1. /\ j \in 1 .. Len(fed) - 3 /\ j \in 1 .. Len(fed) /\ j + 1 \in 1 .. Len(fed)
        /\ j + 2 \in 1 .. Len(fed) /\ j + 3 \in 1 .. Len(fed)
    BY <1>3, <1>5, <1>9
  <2>2. BlankAt(fed, j)
    BY <1>7, <2>1 DEF BlankAt
  <2>3. NoBlank(fed)
    BY NoBlankIs DEF BlankInv
  <2> QED
    BY <2>1, <2>2, <2>3 DEF NoBlank
<1>13. First(BlankLine, b)'
  <2>1. SubSeq(fed', b, b + Len(BlankLine) - 1) = BlankLine
    BY <1>1, <1>11, BlankIs
  <2>2. \A j \in 1 .. b - 1 : ~(SubSeq(fed', j, j + Len(BlankLine) - 1) = BlankLine)
    <3>1. \A j \in 1 .. b - 1 : j \in 1 .. Len(fed') - 3
      BY <1>3, <1>9
    <3> QED
      BY <1>1, <1>12, <3>1, BlankIs
  <2>3. b \in 1 .. Len(fed')
    BY <1>3, <1>9, <1>5
  <2> QED
    BY <2>1, <2>2, <2>3 DEF First, Occurs, BlankLine
<1>14. SubSeq(fed', b + 4, Len(fed')) = <<>>
  <2>1. b + 4 > Len(fed')
    BY <1>3, <1>9
  <2> QED
    BY <1>1, <1>3, <1>9, <2>1 DEF Text
<1> QED
  BY <1>13, <1>14

\* The blank line stays where it is, and the text after it grows.
LEMMA BodyGrows ==
  ASSUME Types, NEW c \in Text, fed' = fed \o c, BodyAfter(store.temp)
  PROVE  \E b \in 1 .. Len(fed') - 3 :
           First(BlankLine, b)' /\ SubSeq(fed', b + 4, Len(fed')) = store.temp \o c
<1>1. fed \in Text /\ Len(fed) \in Nat /\ Len(c) \in Nat /\ Len(fed') = Len(fed) + Len(c)
  BY Grow DEF Types
<1>2. PICK b \in 1 .. Len(fed) - 3 :
        First(BlankLine, b) /\ store.temp = SubSeq(fed, b + 4, Len(fed))
  BY DEF BodyAfter
<1>3. Len(BlankLine) = 4
  BY DEF BlankLine, CR, LF
<1>4. \A j \in 1 .. b : SubSeq(fed', j, j + 3) = SubSeq(fed, j, j + 3)
  <2>1. \A j \in 1 .. b : j \in Nat \ {0} /\ j + 3 \in 0 .. Len(fed)
    BY <1>1
  <2> QED
    BY <1>1, <2>1, PartKept
<1>5. \A j \in 1 .. b : j + Len(BlankLine) - 1 = j + 3
  BY <1>3
<1>6. \A j \in 1 .. b :
        SubSeq(fed', j, j + Len(BlankLine) - 1) = SubSeq(fed, j, j + Len(BlankLine) - 1)
  BY <1>4, <1>5
<1>7. SubSeq(fed', b, b + Len(BlankLine) - 1) = BlankLine
  <2>1. b \in 1 .. b
    BY <1>1
  <2>2. SubSeq(fed, b, b + Len(BlankLine) - 1) = BlankLine
    BY <1>2 DEF First, Occurs
  <2> QED
    BY <1>6, <2>1, <2>2
<1>8. \A j \in 1 .. b - 1 : ~(SubSeq(fed', j, j + Len(BlankLine) - 1) = BlankLine)
  <2>1. \A j \in 1 .. b - 1 : j \in 1 .. b
    BY <1>1
  <2>2. \A j \in 1 .. b - 1 : ~(SubSeq(fed, j, j + Len(BlankLine) - 1) = BlankLine)
    BY <1>2 DEF First, Occurs
  <2> QED
    BY <1>6, <2>1, <2>2
<1>9. b \in 1 .. Len(fed') /\ b \in 1 .. Len(fed') - 3 /\ b + 4 \in 1 .. Len(fed) + 1
  BY <1>1
<1>10. First(BlankLine, b)'
  BY <1>7, <1>8, <1>9 DEF First, Occurs, BlankLine
<1>11. SubSeq(fed', b + 4, Len(fed')) = store.temp \o c
  BY <1>1, <1>2, <1>9, RestGrows
<1> QED
  BY <1>9, <1>10, <1>11

\* Every step keeps the body where the blank line and the length put it.
LEMMA BodyNext ==
  ASSUME Types, Types', LineInv, HeaderInv, BlankInv, BodyInv, NEW c, Fed(c), Taken(c),
         state \notin {"Error", "Finish"}
  PROVE  BodyInv'
<1> USE DEF Row
<1>1. c \in Text /\ fed' = fed \o c /\ fed \in Text
  BY LexemeText DEF Fed, Types
<1>2. body = <<>>
  BY DEF BodyInv
<1>3. CASE state' \notin {"Expecting_body", "Finish"}
  <2>1. state' = "Error" \/ body' = <<>>
    BY <1>2, <1>3 DEF Taken, appendToBuffer, onMethodFinish, restartTemp, noAction,
                      onHeaderLineFinish
  <2>2. state' \in InLine \cup {"Expecting_newline_1"} => headers' = <<>>
    BY DEF BodyInv, Taken, InLine, appendToBuffer, onMethodFinish, restartTemp
  <2> QED
    BY <1>3, <2>1, <2>2 DEF BodyInv
<1>4. headers' = headers => contentLength' = contentLength
  BY DEF contentLength, SelectInSeq
<1>5. CASE state' \in {"Expecting_body", "Finish"}
  <2>0. state \in {"Expecting_newline_3", "Expecting_body"}
    BY <1>5 DEF Taken
  <2>1. PICK n \in 1 .. Len(fed) : HeadersAt(n + 2)
    BY <2>0 DEF HeaderInv, InLine
  <2>2. Atoi(contentLength) \in Nat
    <3>1. n + 2 \in Nat \ {0}
      OBVIOUS
    <3> QED
      BY <2>1, <3>1, LengthText
  <2>3. buffer = "temp" /\ store'.method = store.method /\ store.temp \in Text
    BY <1>5, <2>0, FieldsKept DEF AfterLine, InHeaders, Types
  <2>4. state' \notin InLine \cup {"Expecting_newline_1"}
    BY <1>5 DEF InLine
  <2>5. CASE state = "Expecting_newline_3" /\ isNeedBody(c) /\ state' = "Expecting_body" /\ restartTemp
    <3>1. c = LF /\ store.method = <<"POST">> /\ Atoi(contentLength) > 0
      BY <2>5 DEF isNeedBody
    <3>2. headers' = headers /\ body' = <<>> /\ store'.temp = <<>>
      BY <1>2, <2>5, StoreRestart DEF restartTemp
    <3>3. BodyAfter(store.temp)'
      BY <2>5, <3>1, <3>2, BlankFound DEF BodyAfter
    <3>4. Len(store'.temp) < Atoi(contentLength)
      BY <2>2, <3>1, <3>2
    <3>5. Atoi(contentLength)' = Atoi(contentLength)
      BY <1>4, <3>2 DEF Atoi, Digits
    <3> QED
      BY <2>3, <2>4, <2>5, <3>1, <3>2, <3>3, <3>4, <3>5 DEF BodyInv
  <2>6. CASE /\ state = "Expecting_newline_3" /\ isNewLine(c) /\ ~isNeedBody(c)
             /\ state' = "Finish" /\ noAction
    <3>1. c = LF
      BY <2>6 DEF isNewLine
    <3>2. store.method = <<"POST">> => Atoi(contentLength) = 0
      BY <2>2, <2>6, <3>1 DEF isNeedBody
    <3>3. headers' = headers /\ body' = <<>> /\ Len(body') = 0
      BY <1>2, <2>6 DEF noAction
    <3>4. BodyAfter(body)'
      BY <2>6, <3>1, <3>3, BlankFound DEF BodyAfter
    <3>5. Atoi(contentLength)' = Atoi(contentLength)
      BY <1>4, <3>3 DEF Atoi, Digits
    <3> QED
      BY <2>3, <2>4, <2>6, <3>2, <3>3, <3>4, <3>5 DEF BodyInv
  <2>7. CASE /\ state = "Expecting_body" /\ needMoreBody(c)
             /\ state' = "Expecting_body" /\ appendToBuffer(c)
    <3>1. store'.temp = store.temp \o c /\ headers' = headers /\ body' = <<>>
      BY <1>1, <1>2, <2>3, <2>7, StoreAppend DEF appendToBuffer
    <3>2. Len(c) = 1
      BY <2>7, LexemeText, CharText DEF Fed
    <3>3. Len(store'.temp) < Atoi(contentLength)
      <4>1. Len(store.temp \o c) = Len(store.temp) + Len(c)
        BY <1>1, <2>3, Grow
      <4>2. Len(store.temp) + 1 < Atoi(contentLength)
        BY <2>3, <2>7 DEF needMoreBody
      <4> QED
        BY <3>1, <3>2, <4>1, <4>2
    <3>4. BodyAfter(store.temp)'
      BY <1>1, <2>7, <3>1, BodyGrows DEF BodyInv, BodyAfter
    <3>5. Atoi(contentLength)' = Atoi(contentLength)
      BY <1>4, <3>1 DEF Atoi, Digits
    <3> QED
      BY <2>3, <2>4, <2>7, <3>1, <3>3, <3>4, <3>5 DEF BodyInv
  <2>8. CASE /\ state = "Expecting_body" /\ ~needMoreBody(c)
             /\ state' = "Finish" /\ onBodyFinish(c)
    <3>1. body' = store.temp \o c /\ headers' = headers
      BY <1>1, <2>3, <2>8, StoreBody DEF onBodyFinish
    <3>2. Len(c) = 1
      BY <2>8, LexemeText, CharText DEF Fed
    <3>3. Len(body') = Atoi(contentLength)
      <4>1. Len(store.temp \o c) = Len(store.temp) + Len(c) /\ Len(store.temp) \in Nat
        BY <1>1, <2>3, Grow
      <4>2. ~(Len(store.temp) + 1 < Atoi(contentLength))
        BY <2>3, <2>8 DEF needMoreBody
      <4>3. Len(store.temp) < Atoi(contentLength)
        BY <2>8 DEF BodyInv
      <4> QED
        BY <2>2, <3>1, <3>2, <4>1, <4>2, <4>3
    <3>4. BodyAfter(body)'
      BY <1>1, <2>8, <3>1, BodyGrows DEF BodyInv, BodyAfter
    <3>5. Atoi(contentLength)' = Atoi(contentLength)
      BY <1>4, <3>1 DEF Atoi, Digits
    <3>6. store'.method = <<"POST">>
      BY <2>3, <2>8 DEF BodyInv
    <3> QED
      BY <2>4, <2>8, <3>3, <3>4, <3>5, <3>6 DEF BodyInv
  <2> QED
    BY <1>5, <2>5, <2>6, <2>7, <2>8 DEF Taken
<1> QED
  BY <1>3, <1>5
-----------------------------------------------------------------------------
(***************************************************************************)
(* The theorems.                                                           *)
(***************************************************************************)
\* The parser starts with nothing read.
LEMMA InitIInv == Init => IInv
<1> SUFFICES ASSUME Init PROVE IInv
  OBVIOUS
<1>1. Types
  BY DEF Init, Types, Text
<1>2. Bounded
  <2>1. Len(store.method) = 0 /\ Len(store.uri) = 0 /\ Len(store.temp) = 0
    BY DEF Init
  <2> QED
    BY <2>1, ParserAssumption DEF Bounded
<1>3. LineInv /\ BlankInv /\ HeaderInv /\ BodyInv
  BY DEF Init, LineInv, BlankInv, HeaderInv, BodyInv, NoBreak, InLine
<1> QED
  BY <1>1, <1>2, <1>3 DEF IInv

\* Every step keeps the invariant.
LEMMA NextIInv == IInv /\ [Next]_vars => IInv'
<1> SUFFICES ASSUME IInv, [Next]_vars PROVE IInv'
  OBVIOUS
<1>1. CASE Next
  <2>1. PICK c \in Lexemes : process_event(c) /\ fed' = fed \o c
    BY <1>1 DEF Next, Feed
  <2>2. state \notin {"Error", "Finish"} /\ Bounded'
    BY <1>1 DEF Next, Feed
  <2>3. Fed(c) /\ Taken(c)
    BY <2>1, <2>2, FirstRow DEF Fed
  <2>4. Types'
    BY <2>3, TypesNext DEF IInv
  <2> QED
    BY <2>2, <2>3, <2>4, LineNext, HeaderNext, BlankNext, BodyNext DEF IInv
<1>2. CASE UNCHANGED vars
  <2>1. /\ state' = state /\ store' = store /\ buffer' = buffer
        /\ headers' = headers /\ body' = body /\ fed' = fed
    BY <1>2 DEF vars
  <2>2. Types' /\ Bounded'
    BY <2>1 DEF IInv, Types, Bounded
  <2>3. LineInv'
    BY <2>1 DEF IInv, LineInv, Line, Target
  <2>4. BlankInv'
    BY <2>1 DEF IInv, BlankInv, Occurs, FromEnd
  <2>5. HeaderInv'
    <3>1. CASE state \in InLine \cup {"Error"}
      BY <2>1, <3>1 DEF HeaderInv
    <3>2. CASE state \notin InLine \cup {"Error"}
      <4>1. PICK n \in 1 .. Len(fed) :
              LineAt(n) /\ (state # "Expecting_newline_1" => HeadersAt(n + 2))
        BY <3>2 DEF IInv, HeaderInv
      <4>2. LineAt(n)'
        BY <2>1, <4>1 DEF LineAt, Line, Target
      <4>3. state # "Expecting_newline_1" => HeadersAt(n + 2)'
        BY <2>1, <4>1 DEF HeadersAt, FirstHeaderAt
      <4> QED
        BY <2>1, <4>2, <4>3 DEF HeaderInv
    <3> QED
      BY <3>1, <3>2
  <2>6. contentLength' = contentLength
    BY <2>1 DEF contentLength, SelectInSeq
  <2>7. BodyInv'
    <3>1. Atoi(contentLength)' = Atoi(contentLength)
      BY <2>6 DEF Atoi, Digits
    <3>2. BodyAfter(store.temp)' = BodyAfter(store.temp) /\ BodyAfter(body)' = BodyAfter(body)
      BY <2>1 DEF BodyAfter, First, Occurs, BlankLine
    <3> QED
      BY <2>1, <3>1, <3>2 DEF IInv, BodyInv
  <2> QED
    BY <2>2, <2>3, <2>4, <2>5, <2>7 DEF IInv
<1> QED
  BY <1>1, <1>2 DEF Next

\* What each state of the parser keeps of the text: the fields of the request
\* line so far, no blank line before the headers end, the first header's
\* length, and the body so far.
THEOREM ParserInvariant == Spec => []IInv
<1>1. Init => IInv
  BY InitIInv
<1>2. IInv /\ [Next]_vars => IInv'
  BY NextIInv
<1> QED
  BY <1>1, <1>2, PTL DEF Spec

\* A pattern has one first place.
LEMMA AtIs ==
  ASSUME NEW pattern, NEW i, First(pattern, i)
  PROVE  At(pattern) = i
<1>1. \A j \in 1 .. Len(fed) : First(pattern, j) => j = i
  <2> SUFFICES ASSUME NEW j \in 1 .. Len(fed), First(pattern, j) PROVE j = i
    OBVIOUS
  <2>1. i \in 1 .. Len(fed) /\ i \in Int /\ j \in Int
    BY DEF First
  <2>2. ~(i < j) /\ ~(j < i)
    BY <2>1 DEF First
  <2> QED
    BY <2>1, <2>2
<1>2. i \in 1 .. Len(fed)
  BY DEF First
<1> QED
  BY <1>1, <1>2, Zenon DEF At

\* A pattern of one token occurs where that token is.
LEMMA TokenOccurs ==
  ASSUME Types, NEW t, NEW i \in 1 .. Len(fed)
  PROVE  Occurs(<<t>>, i) <=> fed[i] = t
<1>1. fed \in Text /\ Len(fed) \in Nat /\ i + Len(<<t>>) - 1 = i
  BY DEF Types, Text
<1>2. SubSeq(fed, i, i) \in Seq(Token) /\ Len(SubSeq(fed, i, i)) = 1 /\ SubSeq(fed, i, i)[1] = fed[i]
  BY <1>1 DEF Text
<1>3. SubSeq(fed, i, i) = <<fed[i]>>
  BY <1>2, OneElement
<1>4. <<fed[i]>> = <<t>> <=> fed[i] = t
  OBVIOUS
<1> QED
  BY <1>1, <1>3, <1>4 DEF Occurs

\* The first carriage return ends the line, the first newline follows it.
LEMMA LineFound ==
  ASSUME Types, NEW n \in 1 .. Len(fed), LineAt(n), state # "Expecting_newline_1"
  PROVE  At(CR) = n /\ At(LF) = n + 1
<1>1. Len(fed) \in Nat /\ n < Len(fed) /\ fed[n] = "\r" /\ fed[n + 1] = "\n"
  BY DEF LineAt, Types, Text
<1>2. \A k \in 1 .. n - 1 : k \in 1 .. Len(fed) /\ fed[k] # "\r" /\ fed[k] # "\n"
  BY <1>1 DEF LineAt
<1>3. First(CR, n)
  <2>1. \A k \in 1 .. n - 1 : ~Occurs(<<"\r">>, k)
    BY <1>2, TokenOccurs
  <2>2. Occurs(<<"\r">>, n)
    BY <1>1, TokenOccurs
  <2> QED
    BY <2>1, <2>2 DEF First, CR
<1>4. First(LF, n + 1)
  <2>1. \A k \in 1 .. (n + 1) - 1 : k \in 1 .. n - 1 \/ k = n
    BY <1>1
  <2>2. \A k \in 1 .. (n + 1) - 1 : k \in 1 .. Len(fed) /\ fed[k] # "\n"
    BY <1>1, <1>2, <2>1
  <2>3. \A k \in 1 .. (n + 1) - 1 : ~Occurs(<<"\n">>, k)
    BY <2>2, TokenOccurs
  <2>4. n + 1 \in 1 .. Len(fed)
    BY <1>1
  <2>5. Occurs(<<"\n">>, n + 1)
    BY <1>1, <2>4, TokenOccurs
  <2> QED
    BY <2>3, <2>4, <2>5 DEF First, LF
<1> QED
  BY <1>3, <1>4, AtIs

\* A finished request's line is its fields put together.
LEMMA LineReadsBack == IInv => RequestLineRoundTrip
<1> SUFFICES ASSUME IInv, state = "Finish" PROVE RequestLineRoundTrip
  BY DEF RequestLineRoundTrip
<1>1. PICK n \in 1 .. Len(fed) : LineAt(n)
  BY DEF IInv, HeaderInv, InLine
<1>2. At(CR) = n
  BY <1>1, LineFound DEF IInv
<1>3. \E major, minor \in Number : SubSeq(fed, 1, n - 1) = Line(major, minor)
  BY <1>1 DEF LineAt
<1>4. store.method \in {<<"GET">>, <<"POST">>}
  BY DEF IInv, LineInv
<1> QED
  BY <1>2, <1>3, <1>4 DEF RequestLineRoundTrip, Before, Number, Line, Target

\* The length that contentLength() gives is the one the first line declares.
LEMMA LengthDeclared ==
  ASSUME Types, state = "Finish", NEW p \in Nat \ {0}, HeadersAt(p)
  PROVE  Declared(p) = Atoi(contentLength)
<1>1. fed \in Text /\ Len(fed) \in Nat
  BY DEF Types, Text
<1>2. ASSUME fed[p] # "Content-Length", contentLength = <<>>
      PROVE  Declared(p) = Atoi(contentLength)
  BY <1>2, AtoiNat, PartsText DEF Declared
<1>3. CASE headers = <<>>
  BY <1>2, <1>3, LengthIs DEF HeadersAt
<1>4. CASE /\ fed[p] = "Host"
           /\ \A i \in 1 .. Len(headers) : headers[i][1] # <<"Content-Length">>
  BY <1>2, <1>4, LengthIs
<1>5. CASE /\ headers # <<>>
           /\ fed[p] = "Content-Length" /\ fed[p + 1] = ":"
           /\ headers[1][1] = <<"Content-Length">>
           /\ \E q \in p + 2 .. Len(fed) :
                fed[q] = "\r" /\ headers[1][2] = SubSeq(fed, p + 2, q - 1)
  <2>1. PICK q \in p + 2 .. Len(fed) :
          fed[q] = "\r" /\ headers[1][2] = SubSeq(fed, p + 2, q - 1)
    BY <1>5
  <2>2. Len(headers) > 0
    BY <1>5 DEF Types
  <2>3. contentLength = SubSeq(fed, p + 2, q - 1)
    BY <1>5, <2>1, <2>2, LengthIs
  <2> DEFINE v == SubSeq(fed, p + 2, q - 1)
             t == SubSeq(fed, p + 2, Len(fed))
  <2>4. v \in Text /\ Len(v) = q - p - 2
    BY <1>1 DEF Text
  <2>5. t \in Text /\ Len(t) = Len(fed) - p - 1
    BY <1>1 DEF Text
  <2>6. \A k \in 1 .. Len(v) : v[k] = fed[k + p + 1]
    BY <1>1, <2>4 DEF Text
  <2>7. \A k \in 1 .. Len(t) : t[k] = fed[k + p + 1]
    BY <1>1, <2>5 DEF Text
  <2>8. Declared(p) = Atoi(t)
    <3>1. p + 1 < Len(fed)
      BY <1>1, <2>1
    <3> QED
      BY <1>5, <3>1 DEF Declared
  <2> HIDE DEF v, t
  <2>9. Len(v) < Len(t) /\ Len(v) \in Nat /\ Len(t) \in Nat
    BY <1>1, <2>4, <2>5
  <2>10. \A k \in 1 .. Len(v) : t[k] = v[k]
    <3>1. \A k \in 1 .. Len(v) : k \in 1 .. Len(t)
      BY <2>9
    <3> QED
      BY <2>6, <2>7, <3>1
  <2>11. t[Len(v) + 1] \notin DOMAIN Digits
    <3>1. Len(v) + 1 \in 1 .. Len(t) /\ (Len(v) + 1) + p + 1 = q
      BY <2>4, <2>9
    <3>2. t[Len(v) + 1] = "\r"
      BY <2>1, <2>7, <3>1
    <3> QED
      BY <3>2 DEF Digits
  <2>12. Atoi(t) = Atoi(v)
    BY <2>4, <2>5, <2>9, <2>10, <2>11, AtoiStops
  <2> QED
    BY <2>3, <2>8, <2>12 DEF v
<1> QED
  BY <1>3, <1>4, <1>5 DEF HeadersAt, FirstHeaderAt

\* A finished request's body is what follows the blank line, as long as
\* declared.
LEMMA BodyEnds == IInv => BodyMatchesFirstHeader
<1> SUFFICES ASSUME IInv, state = "Finish" PROVE BodyMatchesFirstHeader
  BY DEF BodyMatchesFirstHeader
<1>1. PICK n \in 1 .. Len(fed) : LineAt(n) /\ HeadersAt(n + 2)
  BY DEF IInv, HeaderInv, InLine
<1>2. At(LF) = n + 1
  BY <1>1, LineFound DEF IInv
<1>3. n + 2 \in Nat \ {0} /\ (n + 1) + 1 = n + 2
  OBVIOUS
<1>4. Declared(At(LF) + 1) = Atoi(contentLength)
  BY <1>1, <1>2, <1>3, LengthDeclared DEF IInv
<1>5. PICK b \in 1 .. Len(fed) - 3 :
        First(BlankLine, b) /\ body = SubSeq(fed, b + 4, Len(fed))
  BY DEF IInv, BodyInv, BodyAfter
<1>6. At(BlankLine) = b
  BY <1>5, AtIs
<1>7. Len(BlankLine) = 4
  BY DEF BlankLine, CR, LF
<1>8. body = After(CR \o LF \o CR \o LF)
  <2>1. body = After(BlankLine)
    BY <1>5, <1>6, <1>7 DEF After
  <2> QED
    BY <2>1 DEF BlankLine
<1>9. Len(body) = IF store.method = <<"POST">> THEN Atoi(contentLength) ELSE 0
  BY DEF IInv, BodyInv
<1> QED
  BY <1>4, <1>8, <1>9 DEF BodyMatchesFirstHeader

\* A request the parser accepts reads as its method, its uri and a version,
\* whatever the lengths of its fields: no field takes a character of another
\* and none is lost (lines 65-109).
THEOREM RequestLineReadsBack == Spec => []RequestLineRoundTrip
BY ParserInvariant, LineReadsBack, PTL

\* The body of a finished request is what follows the first blank line, and it
\* is as long as the first header line declares, though every later line is
\* stored with the earlier ones in front of it (lines 115-149).
THEOREM BodyEndsInPlace == Spec => []BodyMatchesFirstHeader
BY ParserInvariant, BodyEnds, PTL
=============================================================================

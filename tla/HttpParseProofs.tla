--------------------------- MODULE HttpParseProofs ---------------------------
(***************************************************************************)
(* Theorems about HttpParse, for any size of the buffer and any way in     *)
(* which recv splits requests, bodies included: the parser stays within    *)
(* what was received whatever clients send; if they are truthful, the      *)
(* answer is the one the request asks for, the name and the password in it *)
(* were sent with it, and nothing of it is left when the slot is reused.   *)
(* That a request received completely is answered takes BodyInOnePiece.    *)
(*                                                                         *)
(* IInv bounds the positions.  PInv says where in the text of its request  *)
(* the slot is: in line k, whose earlier lines have been turned into       *)
(* fields, or in the body, with what has been received and not looked at   *)
(* in the buffer, unchanged.                                               *)
(***************************************************************************)
EXTENDS HttpParse, SequenceTheorems, TLAPS

\* The worker looks at a line that parse_line has completed, which begins
\* before the next one, or at a body.
LineIsBefore ==
  at = "line" => line_status = "OK" /\ (m_check_state # "CONTENT" => m_start_line < m_checked_idx)

IInv == Positions /\ LineIsBefore

LEMMA Constants == CR \in Chars /\ LF \in Chars /\ NUL \in Chars
  BY DEF CR, LF, NUL, Chars, Char

LEMMA BlankBuffer == Blank \in [0 .. READ_BUFFER_SIZE - 1 -> Chars]
  BY Constants DEF Blank

LEMMA IInvInit == Init => IInv
  BY ParseAssumption, BlankBuffer DEF Init, Blank, IInv, Positions, TypeOK, LineIsBefore, NoRequest, NoUrl

\* A slot that is initialised and waits for input.
LEMMA ResetStep ==
  ASSUME IInv, Reset, at' = "recv", line_status' = line_status,
         request' \in Requests \cup {NoRequest}, unread' = unread
  PROVE  IInv'
<1>1. m_read_buf' \in [0 .. READ_BUFFER_SIZE - 1 -> Chars]
  BY BlankBuffer DEF Reset
<1>2. /\ m_read_idx' = 0 /\ m_checked_idx' = 0 /\ m_start_line' = 0
      /\ m_check_state' = "REQUESTLINE" /\ m_url' = NoUrl /\ cgi' = 0
      /\ m_linger' = FALSE /\ m_content_length' = 0 /\ m_string' = m_string
  BY DEF Reset
<1>3. TypeOK'
  <2>1. TypeOK /\ 0 \in 0 .. READ_BUFFER_SIZE
    BY ParseAssumption DEF IInv, Positions
  <2>2. unread' \in Seq(Chars) /\ m_string' \in 0 .. READ_BUFFER_SIZE \cup {NoString}
    BY <1>2, <2>1 DEF TypeOK
  <2>3. line_status' \in {"OK", "OPEN"}
    BY <2>1 DEF TypeOK
  <2>5. m_url' \in Int /\ m_content_length' \in Int
    BY <1>2 DEF NoUrl
  <2>4. m_url' \in Int /\ cgi' \in {0, 1} /\ m_linger' \in BOOLEAN /\ m_content_length' \in Int
    BY <1>2, <2>5
  <2> QED
    BY <1>1, <1>2, <2>1, <2>2, <2>3, <2>4 DEF TypeOK
<1> QED
  BY ParseAssumption, <1>2, <1>3 DEF IInv, Positions, LineIsBefore

LEMMA NextLineStep ==
  ASSUME IInv, NextLine
  PROVE  IInv'
<1> USE ParseAssumption DEF IInv, Positions, TypeOK
<1>1. PICK i \in m_checked_idx .. m_read_idx :
        LET cr == IF m_read_buf[i] = CR THEN i ELSE i - 1
        IN  /\ CompleteLine(i)
            /\ m_read_buf' = [m_read_buf EXCEPT ![cr] = NUL, ![cr + 1] = NUL]
            /\ m_checked_idx' = cr + 2
  BY DEF NextLine
<1> DEFINE cr == IF m_read_buf[i] = CR THEN i ELSE i - 1
<1>2. cr + 1 < m_read_idx /\ cr + 1 >= m_checked_idx /\ cr \in Nat
  BY <1>1 DEF CompleteLine
<1>3. m_read_buf' \in [0 .. READ_BUFFER_SIZE - 1 -> Chars]
  BY <1>1, <1>2, Constants
<1>4. m_checked_idx' \in 0 .. READ_BUFFER_SIZE /\ m_checked_idx < m_checked_idx' /\ m_checked_idx' <= m_read_idx
  BY <1>1, <1>2
<1> QED
  BY <1>3, <1>4 DEF NextLine, LineIsBefore, clientVars, fields

LEMMA RecvStep ==
  ASSUME IInv, NEW n \in 1 .. READ_BUFFER_SIZE, Recv(n)
  PROVE  IInv'
<1> USE ParseAssumption DEF IInv, Positions, TypeOK
<1>1. n \in 1 .. Len(unread) /\ n <= READ_BUFFER_SIZE - m_read_idx
  BY DEF Recv
<1>2. m_read_idx' \in 0 .. READ_BUFFER_SIZE /\ m_read_idx' = m_read_idx + n
  BY <1>1 DEF Recv
<1>3. unread' \in Seq(Chars)
  BY <1>1 DEF Recv
<1>4. m_read_buf' \in [0 .. READ_BUFFER_SIZE - 1 -> Chars]
  <2>1. \A i \in m_read_idx .. m_read_idx + n - 1 : unread[i - m_read_idx + 1] \in Chars
    BY <1>1
  <2> QED
    BY <2>1 DEF Recv
<1> QED
  BY <1>2, <1>3, <1>4 DEF Recv, LineIsBefore, fields

\* The line's character is in the buffer.
LEMMA TextInBuffer ==
  ASSUME IInv, at = "line", m_check_state # "CONTENT"
  PROVE  TextChar \in Chars /\ TextChar.arg \in Int
<1>1. m_start_line \in 0 .. READ_BUFFER_SIZE - 1
  BY ParseAssumption DEF IInv, Positions, TypeOK, LineIsBefore
<1>2. TextChar \in Chars
  BY <1>1 DEF TextChar, text, IInv, Positions, TypeOK
<1> QED
  BY <1>2 DEF Chars

\* The NUL behind a full buffer leaves m_read_idx as it is.
LEMMA EndsBehindIs ==
  ASSUME IInv, BodyIsThere
  PROVE  EndsBehind = m_read_idx
<1>1. /\ m_read_idx \in Nat /\ m_read_idx <= READ_BUFFER_SIZE /\ m_start_line <= m_checked_idx
      /\ m_start_line \in Nat /\ m_checked_idx \in Nat /\ m_content_length \in Int
      /\ READ_BUFFER_SIZE \in Nat /\ READ_BUFFER_SIZE % Byte = 0
  BY ParseAssumption DEF IInv, Positions, TypeOK
<1>2. CASE nul = READ_BUFFER_SIZE
  <2>1. m_read_idx = READ_BUFFER_SIZE
    BY <1>1, <1>2 DEF nul, text, BodyIsThere
  <2>2. m_read_idx % Byte = 0
    BY <1>1, <2>1
  <2> QED
    BY <1>1, <1>2, <2>2 DEF EndsBehind
<1> QED
  BY <1>2 DEF EndsBehind

LEMMA EndsBodyType ==
  ASSUME IInv
  PROVE  EndsBody \in [0 .. READ_BUFFER_SIZE - 1 -> Chars]
  BY Constants DEF EndsBody, IInv, Positions, TypeOK

LEMMA DoRequestEnds ==
  ASSUME NEW buf, NEW string, DoRequest(buf, string)
  PROVE  at' \in {"respond", "astray"}
  BY DEF DoRequest, FileRequest, Astray

LEMMA ContentStep ==
  ASSUME IInv, Content
  PROVE  IInv'
<1>1. m_read_buf' \in [0 .. READ_BUFFER_SIZE - 1 -> Chars]
  BY EndsBodyType DEF Content
<1>2. /\ m_start_line' = m_checked_idx /\ m_string' = m_start_line /\ m_read_idx' = m_read_idx
      /\ m_read_idx >= m_content_length + m_checked_idx
  BY EndsBehindIs DEF Content, text, BodyIsThere
<1>3. at' \in {"respond", "astray"}
  BY DoRequestEnds DEF Content
<1> QED
  BY <1>1, <1>2, <1>3, ParseAssumption DEF Content, LineIsBefore, clientVars, IInv, Positions, TypeOK

LEMMA IInvStep == IInv /\ [Next]_vars => IInv'
<1> SUFFICES ASSUME IInv, [Next]_vars PROVE IInv'
  OBVIOUS
<1> USE ParseAssumption DEF IInv, Positions, TypeOK, LineIsBefore
<1>1. CASE UNCHANGED vars
  BY <1>1 DEF vars, clientVars, indices, fields
<1>2. CASE Accept
  <2>1. request \in Requests \cup {NoRequest}
    OBVIOUS
  <2> QED
    BY <1>2, <2>1, ResetStep DEF Accept, clientVars
<1>3. CASE Drop
  BY <1>3 DEF Drop, indices, fields
<1>4. ASSUME NEW r \in Requests, Send(r) PROVE IInv'
  <2>1. unread' \in Seq(Chars)
    BY <1>4 DEF Send
  <2> QED
    BY <1>4, <2>1 DEF Send, indices, fields
<1>5. ASSUME NEW n \in 1 .. READ_BUFFER_SIZE, Recv(n) PROVE IInv'
  BY <1>5, RecvStep
<1>6. CASE NextLine
  BY <1>6, NextLineStep
<1>7. CASE NoLine
  BY <1>7 DEF NoLine, clientVars, fields
<1>8. CASE NoLineInBody
  BY <1>8 DEF NoLineInBody, clientVars, indices, fields
<1>9. CASE RequestLine
  <2>1. TextChar.arg \in Int
    BY <1>9, TextInBuffer DEF RequestLine
  <2>2. /\ m_url' \in Int /\ cgi' \in {0, 1}
        /\ m_check_state' \in {"REQUESTLINE", "HEADER"} /\ at' \in {"parse", "respond", "astray"}
    <3>1. CASE TextChar.kind \in {"GET", "POST"} /\ TextChar.arg # NoPath
      BY <1>9, <2>1, <3>1 DEF RequestLine
    <3>2. CASE TextChar.kind \notin {"GET", "POST"}
      BY <1>9, <3>2 DEF RequestLine, BadRequest
    <3>3. CASE TextChar.kind \in {"GET", "POST"} /\ TextChar.arg = NoPath
      BY <1>9, <3>3 DEF RequestLine, Astray
    <3> QED
      BY <3>1, <3>2, <3>3
  <2> QED
    BY <1>9, <2>2 DEF RequestLine, clientVars
<1>10. CASE Header
  <2>1. TextChar.arg \in Int
    BY <1>10, TextInBuffer DEF Header
  <2> QED
    BY <1>10, <2>1 DEF Header, clientVars
<1>11. CASE EmptyLine
  <2>1. at' \in {"parse", "respond", "astray"} /\ m_check_state' \in {"HEADER", "CONTENT"}
        /\ (at' = "respond" => m_check_state' # "CONTENT")
    <3>1. CASE m_content_length # 0
      BY <1>11, <3>1 DEF EmptyLine
    <3>2. CASE m_content_length = 0
      BY <1>11, <3>2, DoRequestEnds DEF EmptyLine
    <3> QED
      BY <3>1, <3>2
  <2> QED
    BY <1>11, <2>1 DEF EmptyLine, clientVars
<1>12. CASE Content
  BY <1>12, ContentStep
<1>13. CASE ContentOpen
  BY <1>13 DEF ContentOpen, clientVars, fields
<1>16. CASE ContentAstray
  BY <1>16 DEF ContentAstray, Astray, clientVars, fields
<1>14. CASE KeepAlive
  <2>1. request' \in Requests \cup {NoRequest}
    BY <1>14 DEF KeepAlive
  <2> QED
    BY <1>14, <2>1, ResetStep DEF KeepAlive
<1>15. CASE Close
  BY <1>15 DEF Close, indices, fields
<1> QED
  BY <1>1, <1>2, <1>3, <1>4, <1>5, <1>6, <1>7, <1>8, <1>9, <1>10, <1>11, <1>12, <1>13, <1>14, <1>15, <1>16
     DEF Next, ProcessRead

(* The parser stays within what was received, and the body it hands to     *)
(* do_request does too, whatever clients send, lengths that are false or   *)
(* negative included, and however the network splits it                    *)
(* (http_conn.cpp:284-311, 430-434, http_conn.h:84-86).                    *)
THEOREM ParserStaysInBuffer == Spec => []Positions
<1>1. IInv => Positions
  BY DEF IInv
<1> QED
  BY <1>1, IInvInit, IInvStep, PTL DEF Spec

-----------------------------------------------------------------------------
(* Where the parser is in a request.  Positions in the buffer are from 0,  *)
(* those of Text from 1.                                                   *)

\* The lines of a request are its request line, 0, its headers, 1 .. Headers(r),
\* and the empty line.  Line k begins at 3 * k.
Headers(r) == Len(r.headers)
EndOf(r, k) == IF k = Headers(r) + 1 THEN 3 * k ELSE 3 * k + 1     \* its CR
BodyAt(r) == 3 * Headers(r) + 5
Size(r) == BodyAt(r) + Len(r.body)

\* What parse_request_line and parse_headers have made of the lines before k.
Scanned(r, k) ==
  IF k = 0
  THEN cgi = 0 /\ m_linger = FALSE /\ m_content_length = 0
  ELSE /\ r.line.kind \in {"GET", "POST"}
       /\ m_url = IF r.line.arg = 8 THEN 9 ELSE r.line.arg
       /\ cgi = IF r.line.kind = "POST" THEN 1 ELSE 0
       /\ m_linger <=> \E i \in 1 .. k - 1 : r.headers[i].kind = "keep-alive"
       /\ \/ m_content_length = 0 /\ \A i \in 1 .. k - 1 : r.headers[i].kind # "length"
          \/ \E i \in 1 .. k - 1 :
               /\ r.headers[i].kind = "length" /\ m_content_length = r.headers[i].arg
               /\ \A j \in i + 1 .. k - 1 : r.headers[j].kind # "length"

\* What the worker finds at the beginning of line k.
FirstOf(r, k) == CASE k = 0 -> r.line
                   [] k \in 1 .. Headers(r) -> r.headers[k]
                   [] OTHER -> NUL

\* In line k: completed if the worker is about to look at it.
InLine(r, k) ==
  /\ m_start_line = 3 * k
  /\ m_check_state = IF k = 0 THEN "REQUESTLINE" ELSE "HEADER"
  /\ Scanned(r, k)
  /\ IF at = "line" THEN m_checked_idx = EndOf(r, k) + 2
                     ELSE m_checked_idx \in 3 * k .. EndOf(r, k)
  /\ m_checked_idx > 3 * k => m_read_buf[3 * k] = FirstOf(r, k)
  /\ at = "recv" => m_read_idx <= EndOf(r, k) + 1

\* In the body, of which parse_line may have skipped a part if it was in pieces.
InBody(r) ==
  /\ m_check_state = "CONTENT"
  /\ Scanned(r, Headers(r) + 1)
  /\ BodyAt(r) <= m_start_line /\ m_start_line <= m_checked_idx
  /\ at = "recv" \/ line_status = "OPEN" => Len(r.body) > 0
  /\ BodyInOnePiece => /\ m_checked_idx = BodyAt(r)
                       /\ at = "recv" \/ (at = "parse" /\ line_status = "OPEN") => m_read_idx = BodyAt(r)

\* A malformed request line is never completed.
Stuck == /\ at \in {"recv", "parse"} /\ m_check_state = "REQUESTLINE"
         /\ m_checked_idx \in {0, 1} /\ Scanned(request, 0)

\* What has been received of r and not been looked at is in the buffer, and
\* nothing that was not sent with r.
Sent(r, c) == \E i \in DOMAIN Text(r) : c = Text(r)[i]
Received(r) ==
  /\ m_read_idx + Len(unread) = Len(Text(r))
  /\ \A i \in 1 .. Len(unread) : unread[i] = Text(r)[m_read_idx + i]
  /\ BodyInOnePiece /\ ~Malformed(r) => m_read_idx \in 0 .. BodyAt(r) \cup {Size(r)}
Buffered(r) ==
  /\ \A j \in m_checked_idx .. m_read_idx - 1 : m_read_buf[j] = Text(r)[j + 1]
  /\ \A j \in m_read_idx .. READ_BUFFER_SIZE - 1 : m_read_buf[j] = NUL
  /\ \A j \in 0 .. READ_BUFFER_SIZE - 1 : m_read_buf[j] = NUL \/ Sent(r, m_read_buf[j])

\* The answer is that to r, and all of r has been received if the slot goes on.
Answered(r) ==
  /\ ~Malformed(r)
  /\ [code |-> result.code, page |-> result.page, linger |-> result.linger] = Expected(r)
  /\ result.page # "form" => result.creds = <<>>
  /\ result.page = "form" =>
       \A amp \in DOMAIN r.body : FirstAmpersand(r.body, amp) => result.creds = ExpectedCreds(r.body, amp)
  /\ \A f \in DOMAIN result.creds : \A i \in DOMAIN result.creds[f] : Sent(r, result.creds[f][i])
  /\ result.linger => m_read_idx = Size(r)

Fresh ==
  /\ m_read_buf = Blank /\ m_read_idx = 0 /\ m_checked_idx = 0 /\ m_start_line = 0
  /\ m_check_state = "REQUESTLINE" /\ cgi = 0 /\ m_linger = FALSE /\ m_content_length = 0

Parsing(r) ==
  /\ at # "closed" /\ Received(r)
  /\ at \notin {"respond", "astray"} =>
       /\ Buffered(r)
       /\ IF Malformed(r) THEN Stuck
                          ELSE InBody(r) \/ \E k \in 0 .. Headers(r) + 1 : InLine(r, k)
  /\ at = "respond" => Answered(r)

PInv == IF request = NoRequest
          THEN unread = <<>> /\ at \in {"closed", "recv"} /\ (at = "recv" => Fresh)
          ELSE \E r \in Requests : request = r /\ Parsing(r)

-----------------------------------------------------------------------------
(* What the text of a request is.                                          *)

LEMMA Concat ==
  ASSUME NEW S, NEW s \in Seq(S), NEW t \in Seq(S), NEW u, u = s \o t
  PROVE  /\ u \in Seq(S) /\ Len(u) = Len(s) + Len(t)
         /\ \A i \in 1 .. Len(s) : u[i] = s[i]
         /\ \A i \in 1 .. Len(t) : u[Len(s) + i] = t[i]
  OBVIOUS

LEMMA SeqElements ==
  ASSUME NEW S, NEW s \in Seq(S)
  PROVE  Len(s) \in Nat /\ DOMAIN s = 1 .. Len(s) /\ \A k \in 1 .. Len(s) : s[k] \in S
  OBVIOUS

LEMMA WellFormedTypes ==
  ASSUME NEW r, WellFormed(r)
  PROVE  /\ Headers(r) \in Nat /\ Len(r.body) \in Nat /\ DOMAIN r.headers = 1 .. Headers(r)
         /\ BodyAt(r) \in Nat /\ Size(r) \in Nat /\ Size(r) = BodyAt(r) + Len(r.body)
         /\ \A k \in 1 .. Headers(r) :
              r.headers[k] \in Chars /\ r.headers[k].kind \in {"keep-alive", "length", "other"}
         /\ r.line \in Chars /\ r.line.kind \in {"GET", "POST", "junk"}
<1>1. r.headers \in Seq([kind : {"keep-alive", "length", "other"}, arg : Int]) /\ r.body \in Seq(Nat)
      /\ r.line \in [kind : {"GET", "POST", "junk"}, arg : 0 .. NoPath]
  BY DEF WellFormed
<1>2. Headers(r) \in Nat /\ Len(r.body) \in Nat /\ DOMAIN r.headers = 1 .. Headers(r)
  BY <1>1 DEF Headers
<1>3. \A k \in 1 .. Headers(r) : r.headers[k] \in [kind : {"keep-alive", "length", "other"}, arg : Int]
  <2>1. PICK S : S = [kind : {"keep-alive", "length", "other"}, arg : Int]
    OBVIOUS
  <2>2. r.headers \in Seq(S)
    BY <1>1, <2>1
  <2>3. \A k \in 1 .. Len(r.headers) : r.headers[k] \in S
    BY <2>2, SeqElements
  <2> QED
    BY <2>1, <2>3 DEF Headers
<1>4. r.line \in Chars /\ r.line.kind \in {"GET", "POST", "junk"}
  BY <1>1 DEF Chars, NoPath
<1>5. \A k \in 1 .. Headers(r) :
        r.headers[k] \in Chars /\ r.headers[k].kind \in {"keep-alive", "length", "other"}
  BY <1>3 DEF Chars
<1> QED
  BY <1>2, <1>4, <1>5 DEF BodyAt, Size

LEMMA CharFacts ==
  /\ CR # LF /\ CR # NUL /\ LF # NUL
  /\ CR.kind = "CR" /\ LF.kind = "LF" /\ NUL.kind = "NUL"
  BY DEF CR, LF, NUL, Char

\* The header lines of a request, and its body.
HeaderText(r) == [i \in 1 .. 3 * Len(r.headers) |->
                    CASE i % 3 = 1 -> r.headers[(i + 2) \div 3] [] i % 3 = 2 -> CR [] OTHER -> LF]
BodyText(r) == Bytes(r.body)

LEMMA HeaderTextIs ==
  ASSUME NEW r, WellFormed(r)
  PROVE  /\ HeaderText(r) \in Seq(Chars) /\ Len(HeaderText(r)) = 3 * Headers(r)
         /\ \A k \in 1 .. Headers(r) : /\ HeaderText(r)[3 * k - 2] = r.headers[k]
                                       /\ HeaderText(r)[3 * k - 1] = CR
                                       /\ HeaderText(r)[3 * k] = LF
<1> DEFINE h == Headers(r)
<1>1. h \in Nat /\ \A k \in 1 .. h : r.headers[k] \in Chars
  BY WellFormedTypes
<1>2. \A i \in 1 .. 3 * h : i % 3 = 1 => (i + 2) \div 3 \in 1 .. h
  BY <1>1
<1>3. HeaderText(r) = [i \in 1 .. 3 * h |->
                         CASE i % 3 = 1 -> r.headers[(i + 2) \div 3] [] i % 3 = 2 -> CR [] OTHER -> LF]
  BY DEF HeaderText, Headers
<1> HIDE DEF h
<1>4. \A i \in 1 .. 3 * h : HeaderText(r)[i] \in Chars
  BY <1>1, <1>2, <1>3, Constants
<1>5. HeaderText(r) \in Seq(Chars) /\ Len(HeaderText(r)) = 3 * h
  BY <1>1, <1>3, <1>4
<1>6. ASSUME NEW k \in 1 .. h
      PROVE  /\ HeaderText(r)[3 * k - 2] = r.headers[k]
             /\ HeaderText(r)[3 * k - 1] = CR
             /\ HeaderText(r)[3 * k] = LF
  <2>1. 3 * k - 2 \in 1 .. 3 * h /\ 3 * k - 1 \in 1 .. 3 * h /\ 3 * k \in 1 .. 3 * h
    BY <1>1
  <2>2. (3 * k - 2) % 3 = 1 /\ (3 * k - 1) % 3 = 2 /\ (3 * k) % 3 = 0 /\ (3 * k - 2 + 2) \div 3 = k
    BY <1>1
  <2>3. HeaderText(r)[3 * k - 2] = r.headers[k]
    BY <1>3, <2>1, <2>2
  <2>4. HeaderText(r)[3 * k - 1] = CR
    BY <1>3, <2>1, <2>2
  <2>5. HeaderText(r)[3 * k] = LF
    <3>1. (3 * k) % 3 # 1 /\ (3 * k) % 3 # 2
      BY <2>2
    <3> QED
      BY <1>3, <2>1, <3>1
  <2> QED
    BY <2>3, <2>4, <2>5
<1> QED
  BY <1>5, <1>6 DEF h

LEMMA BodyTextIs ==
  ASSUME NEW r, WellFormed(r)
  PROVE  /\ BodyText(r) \in Seq(Chars) /\ Len(BodyText(r)) = Len(r.body)
         /\ \A i \in 1 .. Len(r.body) : BodyText(r)[i] = Char("byte", r.body[i])
<1>1. r.body \in Seq(Nat)
  BY DEF WellFormed
<1>2. DOMAIN r.body = 1 .. Len(r.body) /\ Len(r.body) \in Nat
  BY <1>1
<1>3. \A i \in 1 .. Len(r.body) : Char("byte", r.body[i]) \in Chars
  BY <1>1 DEF Char, Chars
<1> QED
  BY <1>2, <1>3 DEF BodyText, Bytes

\* The text behind the request line and its end.
LEMMA TextIs ==
  ASSUME NEW r, WellFormed(r)
  PROVE  LET e == 1 + Len(r.eol)  h == Headers(r) IN
         /\ r.eol \in Seq(Chars) /\ Text(r) \in Seq(Chars)
         /\ Len(Text(r)) = e + 3 * h + 2 + Len(r.body)
         /\ Text(r)[1] = r.line
         /\ \A i \in 1 .. Len(r.eol) : Text(r)[1 + i] = r.eol[i]
         /\ \A i \in 1 .. 3 * h : Text(r)[e + i] = HeaderText(r)[i]
         /\ Text(r)[e + 3 * h + 1] = CR /\ Text(r)[e + 3 * h + 2] = LF
         /\ \A i \in 1 .. Len(r.body) : Text(r)[e + 3 * h + 2 + i] = Char("byte", r.body[i])
<1>1. PICK h \in Nat : h = Headers(r) /\ r.line \in Chars /\ Len(r.body) \in Nat
  BY WellFormedTypes
<1>2. r.eol \in Seq(Chars) /\ Len(r.eol) \in Nat
  <2>1. \A x, y \in Chars : <<x, y>> \in Seq(Chars) /\ <<x>> \in Seq(Chars) /\ Len(<<x, y>>) = 2 /\ Len(<<x>>) = 1
    OBVIOUS
  <2> QED
    BY <2>1, Constants DEF WellFormed
<1>3. PICK n \in Nat : n = Len(r.eol)
  BY <1>2
<1>4. PICK e \in Nat : e = 1 + n
  OBVIOUS
<1>5. PICK a : a = <<r.line>> \o r.eol
  OBVIOUS
<1>6. PICK b : b = a \o HeaderText(r)
  OBVIOUS
<1>7. PICK c : c = b \o <<CR, LF>>
  OBVIOUS
<1>8. /\ a \in Seq(Chars) /\ Len(a) = e
      /\ a[1] = r.line /\ \A i \in 1 .. n : a[1 + i] = r.eol[i]
  <2>1. <<r.line>> \in Seq(Chars) /\ Len(<<r.line>>) = 1 /\ <<r.line>>[1] = r.line
    BY <1>1
  <2>2. /\ a \in Seq(Chars) /\ Len(a) = Len(<<r.line>>) + Len(r.eol)
        /\ \A i \in 1 .. Len(<<r.line>>) : a[i] = <<r.line>>[i]
        /\ \A i \in 1 .. Len(r.eol) : a[Len(<<r.line>>) + i] = r.eol[i]
    BY <1>2, <1>5, <2>1, Concat
  <2>3. a[1] = r.line
    BY <2>1, <2>2
  <2> QED
    BY <1>3, <1>4, <2>1, <2>2, <2>3
<1>9. /\ b \in Seq(Chars) /\ Len(b) = e + 3 * h
      /\ \A i \in 1 .. e : b[i] = a[i]
      /\ \A i \in 1 .. 3 * h : b[e + i] = HeaderText(r)[i]
  <2>1. HeaderText(r) \in Seq(Chars) /\ Len(HeaderText(r)) = 3 * h
    BY <1>1, HeaderTextIs
  <2>2. PICK t \in Seq(Chars) : t = HeaderText(r)
    BY <2>1
  <2>3. a \in Seq(Chars) /\ b = a \o t
    BY <1>6, <1>8, <2>2
  <2>4. /\ b \in Seq(Chars) /\ Len(b) = Len(a) + Len(t)
        /\ \A i \in 1 .. Len(a) : b[i] = a[i]
        /\ \A i \in 1 .. Len(t) : b[Len(a) + i] = t[i]
    BY <2>3, Concat
  <2> QED
    BY <1>8, <2>1, <2>2, <2>4
<1>10. /\ c \in Seq(Chars) /\ Len(c) = e + 3 * h + 2
       /\ \A i \in 1 .. e + 3 * h : c[i] = b[i]
       /\ c[e + 3 * h + 1] = CR /\ c[e + 3 * h + 2] = LF
  <2>1. <<CR, LF>> \in Seq(Chars) /\ Len(<<CR, LF>>) = 2 /\ <<CR, LF>>[1] = CR /\ <<CR, LF>>[2] = LF
    BY Constants
  <2>2. /\ c \in Seq(Chars) /\ Len(c) = Len(b) + Len(<<CR, LF>>)
        /\ \A i \in 1 .. Len(b) : c[i] = b[i]
        /\ \A i \in 1 .. Len(<<CR, LF>>) : c[Len(b) + i] = <<CR, LF>>[i]
    BY <1>7, <1>9, <2>1, Concat
  <2>3. c[Len(b) + 1] = CR /\ c[Len(b) + 2] = LF
    BY <2>1, <2>2
  <2> QED
    BY <1>9, <2>1, <2>2, <2>3
<1>11. Text(r) = c \o BodyText(r)
  BY <1>5, <1>6, <1>7 DEF Text, HeaderText, BodyText
<1>12. /\ Text(r) \in Seq(Chars) /\ Len(Text(r)) = e + 3 * h + 2 + Len(r.body)
       /\ \A i \in 1 .. e + 3 * h + 2 : Text(r)[i] = c[i]
       /\ \A i \in 1 .. Len(r.body) : Text(r)[e + 3 * h + 2 + i] = Char("byte", r.body[i])
  <2>1. /\ BodyText(r) \in Seq(Chars) /\ Len(BodyText(r)) = Len(r.body)
        /\ \A i \in 1 .. Len(r.body) : BodyText(r)[i] = Char("byte", r.body[i])
    BY BodyTextIs
  <2>2. PICK t \in Seq(Chars) : t = BodyText(r)
    BY <2>1
  <2>3. c \in Seq(Chars) /\ Text(r) = c \o t
    BY <1>10, <1>11, <2>2
  <2>4. /\ Text(r) \in Seq(Chars) /\ Len(Text(r)) = Len(c) + Len(t)
        /\ \A i \in 1 .. Len(c) : Text(r)[i] = c[i]
        /\ \A i \in 1 .. Len(t) : Text(r)[Len(c) + i] = t[i]
    BY <2>3, Concat
  <2> QED
    BY <1>10, <2>1, <2>2, <2>4
<1>13. Text(r)[1] = r.line
  <2>1. 1 \in 1 .. e /\ 1 \in 1 .. e + 3 * h /\ 1 \in 1 .. e + 3 * h + 2
    BY <1>4
  <2>2. Text(r)[1] = c[1] /\ c[1] = b[1] /\ b[1] = a[1] /\ a[1] = r.line
    BY <1>8, <1>9, <1>10, <1>12, <2>1
  <2> QED
    BY <2>2
<1>14. ASSUME NEW i \in 1 .. n PROVE Text(r)[1 + i] = r.eol[i]
  <2>1. 1 + i \in 1 .. e /\ 1 + i \in 1 .. e + 3 * h /\ 1 + i \in 1 .. e + 3 * h + 2
    BY <1>4
  <2>2. Text(r)[1 + i] = c[1 + i] /\ c[1 + i] = b[1 + i] /\ b[1 + i] = a[1 + i] /\ a[1 + i] = r.eol[i]
    BY <1>8, <1>9, <1>10, <1>12, <2>1
  <2> QED
    BY <2>2
<1>15. \A i \in 1 .. 3 * h : Text(r)[e + i] = HeaderText(r)[i]
  <2>1. \A i \in 1 .. 3 * h : e + i \in 1 .. e + 3 * h /\ e + i \in 1 .. e + 3 * h + 2
    OBVIOUS
  <2> QED
    BY <1>9, <1>10, <1>12, <2>1
<1>16. Text(r)[e + 3 * h + 1] = CR /\ Text(r)[e + 3 * h + 2] = LF
  <2>1. e + 3 * h + 1 \in 1 .. e + 3 * h + 2 /\ e + 3 * h + 2 \in 1 .. e + 3 * h + 2
    OBVIOUS
  <2> QED
    BY <1>10, <1>12, <2>1
<1>17. e = 1 + Len(r.eol)
  BY <1>3, <1>4
<1> QED
  BY <1>1, <1>2, <1>3, <1>12, <1>13, <1>14, <1>15, <1>16, <1>17

\* The text of a request whose request line ends as it should.
LEMMA GoodText ==
  ASSUME NEW r, WellFormed(r), ~Malformed(r)
  PROVE  LET h == Headers(r) IN
         /\ Text(r) \in Seq(Chars) /\ Len(Text(r)) = Size(r)
         /\ Text(r)[1] = r.line /\ Text(r)[2] = CR /\ Text(r)[3] = LF
         /\ \A k \in 1 .. h : /\ Text(r)[3 * k + 1] = r.headers[k]
                              /\ Text(r)[3 * k + 2] = CR /\ Text(r)[3 * k + 3] = LF
         /\ Text(r)[3 * h + 4] = CR /\ Text(r)[3 * h + 5] = LF
         /\ \A i \in 1 .. Len(r.body) : Text(r)[BodyAt(r) + i] = Char("byte", r.body[i])
<1>1. r.eol = <<CR, LF>>
  BY DEF Malformed
<1>2. Len(r.eol) = 2 /\ r.eol[1] = CR /\ r.eol[2] = LF
  BY <1>1
<1>3. PICK h \in Nat : h = Headers(r)
  BY WellFormedTypes
<1>4. /\ Text(r) \in Seq(Chars)
      /\ Len(Text(r)) = (1 + Len(r.eol)) + 3 * h + 2 + Len(r.body)
      /\ Text(r)[1] = r.line
      /\ \A i \in 1 .. Len(r.eol) : Text(r)[1 + i] = r.eol[i]
  BY <1>3, TextIs
<1>5. /\ \A i \in 1 .. 3 * h : Text(r)[(1 + Len(r.eol)) + i] = HeaderText(r)[i]
      /\ Text(r)[(1 + Len(r.eol)) + 3 * h + 1] = CR /\ Text(r)[(1 + Len(r.eol)) + 3 * h + 2] = LF
      /\ \A i \in 1 .. Len(r.body) : Text(r)[(1 + Len(r.eol)) + 3 * h + 2 + i] = Char("byte", r.body[i])
  BY <1>3, TextIs
<1>6. Len(r.body) \in Nat /\ BodyAt(r) = 3 * h + 5 /\ Size(r) = 3 * h + 5 + Len(r.body)
  BY <1>3, WellFormedTypes DEF BodyAt, Size
<1>7. Len(Text(r)) = Size(r)
  BY <1>2, <1>4, <1>6
<1>8. Text(r)[2] = CR /\ Text(r)[3] = LF
  <2>0. 1 \in 1 .. 2 /\ 2 \in 1 .. 2
    OBVIOUS
  <2>1. Text(r)[1 + 1] = CR /\ Text(r)[1 + 2] = LF
    BY <1>2, <1>4, <2>0
  <2> QED
    BY <2>1
<1>9. ASSUME NEW k \in 1 .. h
      PROVE  /\ Text(r)[3 * k + 1] = r.headers[k]
             /\ Text(r)[3 * k + 2] = CR /\ Text(r)[3 * k + 3] = LF
  <2>1. /\ 3 * k - 2 \in 1 .. 3 * h /\ 3 * k - 1 \in 1 .. 3 * h /\ 3 * k \in 1 .. 3 * h
        /\ (1 + 2) + (3 * k - 2) = 3 * k + 1 /\ (1 + 2) + (3 * k - 1) = 3 * k + 2 /\ (1 + 2) + 3 * k = 3 * k + 3
    OBVIOUS
  <2>2. HeaderText(r)[3 * k - 2] = r.headers[k] /\ HeaderText(r)[3 * k - 1] = CR /\ HeaderText(r)[3 * k] = LF
    BY <1>3, HeaderTextIs
  <2>3. /\ Text(r)[(1 + 2) + (3 * k - 2)] = r.headers[k]
        /\ Text(r)[(1 + 2) + (3 * k - 1)] = CR
        /\ Text(r)[(1 + 2) + 3 * k] = LF
    BY <1>2, <1>5, <2>1, <2>2
  <2> QED
    BY <2>1, <2>3
<1>10. Text(r)[3 * h + 4] = CR /\ Text(r)[3 * h + 5] = LF
  <2>1. (1 + 2) + 3 * h + 1 = 3 * h + 4 /\ (1 + 2) + 3 * h + 2 = 3 * h + 5
    OBVIOUS
  <2> QED
    BY <1>2, <1>5, <2>1
<1>11. ASSUME NEW i \in 1 .. Len(r.body) PROVE Text(r)[BodyAt(r) + i] = Char("byte", r.body[i])
  <2>1. (1 + 2) + 3 * h + 2 + i = BodyAt(r) + i
    BY <1>6
  <2> QED
    BY <1>2, <1>5, <2>1
<1> QED
  BY <1>3, <1>4, <1>7, <1>8, <1>9, <1>10, <1>11

\* No line of a malformed request is complete.
LEMMA BadText ==
  ASSUME NEW r, WellFormed(r), Malformed(r)
  PROVE  /\ Text(r)[1] \notin {CR, LF}
         /\ Text(r)[2] = LF \/ (Text(r)[2] = CR /\ Text(r)[3] # LF)
<1>1. r.eol \in {<<CR>>, <<LF>>}
  BY DEF WellFormed, Malformed
<1>2. Len(r.eol) = 1 /\ r.eol[1] \in {CR, LF} /\ (r.eol = <<CR>> => r.eol[1] = CR) /\ (r.eol = <<LF>> => r.eol[1] = LF)
  BY <1>1
<1>3. PICK h \in Nat : h = Headers(r) /\ r.line.kind \in {"GET", "POST", "junk"}
  BY WellFormedTypes
<1>4. /\ Text(r)[1] = r.line
      /\ \A i \in 1 .. Len(r.eol) : Text(r)[1 + i] = r.eol[i]
      /\ \A i \in 1 .. 3 * h : Text(r)[(1 + Len(r.eol)) + i] = HeaderText(r)[i]
      /\ Text(r)[(1 + Len(r.eol)) + 3 * h + 1] = CR
  BY <1>3, TextIs
<1>5. Text(r)[1] \notin {CR, LF}
  BY <1>3, <1>4, CharFacts
<1>6. Text(r)[2] = r.eol[1]
  <2>1. Text(r)[1 + 1] = r.eol[1]
    BY <1>2, <1>4
  <2> QED
    BY <2>1
<1>7. Text(r)[3] # LF
  <2>1. CASE h = 0
    <3>1. (1 + 1) + 3 * h + 1 = 3
      BY <2>1
    <3> QED
      BY <1>2, <1>4, <3>1, CharFacts
  <2>2. CASE h # 0
    <3>1. 1 \in 1 .. h /\ 1 \in 1 .. 3 * h /\ 3 * 1 - 2 = 1 /\ (1 + 1) + 1 = 3
      BY <2>2
    <3>2. HeaderText(r)[3 * 1 - 2] = r.headers[1] /\ r.headers[1].kind \in {"keep-alive", "length", "other"}
      BY <1>3, <3>1, HeaderTextIs, WellFormedTypes
    <3>3. Text(r)[(1 + 1) + 1] = r.headers[1]
      BY <1>2, <1>4, <3>1, <3>2
    <3> QED
      BY <3>1, <3>2, <3>3, CharFacts
  <2> QED
    BY <2>1, <2>2
<1> QED
  BY <1>1, <1>2, <1>5, <1>6, <1>7

\* Line k: where it ends, and what is in it before its CR.
LEMMA LineIs ==
  ASSUME NEW r, WellFormed(r), ~Malformed(r), NEW k \in 0 .. Headers(r) + 1
  PROVE  /\ k \in Nat /\ EndOf(r, k) \in Nat /\ 3 * k <= EndOf(r, k) /\ EndOf(r, k) + 2 <= BodyAt(r)
         /\ Text(r)[EndOf(r, k) + 1] = CR /\ Text(r)[EndOf(r, k) + 2] = LF
         /\ \A j \in 3 * k .. EndOf(r, k) - 1 : Text(r)[j + 1] \notin {CR, LF, NUL}
         /\ k \in 0 .. Headers(r) => EndOf(r, k) + 2 = 3 * (k + 1) /\ EndOf(r, k) = 3 * k + 1
         /\ k = 0 => Text(r)[3 * k + 1] = r.line
         /\ k \in 1 .. Headers(r) => Text(r)[3 * k + 1] = r.headers[k]
         /\ k = Headers(r) + 1 => EndOf(r, k) = 3 * k /\ EndOf(r, k) + 2 = BodyAt(r)
<1>1. PICK h \in Nat : h = Headers(r)
  BY WellFormedTypes
<1>2. /\ Text(r)[1] = r.line /\ Text(r)[2] = CR /\ Text(r)[3] = LF
      /\ \A i \in 1 .. h : /\ Text(r)[3 * i + 1] = r.headers[i]
                           /\ Text(r)[3 * i + 2] = CR /\ Text(r)[3 * i + 3] = LF
      /\ Text(r)[3 * h + 4] = CR /\ Text(r)[3 * h + 5] = LF
  BY <1>1, GoodText
<1>3. BodyAt(r) = 3 * h + 5
  BY <1>1 DEF BodyAt
<1>4. r.line.kind \in {"GET", "POST", "junk"} /\ \A i \in 1 .. h : r.headers[i].kind \in {"keep-alive", "length", "other"}
  BY <1>1, WellFormedTypes
<1>5. CASE k = h + 1
  <2>1. EndOf(r, k) = 3 * h + 3
    BY <1>1, <1>5 DEF EndOf
  <2> QED
    BY <1>1, <1>2, <1>3, <1>5, <2>1
<1>6. CASE k = 0
  <2>1. EndOf(r, k) = 1
    BY <1>1, <1>6 DEF EndOf
  <2>2. r.line \notin {CR, LF, NUL}
    BY <1>4, CharFacts
  <2>3. \A j \in 3 * k .. EndOf(r, k) - 1 : j = 0
    BY <1>6, <2>1
  <2>4. Text(r)[3 * k + 1] = r.line
    BY <1>2, <1>6
  <2> QED
    BY <1>1, <1>2, <1>3, <1>6, <2>1, <2>2, <2>3, <2>4
<1>7. CASE k \in 1 .. h
  <2>1. EndOf(r, k) = 3 * k + 1
    BY <1>1, <1>7 DEF EndOf
  <2>2. r.headers[k] \notin {CR, LF, NUL}
    BY <1>4, <1>7, CharFacts
  <2>3. \A j \in 3 * k .. EndOf(r, k) - 1 : j = 3 * k
    BY <1>7, <2>1
  <2>4. Text(r)[3 * k + 1] = r.headers[k] /\ Text(r)[3 * k + 2] = CR /\ Text(r)[3 * k + 3] = LF
    BY <1>2, <1>7
  <2>5. EndOf(r, k) + 1 = 3 * k + 2 /\ EndOf(r, k) + 2 = 3 * k + 3 /\ 3 * (k + 1) = 3 * k + 3
    BY <1>7, <2>1
  <2>6. EndOf(r, k) + 2 <= BodyAt(r) /\ k \in Nat /\ EndOf(r, k) \in Nat /\ 3 * k <= EndOf(r, k)
    BY <1>3, <1>7, <2>1
  <2>7. \A j \in 3 * k .. EndOf(r, k) - 1 : Text(r)[j + 1] \notin {CR, LF, NUL}
    BY <2>2, <2>3, <2>4
  <2> QED
    BY <1>1, <1>7, <2>1, <2>4, <2>5, <2>6, <2>7
<1> QED
  BY <1>1, <1>5, <1>6, <1>7

\* Where parse_line stops, when the next end of a line is at e.
LEMMA Scan ==
  ASSUME IInv, NEW e \in Nat, m_checked_idx <= e, NEW i \in m_checked_idx .. m_read_idx, StopsAt(i),
         \A j \in m_checked_idx .. e - 1 : j < m_read_idx => m_read_buf[j] \notin {CR, LF},
         e < m_read_idx => m_read_buf[e] = CR,
         e + 1 < m_read_idx => m_read_buf[e + 1] = LF
  PROVE  /\ i <= e
         /\ CompleteLine(i) => i = e /\ e + 1 < m_read_idx /\ m_read_buf[i] = CR
         /\ ~CompleteLine(i) => m_read_idx <= e + 1
<1>1. m_checked_idx \in Nat /\ m_read_idx \in Nat /\ i \in Nat
  BY DEF IInv, Positions, TypeOK
<1>2. i <= e
  BY <1>1 DEF StopsAt
<1>3. i < m_read_idx => i = e /\ m_read_buf[i] = CR
  BY <1>1, <1>2 DEF StopsAt
<1> QED
  BY <1>1, <1>2, <1>3 DEF CompleteLine

-----------------------------------------------------------------------------
(* The steps of the client and the main thread.                            *)

LEMMA FreshAfterReset == Reset => Fresh'
  BY DEF Reset, Fresh

LEMMA RequestIsNot ==
  ASSUME ClientsAreTruthful, NEW r \in Requests
  PROVE  WellFormed(r) /\ r # NoRequest
<1>1. WellFormed(r)
  BY DEF ClientsAreTruthful
<1>2. r.line.kind # NUL.kind
  BY <1>1, WellFormedTypes, CharFacts
<1>3. NoRequest.line = NUL
  BY DEF NoRequest
<1> QED
  BY <1>1, <1>2, <1>3

\* Any request may follow on a slot that has been initialised.
LEMMA SendStep ==
  ASSUME ClientsAreTruthful, IInv, PInv, NEW r \in Requests, Send(r)
  PROVE  Parsing(r)'
<1>1. WellFormed(r) /\ r # NoRequest
  BY RequestIsNot
<1>2. /\ at = "recv" /\ request = NoRequest /\ unread' = unread \o Text(r)
      /\ UNCHANGED <<m_read_buf, m_read_idx, m_checked_idx, m_start_line, fields, at, line_status, result>>
  BY DEF Send, indices
<1>3. unread = <<>> /\ Fresh
  BY <1>2 DEF PInv
<1>4. Text(r) \in Seq(Chars) /\ Len(Text(r)) \in Nat /\ Headers(r) \in Nat /\ BodyAt(r) \in Nat
  <2>1. Text(r) \in Seq(Chars)
    BY <1>1, TextIs
  <2> QED
    BY <1>1, <2>1, WellFormedTypes
<1>5. unread' = Text(r)
  BY <1>2, <1>3, <1>4
<1>6. /\ m_read_buf' = Blank /\ m_read_idx' = 0 /\ m_checked_idx' = 0 /\ m_start_line' = 0
      /\ m_check_state' = "REQUESTLINE" /\ cgi' = 0 /\ m_linger' = FALSE /\ m_content_length' = 0 /\ at' = "recv"
  BY <1>2, <1>3 DEF Fresh, fields
<1>7. Received(r)'
  BY <1>4, <1>5, <1>6 DEF Received
<1>8. Buffered(r)'
  BY <1>6, ParseAssumption DEF Buffered, Blank
<1>9. Scanned(r, 0)' /\ Scanned(request, 0)'
  BY <1>6 DEF Scanned
<1>10. InLine(r, 0)'
  <2>1. EndOf(r, 0) = 1
    BY <1>4 DEF EndOf
  <2> QED
    BY <1>6, <1>9, <2>1 DEF InLine
<1>11. 0 \in 0 .. Headers(r) + 1
  BY <1>4
<1>12. Stuck'
  BY <1>6, <1>9 DEF Stuck
<1> QED
  BY <1>6, <1>7, <1>8, <1>10, <1>11, <1>12 DEF Parsing

LEMMA RecvKeepsParsing ==
  ASSUME IInv, NEW r, WellFormed(r), Parsing(r), request = r, NEW n \in 1 .. READ_BUFFER_SIZE, Recv(n)
  PROVE  Parsing(r)'
<1>1. /\ n \in 1 .. Len(unread) /\ n <= READ_BUFFER_SIZE - m_read_idx
      /\ at = "recv" /\ at' = "parse" /\ line_status' = "OK"
      /\ m_read_idx' = m_read_idx + n
      /\ unread' = SubSeq(unread, n + 1, Len(unread))
      /\ m_read_buf' = [i \in 0 .. READ_BUFFER_SIZE - 1 |->
                          IF i \in m_read_idx .. m_read_idx + n - 1 THEN unread[i - m_read_idx + 1]
                                                                    ELSE m_read_buf[i]]
      /\ UNCHANGED <<request, m_checked_idx, m_start_line, fields, result>>
      /\ BodyInOnePiece => ~SplitsBody(n)
  BY DEF Recv
<1>2. /\ unread \in Seq(Chars) /\ m_read_idx \in 0 .. READ_BUFFER_SIZE /\ m_checked_idx \in 0 .. m_read_idx
      /\ READ_BUFFER_SIZE \in Nat \ {0}
      /\ m_read_buf \in [0 .. READ_BUFFER_SIZE - 1 -> Chars]
  BY ParseAssumption DEF IInv, Positions, TypeOK
<1>3. /\ m_read_idx + Len(unread) = Len(Text(r))
      /\ \A i \in 1 .. Len(unread) : unread[i] = Text(r)[m_read_idx + i]
      /\ BodyInOnePiece /\ ~Malformed(r) => m_read_idx \in 0 .. BodyAt(r) \cup {Size(r)}
  BY DEF Parsing, Received
<1>4. Len(unread) \in Nat /\ Len(unread') = Len(unread) - n
      /\ \A i \in 1 .. Len(unread') : unread'[i] = unread[n + i]
  BY <1>1, <1>2
<1>0. /\ m_read_idx \in Nat /\ m_read_idx' = m_read_idx + n /\ n \in Nat /\ n >= 1 /\ n <= Len(unread)
      /\ Len(unread) \in Nat /\ Len(unread') = Len(unread) - n /\ m_read_idx + Len(unread) = Len(Text(r))
  BY <1>1, <1>2, <1>3, <1>4
<1>5. Received(r)'
  <2>1. m_read_idx' + Len(unread') = Len(Text(r))
    BY <1>0
  <2>2. ASSUME NEW i \in 1 .. Len(unread') PROVE unread'[i] = Text(r)[m_read_idx' + i]
    <3>1. n + i \in 1 .. Len(unread) /\ m_read_idx + (n + i) = m_read_idx' + i
      BY <1>0
    <3> QED
      BY <1>3, <1>4, <3>1
  <2>3. ASSUME BodyInOnePiece, ~Malformed(r) PROVE m_read_idx' \in 0 .. BodyAt(r) \cup {Size(r)}
    <3>1. Len(Text(r)) = Size(r)
      BY <2>3, GoodText
    <3>2. /\ Size(r) = BodyAt(r) + Len(r.body) /\ BodyAt(r) \in Nat /\ Len(r.body) \in Nat
      BY WellFormedTypes
    <3>3. Len(unread) - n \notin 1 .. Len(r.body) - 1
      BY <1>1, <2>3 DEF SplitsBody
    <3>4. m_read_idx' = Size(r) - (Len(unread) - n) /\ Len(unread) - n >= 0 /\ m_read_idx' \in Nat
      BY <1>0, <3>1, <3>2
    <3>5. CASE Len(unread) - n = 0
      BY <3>2, <3>4, <3>5
    <3>6. CASE Len(unread) - n >= Len(r.body)
      BY <3>2, <3>4, <3>6
    <3> QED
      BY <1>0, <3>2, <3>3, <3>5, <3>6
  <2> QED
    BY <2>1, <2>2, <2>3 DEF Received
<1>6. Buffered(r)'
  <2>1. /\ \A j \in m_checked_idx .. m_read_idx - 1 : m_read_buf[j] = Text(r)[j + 1]
        /\ \A j \in m_read_idx .. READ_BUFFER_SIZE - 1 : m_read_buf[j] = NUL
    BY <1>1 DEF Parsing, Buffered
  <2>2. ASSUME NEW j \in m_checked_idx .. m_read_idx' - 1 PROVE m_read_buf'[j] = Text(r)[j + 1]
    <3>1. j \in 0 .. READ_BUFFER_SIZE - 1
      BY <1>1, <1>2
    <3>2. CASE j < m_read_idx
      <4>1. m_read_buf'[j] = m_read_buf[j]
        BY <1>1, <1>2, <3>1, <3>2
      <4> QED
        BY <1>2, <2>1, <3>1, <3>2, <4>1
    <3>3. CASE j >= m_read_idx
      <4>1. j \in m_read_idx .. m_read_idx + n - 1 /\ j - m_read_idx + 1 \in 1 .. Len(unread)
            /\ m_read_idx + (j - m_read_idx + 1) = j + 1
        <5>1. j \in Nat /\ j <= m_read_idx + n - 1
          BY <1>0, <3>1
        <5> QED
          BY <1>0, <3>3, <5>1
      <4>2. m_read_buf'[j] = unread[j - m_read_idx + 1]
        BY <1>1, <3>1, <4>1
      <4> QED
        BY <1>3, <4>1, <4>2
    <3> QED
      BY <1>2, <3>1, <3>2, <3>3
  <2>3. ASSUME NEW j \in m_read_idx' .. READ_BUFFER_SIZE - 1 PROVE m_read_buf'[j] = NUL
    <3>1. j \in 0 .. READ_BUFFER_SIZE - 1 /\ j \notin m_read_idx .. m_read_idx + n - 1
          /\ j \in m_read_idx .. READ_BUFFER_SIZE - 1
      BY <1>1, <1>2
    <3> QED
      BY <1>1, <2>1, <3>1
  <2>4. ASSUME NEW j \in 0 .. READ_BUFFER_SIZE - 1 PROVE m_read_buf'[j] = NUL \/ Sent(r, m_read_buf'[j])
    <3>1. CASE j \in m_read_idx .. m_read_idx + n - 1
      <4>1. j - m_read_idx + 1 \in 1 .. Len(unread) /\ m_read_idx + (j - m_read_idx + 1) = j + 1
            /\ j + 1 \in 1 .. Len(Text(r))
        BY <1>0, <3>1
      <4>2. m_read_buf'[j] = Text(r)[j + 1]
        BY <1>1, <1>3, <3>1, <4>1
      <4>3. Text(r) \in Seq(Chars)
        BY TextIs
      <4>4. j + 1 \in DOMAIN Text(r)
        BY <4>1, <4>3
      <4> QED
        BY <4>2, <4>4 DEF Sent
    <3>2. CASE j \notin m_read_idx .. m_read_idx + n - 1
      BY <1>1, <3>2 DEF Parsing, Buffered
    <3> QED
      BY <3>1, <3>2
  <2> QED
    BY <1>1, <2>2, <2>3, <2>4 DEF Buffered
<1>7. \A k : Scanned(r, k)' = Scanned(r, k)
  BY <1>1 DEF Scanned, fields
<1>8. CASE Malformed(r)
  <2>1. Stuck'
    BY <1>1, <1>7, <1>8 DEF Parsing, Stuck, fields
  <2> QED
    BY <1>1, <1>5, <1>6, <1>8, <2>1 DEF Parsing
<1>9. CASE ~Malformed(r) /\ InBody(r)
  <2>1. InBody(r)'
    BY <1>1, <1>7, <1>9 DEF InBody, fields
  <2> QED
    BY <1>1, <1>5, <1>6, <1>9, <2>1 DEF Parsing
<1>10. CASE ~Malformed(r) /\ ~InBody(r)
  <2>1. PICK k \in 0 .. Headers(r) + 1 : InLine(r, k)
    BY <1>1, <1>10 DEF Parsing
  <2>2. m_checked_idx > 3 * k => m_read_buf'[3 * k] = m_read_buf[3 * k]
    <3>1. k \in Nat
      BY WellFormedTypes
    <3>2. m_checked_idx > 3 * k => 3 * k \in 0 .. READ_BUFFER_SIZE - 1 /\ 3 * k < m_read_idx
      BY <1>2, <3>1
    <3>3. m_checked_idx > 3 * k => 3 * k \notin m_read_idx .. m_read_idx + n - 1
      BY <1>2, <3>1, <3>2
    <3> QED
      BY <1>1, <3>2, <3>3
  <2>3. InLine(r, k)'
    BY <1>1, <1>7, <2>1, <2>2 DEF InLine, fields
  <2> QED
    BY <1>1, <1>5, <1>6, <1>10, <2>1, <2>3 DEF Parsing
<1> QED
  BY <1>8, <1>9, <1>10

-----------------------------------------------------------------------------
(* Where parse_line stops.                                                 *)

LEMMA StopsInLine ==
  ASSUME IInv, NEW r, WellFormed(r), ~Malformed(r), Buffered(r), at = "parse",
         NEW k \in 0 .. Headers(r) + 1, InLine(r, k), NEW i \in m_checked_idx .. m_read_idx, StopsAt(i)
  PROVE  /\ i <= EndOf(r, k)
         /\ CompleteLine(i) => i = EndOf(r, k) /\ EndOf(r, k) + 1 < m_read_idx /\ m_read_buf[i] = CR
         /\ ~CompleteLine(i) => m_read_idx <= EndOf(r, k) + 1
<1>1. PICK e \in Nat : e = EndOf(r, k)
  BY LineIs
<1>2. /\ k \in Nat /\ 3 * k <= e /\ Text(r)[e + 1] = CR /\ Text(r)[e + 2] = LF
      /\ \A j \in 3 * k .. e - 1 : Text(r)[j + 1] \notin {CR, LF, NUL}
  BY <1>1, LineIs
<1>3. m_checked_idx \in 3 * k .. e /\ m_checked_idx \in Nat /\ m_read_idx \in Nat
  BY <1>1 DEF InLine, IInv, Positions, TypeOK
<1>4. \A j \in m_checked_idx .. m_read_idx - 1 : m_read_buf[j] = Text(r)[j + 1]
  BY DEF Buffered
<1>5. ASSUME NEW j \in m_checked_idx .. e - 1, j < m_read_idx PROVE m_read_buf[j] \notin {CR, LF}
  <2>1. j \in m_checked_idx .. m_read_idx - 1 /\ j \in 3 * k .. e - 1
    BY <1>2, <1>3, <1>5
  <2> QED
    BY <1>2, <1>4, <2>1
<1>6. e < m_read_idx => m_read_buf[e] = CR
  BY <1>2, <1>3, <1>4
<1>7. e + 1 < m_read_idx => m_read_buf[e + 1] = LF
  <2>1. e + 1 < m_read_idx => e + 1 \in m_checked_idx .. m_read_idx - 1 /\ (e + 1) + 1 = e + 2
    BY <1>3
  <2> QED
    BY <1>2, <1>4, <2>1
<1>8. m_checked_idx <= e
  BY <1>3
<1> QED
  BY <1>1, <1>5, <1>6, <1>7, <1>8, Scan

\* The beginning of a line that has been received.
LEMMA LineBegins ==
  ASSUME IInv, NEW r, WellFormed(r), ~Malformed(r), Buffered(r), at = "parse",
         NEW k \in 0 .. Headers(r), InLine(r, k), 3 * k < m_read_idx
  PROVE  m_read_buf[3 * k] = FirstOf(r, k)
<1>1. /\ k \in Nat /\ k \in 0 .. Headers(r) + 1
      /\ Headers(r) \in Nat /\ m_checked_idx \in Nat /\ m_read_idx \in Nat
  BY WellFormedTypes DEF IInv, Positions, TypeOK
<1>2. m_checked_idx >= 3 * k
  BY <1>1, LineIs DEF InLine
<1>3. CASE m_checked_idx = 3 * k
  <2>1. m_read_buf[3 * k] = Text(r)[3 * k + 1]
    BY <1>1, <1>3 DEF Buffered
  <2>2. /\ k = 0 => Text(r)[3 * k + 1] = r.line
        /\ k \in 1 .. Headers(r) => Text(r)[3 * k + 1] = r.headers[k]
    BY <1>1, LineIs
  <2>3. k = 0 \/ k \in 1 .. Headers(r)
    BY <1>1
  <2> QED
    BY <2>1, <2>2, <2>3 DEF FirstOf
<1>4. CASE m_checked_idx # 3 * k
  BY <1>1, <1>2, <1>4 DEF InLine
<1> QED
  BY <1>3, <1>4

LEMMA StopsInBody ==
  ASSUME IInv, NEW r, WellFormed(r), ~Malformed(r), Received(r), Buffered(r), InBody(r),
         NEW i \in m_checked_idx .. m_read_idx, StopsAt(i)
  PROVE  ~CompleteLine(i) /\ i = m_read_idx
<1>1. /\ BodyAt(r) \in Nat /\ Len(r.body) \in Nat /\ Size(r) = BodyAt(r) + Len(r.body)
  BY WellFormedTypes
<1>2. Len(Text(r)) = Size(r) /\ \A j \in 1 .. Len(r.body) : Text(r)[BodyAt(r) + j] = Char("byte", r.body[j])
  BY GoodText
<1>3. /\ m_checked_idx \in Nat /\ m_read_idx \in Nat /\ m_start_line \in Nat /\ unread \in Seq(Chars)
      /\ BodyAt(r) <= m_start_line /\ m_start_line <= m_checked_idx
  BY DEF IInv, Positions, TypeOK, InBody
<1>4. m_read_idx <= Size(r)
  <2>1. Len(unread) \in Nat /\ m_read_idx + Len(unread) = Size(r)
    BY <1>2, <1>3 DEF Received
  <2> QED
    BY <1>1, <1>3, <2>1
<1>5. ASSUME i < m_read_idx PROVE FALSE
  <2>1. m_read_buf[i] = Text(r)[i + 1]
    BY <1>3, <1>5 DEF Buffered
  <2>2. i + 1 - BodyAt(r) \in 1 .. Len(r.body) /\ BodyAt(r) + (i + 1 - BodyAt(r)) = i + 1
    BY <1>1, <1>3, <1>4, <1>5
  <2>3. \E v : Text(r)[i + 1] = Char("byte", v)
    BY <1>2, <2>2
  <2>4. m_read_buf[i] \notin {CR, LF}
    BY <2>1, <2>3, CharFacts DEF Char
  <2> QED
    BY <1>5, <2>4 DEF StopsAt
<1> QED
  BY <1>3, <1>5 DEF CompleteLine

LEMMA StopsWhenMalformed ==
  ASSUME IInv, WellFormed(request), Malformed(request), Buffered(request), Stuck,
         NEW i \in m_checked_idx .. m_read_idx, StopsAt(i)
  PROVE  ~CompleteLine(i) /\ i \in {0, 1}
<1>1. /\ Text(request)[1] \notin {CR, LF}
      /\ Text(request)[2] = LF \/ (Text(request)[2] = CR /\ Text(request)[3] # LF)
  BY BadText
<1>2. m_checked_idx \in {0, 1} /\ m_read_idx \in Nat
  BY DEF Stuck, IInv, Positions, TypeOK
<1>3. \A j \in m_checked_idx .. m_read_idx - 1 : m_read_buf[j] = Text(request)[j + 1]
  BY DEF Buffered
<1>4. 0 < m_read_idx /\ m_checked_idx = 0 => m_read_buf[0] \notin {CR, LF}
  <2>1. 0 < m_read_idx /\ m_checked_idx = 0 => 0 \in m_checked_idx .. m_read_idx - 1
    BY <1>2
  <2>2. 0 < m_read_idx /\ m_checked_idx = 0 => m_read_buf[0] = Text(request)[0 + 1]
    BY <1>3, <2>1
  <2> QED
    BY <1>1, <2>2
<1>5. 1 < m_read_idx => m_read_buf[1] = Text(request)[2]
  BY <1>2, <1>3
<1>6. 2 < m_read_idx => m_read_buf[2] = Text(request)[3]
  BY <1>2, <1>3
<1>7. 1 < m_read_idx => m_read_buf[1] \in {CR, LF}
  BY <1>1, <1>5
<1>8. i \in {0, 1}
  BY <1>2, <1>7 DEF StopsAt
<1>9. ASSUME CompleteLine(i) PROVE FALSE
  <2>1. i < m_read_idx /\ m_read_buf[i] \in {CR, LF}
    BY <1>9 DEF CompleteLine, StopsAt
  <2>2. i = 1
    BY <1>2, <1>4, <1>8, <2>1
  <2> QED
    BY <1>1, <1>5, <1>6, <1>9, <2>1, <2>2, CharFacts DEF CompleteLine
<1> QED
  BY <1>8, <1>9

-----------------------------------------------------------------------------
(* The steps of process_read.                                              *)

\* A step that leaves what has been received, and what has been made of it.
LEMMA SameScan ==
  /\ UNCHANGED <<m_url, cgi, m_linger, m_content_length>> => \A r, k : Scanned(r, k)' <=> Scanned(r, k)
  /\ UNCHANGED <<unread, m_read_idx>> => \A r : Received(r)' <=> Received(r)
<1>1. UNCHANGED <<m_url, cgi, m_linger, m_content_length>> => \A r, k : Scanned(r, k)' <=> Scanned(r, k)
  BY DEF Scanned
<1>2. UNCHANGED <<unread, m_read_idx>> => \A r : Received(r)' <=> Received(r)
  BY DEF Received
<1> QED
  BY <1>1, <1>2

LEMMA NextLineKeepsParsing ==
  ASSUME IInv, NEW r, WellFormed(r), Parsing(r), request = r, NextLine
  PROVE  Parsing(r)'
<1>1. PICK i \in m_checked_idx .. m_read_idx :
        LET cr == IF m_read_buf[i] = CR THEN i ELSE i - 1
        IN  /\ at = "parse" /\ ~(m_check_state = "CONTENT" /\ line_status = "OK")
            /\ StopsAt(i) /\ CompleteLine(i)
            /\ m_read_buf' = [m_read_buf EXCEPT ![cr] = NUL, ![cr + 1] = NUL]
            /\ m_checked_idx' = cr + 2
            /\ line_status' = "OK" /\ at' = "line"
            /\ UNCHANGED <<clientVars, m_read_idx, m_start_line, fields, result>>
  BY DEF NextLine
<1>2. Received(r) /\ Buffered(r)
  BY <1>1 DEF Parsing
<1>3. ~Malformed(r)
  <2>1. Malformed(r) => Stuck
    BY <1>1 DEF Parsing
  <2> QED
    BY <1>1, <1>2, <2>1, StopsWhenMalformed
<1>4. ~InBody(r)
  BY <1>1, <1>2, <1>3, StopsInBody
<1>5. PICK k \in 0 .. Headers(r) + 1 : InLine(r, k)
  BY <1>1, <1>3, <1>4 DEF Parsing
<1>6. i = EndOf(r, k) /\ i + 1 < m_read_idx /\ m_read_buf[i] = CR
  BY <1>1, <1>2, <1>3, <1>5, StopsInLine
<1>7. /\ m_read_buf' = [m_read_buf EXCEPT ![i] = NUL, ![i + 1] = NUL] /\ m_checked_idx' = i + 2
      /\ UNCHANGED <<request, unread, m_read_idx, m_start_line, fields>> /\ at' = "line"
  BY <1>1, <1>6 DEF clientVars
<1>8. /\ i \in Nat /\ m_read_idx \in 0 .. READ_BUFFER_SIZE /\ READ_BUFFER_SIZE \in Nat
      /\ m_checked_idx \in Nat /\ m_read_buf \in [0 .. READ_BUFFER_SIZE - 1 -> Chars]
  BY ParseAssumption DEF IInv, Positions, TypeOK
<1>9. Received(r)' /\ Scanned(r, k)'
  BY <1>2, <1>5, <1>7, SameScan DEF fields, InLine
<1>10. Buffered(r)'
  <2>1. \A j \in 0 .. READ_BUFFER_SIZE - 1 : j # i /\ j # i + 1 => m_read_buf'[j] = m_read_buf[j]
    BY <1>7, <1>8
  <2>2. ASSUME NEW j \in m_checked_idx' .. m_read_idx - 1 PROVE m_read_buf'[j] = Text(r)[j + 1]
    <3>1. j \in m_checked_idx .. m_read_idx - 1 /\ j \in 0 .. READ_BUFFER_SIZE - 1 /\ j # i /\ j # i + 1
      BY <1>7, <1>8
    <3> QED
      BY <1>2, <2>1, <3>1 DEF Buffered
  <2>3. ASSUME NEW j \in m_read_idx .. READ_BUFFER_SIZE - 1 PROVE m_read_buf'[j] = NUL
    <3>1. j \in 0 .. READ_BUFFER_SIZE - 1 /\ j # i /\ j # i + 1
      BY <1>6, <1>8
    <3> QED
      BY <1>2, <2>1, <3>1 DEF Buffered
  <2>4. ASSUME NEW j \in 0 .. READ_BUFFER_SIZE - 1 PROVE m_read_buf'[j] = NUL \/ Sent(r, m_read_buf'[j])
    <3>1. m_read_buf'[j] = NUL \/ m_read_buf'[j] = m_read_buf[j]
      BY <1>7, <1>8
    <3> QED
      BY <1>2, <3>1 DEF Buffered
  <2> QED
    BY <1>7, <2>2, <2>3, <2>4 DEF Buffered
<1>11. m_read_buf'[3 * k] = FirstOf(r, k)
  <2>1. /\ k \in Nat /\ 3 * k <= EndOf(r, k) /\ Headers(r) \in Nat
        /\ k \in 0 .. Headers(r) => EndOf(r, k) = 3 * k + 1
        /\ k = Headers(r) + 1 => EndOf(r, k) = 3 * k
    BY <1>3, LineIs, WellFormedTypes
  <2>2. 3 * k \in 0 .. READ_BUFFER_SIZE - 1
    BY <1>6, <1>8, <2>1
  <2>3. CASE k = Headers(r) + 1
    <3>1. m_read_buf'[3 * k] = NUL
      BY <1>6, <1>7, <1>8, <2>1, <2>2, <2>3
    <3> QED
      BY <2>1, <2>3, <3>1 DEF FirstOf
  <2>4. CASE k \in 0 .. Headers(r)
    <3>1. m_read_buf'[3 * k] = m_read_buf[3 * k] /\ 3 * k < m_read_idx
      BY <1>6, <1>7, <1>8, <2>1, <2>2, <2>4
    <3> QED
      BY <1>1, <1>2, <1>3, <1>5, <2>4, <3>1, LineBegins
  <2> QED
    BY <2>1, <2>3, <2>4
<1>12. InLine(r, k)'
  BY <1>5, <1>6, <1>7, <1>9, <1>11 DEF InLine, fields
<1> QED
  BY <1>3, <1>7, <1>9, <1>10, <1>12 DEF Parsing

LEMMA NoLineKeepsParsing ==
  ASSUME IInv, NEW r, WellFormed(r), Parsing(r), request = r, NoLine
  PROVE  Parsing(r)'
<1>1. PICK i \in m_checked_idx .. m_read_idx :
        /\ at = "parse" /\ ~(m_check_state = "CONTENT" /\ line_status = "OK")
        /\ StopsAt(i) /\ ~CompleteLine(i)
        /\ m_checked_idx' = i
        /\ line_status' = "OPEN" /\ at' = "recv"
        /\ UNCHANGED <<clientVars, m_read_buf, m_read_idx, m_start_line, fields, result>>
  BY DEF NoLine
<1>2. Received(r) /\ Buffered(r)
  BY <1>1 DEF Parsing
<1>3. /\ m_checked_idx' = i /\ at' = "recv" /\ line_status' = "OPEN"
      /\ UNCHANGED <<request, unread, m_read_buf, m_read_idx, m_start_line, fields>>
  BY <1>1 DEF clientVars
<1>4. m_checked_idx \in Nat /\ m_read_idx \in Nat /\ i \in Nat
  BY DEF IInv, Positions, TypeOK
<1>5. Received(r)' /\ \A k : Scanned(r, k)' <=> Scanned(r, k)
  BY <1>2, <1>3, SameScan DEF fields
<1>6. Buffered(r)'
  <2>1. \A j \in i .. m_read_idx - 1 : j \in m_checked_idx .. m_read_idx - 1
    BY <1>4
  <2> QED
    BY <1>2, <1>3, <2>1 DEF Buffered
<1>7. CASE Malformed(r)
  <2>1. Stuck
    BY <1>1, <1>7 DEF Parsing
  <2>2. i \in {0, 1}
    BY <1>1, <1>2, <1>7, <2>1, StopsWhenMalformed
  <2>3. Stuck'
    BY <1>3, <1>5, <2>1, <2>2 DEF Stuck, fields
  <2> QED
    BY <1>3, <1>5, <1>6, <1>7, <2>3 DEF Parsing
<1>8. CASE ~Malformed(r) /\ InBody(r)
  <2>1. i = m_read_idx
    BY <1>1, <1>2, <1>8, StopsInBody
  <2>2. line_status = "OPEN"
    BY <1>1, <1>8 DEF InBody, IInv, Positions, TypeOK
  <2>3. InBody(r)'
    BY <1>1, <1>3, <1>4, <1>5, <1>8, <2>1, <2>2 DEF InBody, fields, IInv, Positions, TypeOK
  <2> QED
    BY <1>3, <1>5, <1>6, <1>8, <2>3 DEF Parsing
<1>9. CASE ~Malformed(r) /\ ~InBody(r)
  <2>1. PICK k \in 0 .. Headers(r) + 1 : InLine(r, k)
    BY <1>1, <1>9 DEF Parsing
  <2>2. i <= EndOf(r, k) /\ m_read_idx <= EndOf(r, k) + 1
    BY <1>1, <1>2, <1>9, <2>1, StopsInLine
  <2>3. m_checked_idx \in 3 * k .. EndOf(r, k)
    BY <1>1, <2>1 DEF InLine
  <2>4. k \in Nat /\ EndOf(r, k) \in Nat /\ (k = Headers(r) + 1 => EndOf(r, k) = 3 * k) /\ Headers(r) \in Nat
    BY <1>9, LineIs, WellFormedTypes
  <2>5. i \in 3 * k .. EndOf(r, k)
    BY <1>4, <2>2, <2>3, <2>4
  <2>6. i > 3 * k => m_read_buf[3 * k] = FirstOf(r, k)
    <3>1. i > 3 * k => k \in 0 .. Headers(r) /\ 3 * k < m_read_idx
      BY <1>4, <2>2, <2>4
    <3> QED
      BY <1>1, <1>2, <1>9, <2>1, <3>1, LineBegins
  <2>7. InLine(r, k)'
    BY <1>3, <1>5, <2>1, <2>2, <2>5, <2>6 DEF InLine, fields
  <2> QED
    BY <1>3, <1>5, <1>6, <1>9, <2>1, <2>7 DEF Parsing
<1> QED
  BY <1>7, <1>8, <1>9

\* The line at which the worker looks.
LEMMA LineAtHand ==
  ASSUME IInv, NEW r, WellFormed(r), Parsing(r), request = r, at = "line", m_check_state # "CONTENT"
  PROVE  /\ ~Malformed(r) /\ Received(r) /\ Buffered(r)
         /\ \E k \in 0 .. Headers(r) + 1 :
              InLine(r, k) /\ TextChar = FirstOf(r, k) /\ m_checked_idx = EndOf(r, k) + 2
<1>1. ~Malformed(r) /\ Received(r) /\ Buffered(r)
  BY DEF Parsing, Stuck
<1>2. PICK k \in 0 .. Headers(r) + 1 : InLine(r, k)
  BY <1>1 DEF Parsing, InBody
<1>3. m_checked_idx = EndOf(r, k) + 2 /\ m_start_line = 3 * k
  BY <1>2 DEF InLine
<1>4. m_checked_idx > 3 * k
  <2>1. k \in Nat /\ EndOf(r, k) \in Nat /\ 3 * k <= EndOf(r, k)
    BY <1>1, LineIs
  <2> QED
    BY <1>3, <2>1
<1>5. TextChar = FirstOf(r, k)
  BY <1>2, <1>3, <1>4 DEF InLine, TextChar, text
<1> QED
  BY <1>1, <1>2, <1>3, <1>5

\* Line k + 1 begins where line k has been completed.
LEMMA NextLineBegins ==
  ASSUME IInv, NEW r, WellFormed(r), ~Malformed(r), NEW k \in 0 .. Headers(r),
         m_checked_idx = EndOf(r, k) + 2, at' = "parse",
         m_checked_idx' = m_checked_idx, m_start_line' = m_checked_idx,
         m_check_state' = "HEADER", Scanned(r, k + 1)'
  PROVE  k + 1 \in 0 .. Headers(r) + 1 /\ InLine(r, k + 1)'
<1>1. Headers(r) \in Nat /\ k \in Nat /\ k \in 0 .. Headers(r) + 1 /\ k + 1 \in 0 .. Headers(r) + 1
  BY WellFormedTypes
<1>2. m_checked_idx = 3 * (k + 1)
  BY <1>1, LineIs
<1>3. EndOf(r, k + 1) \in Nat /\ 3 * (k + 1) <= EndOf(r, k + 1)
  BY <1>1, LineIs
<1> QED
  BY <1>1, <1>2, <1>3 DEF InLine

LEMMA RequestLineKeepsParsing ==
  ASSUME IInv, NEW r, WellFormed(r), Parsing(r), request = r, RequestLine
  PROVE  Parsing(r)'
<1>1. /\ at = "line" /\ m_check_state = "REQUESTLINE" /\ m_start_line' = m_checked_idx
      /\ UNCHANGED <<request, unread, m_read_buf, m_read_idx, m_checked_idx, m_linger, m_content_length>>
  BY DEF RequestLine, clientVars
<1>2. PICK k \in 0 .. Headers(r) + 1 :
        /\ ~Malformed(r) /\ Received(r) /\ Buffered(r)
        /\ InLine(r, k) /\ TextChar = FirstOf(r, k) /\ m_checked_idx = EndOf(r, k) + 2
  BY <1>1, LineAtHand
<1>3. k = 0 /\ TextChar = r.line
  BY <1>1, <1>2 DEF InLine, FirstOf
<1>4. cgi = 0 /\ m_linger = FALSE /\ m_content_length = 0
  BY <1>2, <1>3 DEF InLine, Scanned
<1>5. Received(r)' /\ Buffered(r)'
  BY <1>1, <1>2, SameScan DEF Buffered
<1>6. Headers(r) \in Nat /\ r.line.kind \in {"GET", "POST", "junk"}
  BY WellFormedTypes
<1>9. CASE TextChar.kind \in {"GET", "POST"} /\ TextChar.arg = NoPath
  <2>1. at' = "astray"
    BY <1>9 DEF RequestLine, Astray
  <2> QED
    BY <1>5, <2>1 DEF Parsing
<1>7. CASE TextChar.kind \in {"GET", "POST"} /\ TextChar.arg # NoPath
  <2>1. /\ m_url' = (IF r.line.arg = 8 THEN 9 ELSE r.line.arg)
        /\ cgi' = (IF r.line.kind = "POST" THEN 1 ELSE 0)
        /\ m_check_state' = "HEADER" /\ at' = "parse"
    BY <1>3, <1>4, <1>7 DEF RequestLine
  <2>2. Scanned(r, 0 + 1)'
    <3>1. 1 .. 1 - 1 = {} /\ 0 + 1 = 1
      OBVIOUS
    <3> QED
      BY <1>1, <1>3, <1>4, <1>7, <2>1, <3>1 DEF Scanned
  <2>3. 0 + 1 \in 0 .. Headers(r) + 1 /\ InLine(r, 0 + 1)'
    BY <1>1, <1>2, <1>3, <1>6, <2>1, <2>2, NextLineBegins
  <2> QED
    BY <1>2, <1>5, <2>1, <2>3 DEF Parsing
<1>8. CASE TextChar.kind \notin {"GET", "POST"}
  <2>1. at' = "respond" /\ result' = [code |-> "BAD_REQUEST", page |-> "", creds |-> <<>>, linger |-> FALSE]
    BY <1>4, <1>8 DEF RequestLine, BadRequest
  <2>2. [code |-> result'.code, page |-> result'.page, linger |-> result'.linger] = Expected(r)
    BY <1>3, <1>8, <2>1 DEF Expected
  <2>3. result'.linger = FALSE /\ result'.page # "form" /\ result'.creds = <<>>
    BY <2>1
  <2>4. \A f \in DOMAIN result'.creds : \A i \in DOMAIN result'.creds[f] : Sent(r, result'.creds[f][i])
    BY <2>3
  <2>5. Answered(r)'
    BY <1>2, <2>2, <2>3, <2>4 DEF Answered
  <2> QED
    BY <1>2, <1>5, <2>1, <2>5 DEF Parsing
<1> QED
  BY <1>7, <1>8, <1>9

LEMMA HeaderKeepsParsing ==
  ASSUME IInv, NEW r, WellFormed(r), Parsing(r), request = r, Header
  PROVE  Parsing(r)'
<1>1. /\ at = "line" /\ m_check_state = "HEADER" /\ TextChar # NUL /\ m_start_line' = m_checked_idx
      /\ m_linger' = (m_linger \/ TextChar.kind = "keep-alive")
      /\ m_content_length' = IF TextChar.kind = "length" THEN TextChar.arg ELSE m_content_length
      /\ at' = "parse"
      /\ UNCHANGED <<request, unread, m_read_buf, m_read_idx, m_checked_idx, m_check_state, m_url, cgi>>
  BY DEF Header, clientVars
<1>2. PICK k \in 0 .. Headers(r) + 1 :
        /\ ~Malformed(r) /\ Received(r) /\ Buffered(r)
        /\ InLine(r, k) /\ TextChar = FirstOf(r, k) /\ m_checked_idx = EndOf(r, k) + 2
  BY <1>1, LineAtHand
<1>3. Headers(r) \in Nat
  BY WellFormedTypes
<1>4. k \in 1 .. Headers(r) /\ TextChar = r.headers[k]
  BY <1>1, <1>2, <1>3 DEF InLine, FirstOf
<1>5. Received(r)' /\ Buffered(r)'
  BY <1>1, <1>2, SameScan DEF Buffered
<1>6. Scanned(r, k + 1)'
  <2>0. k \in Nat /\ k # 0 /\ k + 1 # 0 /\ (k + 1) - 1 = k
    BY <1>3, <1>4
  <2>1. \A i \in 1 .. k : i \in 1 .. k - 1 \/ i = k
    BY <2>0
  <2>2. \A i \in 1 .. k - 1 : i \in 1 .. k
    BY <2>0
  <2>3. Scanned(r, k)
    BY <1>2 DEF InLine
  <2>4. m_linger' <=> \E i \in 1 .. k : r.headers[i].kind = "keep-alive"
    <3>1. m_linger' <=> m_linger \/ r.headers[k].kind = "keep-alive"
      BY <1>1, <1>4 DEF IInv, Positions, TypeOK
    <3>2. m_linger <=> \E i \in 1 .. k - 1 : r.headers[i].kind = "keep-alive"
      BY <2>0, <2>3 DEF Scanned
    <3>3. k \in 1 .. k
      BY <2>0, <1>4
    <3> QED
      BY <2>1, <2>2, <3>1, <3>2, <3>3
  <2>5. \/ m_content_length' = 0 /\ \A i \in 1 .. k : r.headers[i].kind # "length"
        \/ \E i \in 1 .. k :
             /\ r.headers[i].kind = "length" /\ m_content_length' = r.headers[i].arg
             /\ \A j \in i + 1 .. k : r.headers[j].kind # "length"
    <3>1. CASE r.headers[k].kind = "length"
      <4>1. k \in 1 .. k /\ k + 1 .. k = {}
        BY <1>4, <2>0
      <4>2. m_content_length' = r.headers[k].arg
        BY <1>1, <1>4, <3>1
      <4> QED
        BY <3>1, <4>1, <4>2
    <3>2. CASE r.headers[k].kind # "length"
      <4>0. m_content_length' = m_content_length
        BY <1>1, <1>4, <3>2
      <4>1. CASE m_content_length = 0 /\ \A i \in 1 .. k - 1 : r.headers[i].kind # "length"
        BY <2>1, <3>2, <4>0, <4>1
      <4>2. ASSUME NEW i \in 1 .. k - 1, r.headers[i].kind = "length", m_content_length = r.headers[i].arg,
                   \A j \in i + 1 .. k - 1 : r.headers[j].kind # "length"
            PROVE  \E l \in 1 .. k :
                     /\ r.headers[l].kind = "length" /\ m_content_length' = r.headers[l].arg
                     /\ \A j \in l + 1 .. k : r.headers[j].kind # "length"
        <5>1. \A j \in i + 1 .. k : j \in i + 1 .. k - 1 \/ j = k
          BY <2>0
        <5> QED
          BY <2>2, <3>2, <4>0, <4>2, <5>1
      <4> QED
        BY <2>0, <2>3, <4>1, <4>2 DEF Scanned
    <3> QED
      BY <3>1, <3>2
  <2>6. /\ r.line.kind \in {"GET", "POST"}
        /\ m_url' = IF r.line.arg = 8 THEN 9 ELSE r.line.arg
        /\ cgi' = IF r.line.kind = "POST" THEN 1 ELSE 0
    BY <1>1, <2>0, <2>3 DEF Scanned
  <2> QED
    BY <2>0, <2>4, <2>5, <2>6 DEF Scanned
<1>7. k + 1 \in 0 .. Headers(r) + 1 /\ InLine(r, k + 1)'
  <2>1. k \in 0 .. Headers(r) /\ m_check_state' = "HEADER"
    BY <1>1, <1>3, <1>4
  <2> QED
    BY <1>1, <1>2, <1>6, <2>1, NextLineBegins
<1> QED
  BY <1>1, <1>2, <1>5, <1>7 DEF Parsing

\* When the headers have been read, m_content_length is the length of the body,
\* or there is none.
LEMMA LengthIsRead ==
  ASSUME NEW r, WellFormed(r), Scanned(r, Headers(r) + 1)
  PROVE  m_content_length = Len(r.body) \/ Absurd(r, m_content_length)
<1>1. Headers(r) \in Nat /\ Headers(r) + 1 # 0 /\ (Headers(r) + 1) - 1 = Headers(r) /\ DOMAIN r.headers = 1 .. Headers(r)
  BY WellFormedTypes
<1>2. CASE m_content_length = 0 /\ \A i \in 1 .. Headers(r) : r.headers[i].kind # "length"
  <2>1. r.body = <<>>
    BY <1>1, <1>2 DEF WellFormed
  <2> QED
    BY <1>2, <2>1
<1>3. ASSUME NEW i \in 1 .. Headers(r), r.headers[i].kind = "length", m_content_length = r.headers[i].arg,
             \A j \in i + 1 .. Headers(r) : r.headers[j].kind # "length"
      PROVE  m_content_length = Len(r.body) \/ Absurd(r, m_content_length)
  <2>1. \A j \in 1 .. Headers(r) : j > i => j \in i + 1 .. Headers(r)
    BY <1>1
  <2> QED
    BY <1>1, <1>3, <2>1 DEF WellFormed
<1> QED
  BY <1>1, <1>2, <1>3 DEF Scanned

\* The page and linger are those of the request.
LEMMA PageIs ==
  ASSUME IInv, NEW r, WellFormed(r), Scanned(r, Headers(r) + 1)
  PROVE  Expected(r) = [code |-> "FILE_REQUEST", page |-> Page(m_url, cgi), linger |-> m_linger]
<1>1. Headers(r) \in Nat /\ Headers(r) + 1 # 0 /\ (Headers(r) + 1) - 1 = Headers(r) /\ DOMAIN r.headers = 1 .. Headers(r)
  BY WellFormedTypes
<1>2. /\ r.line.kind \in {"GET", "POST"}
      /\ m_url = IF r.line.arg = 8 THEN 9 ELSE r.line.arg
      /\ cgi = IF r.line.kind = "POST" THEN 1 ELSE 0
      /\ m_linger <=> \E i \in 1 .. Headers(r) : r.headers[i].kind = "keep-alive"
  BY <1>1 DEF Scanned
<1>3. Expected(r) = [code   |-> "FILE_REQUEST",
                     page   |-> Page(m_url, cgi),
                     linger |-> \E i \in DOMAIN r.headers : r.headers[i].kind = "keep-alive"]
  BY <1>2 DEF Expected
<1>4. m_linger = \E i \in DOMAIN r.headers : r.headers[i].kind = "keep-alive"
  <2>1. m_linger <=> \E i \in DOMAIN r.headers : r.headers[i].kind = "keep-alive"
    BY <1>1, <1>2
  <2> QED
    BY <2>1 DEF IInv, Positions, TypeOK
<1> QED
  BY <1>3, <1>4

-----------------------------------------------------------------------------
(* What do_request reads.                                                  *)

\* The characters of a string are in the buffer.
LEMMA StringIsFrom ==
  ASSUME NEW buf, NEW i \in Nat, NEW end \in Nat, NEW n \in DOMAIN CString(buf, i, end)
  PROVE  /\ n \in Nat /\ n >= 1 /\ i + n - 1 < end
         /\ CString(buf, i, end)[n] = buf[i + n - 1] /\ buf[i + n - 1] # NUL
<1>1. PICK length : length = {m \in 1 .. end - i : \A k \in 0 .. m - 1 : buf[i + k] # NUL}
  OBVIOUS
<1>2. CString(buf, i, end) = [m \in length |-> buf[i + m - 1]]
  BY <1>1 DEF CString
<1>3. n \in length
  BY <1>2
<1>4. n \in 1 .. end - i /\ \A k \in 0 .. n - 1 : buf[i + k] # NUL
  BY <1>1, <1>3
<1>5. n - 1 \in 0 .. n - 1 /\ i + (n - 1) = i + n - 1
  BY <1>4
<1>6. buf[i + n - 1] # NUL
  BY <1>4, <1>5
<1> QED
  BY <1>2, <1>3, <1>4, <1>6

\* A string of n characters.
IsString(buf, i, end, n) ==
  i + n <= end /\ (\A k \in 0 .. n - 1 : buf[i + k] # NUL) /\ (i + n < end => buf[i + n] = NUL)

Slice(buf, i, n) == [m \in 1 .. n |-> buf[i + m - 1]]

LEMMA StringIs ==
  ASSUME NEW buf, NEW i \in Nat, NEW end \in Nat, NEW n \in Nat, IsString(buf, i, end, n)
  PROVE  CString(buf, i, end) = Slice(buf, i, n)
<1> USE DEF IsString, Slice
<1>1. PICK length : length = {m \in 1 .. end - i : \A k \in 0 .. m - 1 : buf[i + k] # NUL}
  OBVIOUS
<1>2. ASSUME NEW m \in 1 .. n PROVE m \in length
  <2>1. m \in 1 .. end - i /\ \A k \in 0 .. m - 1 : k \in 0 .. n - 1
    OBVIOUS
  <2> QED
    BY <1>1, <2>1
<1>3. ASSUME NEW m \in length PROVE m \in 1 .. n
  <2>1. m \in 1 .. end - i /\ \A k \in 0 .. m - 1 : buf[i + k] # NUL
    BY <1>1
  <2>2. ASSUME m > n PROVE FALSE
    <3>1. n \in 0 .. m - 1 /\ i + n < end
      BY <2>1, <2>2
    <3> QED
      BY <2>1, <3>1
  <2> QED
    BY <2>1, <2>2
<1>4. length = 1 .. n
  BY <1>2, <1>3
<1> QED
  BY <1>1, <1>4 DEF CString

\* An answer of do_request has the page and linger of the request, and in its
\* name and password nothing that was not sent with it.
LEMMA DoRequestAnswers ==
  ASSUME IInv, NEW r, WellFormed(r), Scanned(r, Headers(r) + 1),
         NEW buf, buf \in [0 .. READ_BUFFER_SIZE - 1 -> Chars],
         \A j \in 0 .. READ_BUFFER_SIZE - 1 : buf[j] = NUL \/ Sent(r, buf[j]),
         NEW string \in 0 .. READ_BUFFER_SIZE \cup {NoString}, DoRequest(buf, string), at' = "respond"
  PROVE  /\ [code |-> result'.code, page |-> result'.page, linger |-> result'.linger] = Expected(r)
         /\ result'.page # "form" => result'.creds = <<>>
         /\ result'.page = "form" =>
              \E amp \in DOMAIN buf :
                /\ Separates(buf, string, amp)
                /\ result'.creds = <<CString(buf, string, amp), CString(buf, amp + 1, READ_BUFFER_SIZE)>>
         /\ \A f \in DOMAIN result'.creds : \A i \in DOMAIN result'.creds[f] : Sent(r, result'.creds[f][i])
<1>1. Expected(r) = [code |-> "FILE_REQUEST", page |-> Page(m_url, cgi), linger |-> m_linger]
  BY PageIs
<1>2. CASE Page(m_url, cgi) # "form"
  <2>1. result' = [code |-> "FILE_REQUEST", page |-> Page(m_url, cgi), creds |-> <<>>, linger |-> m_linger]
    BY <1>2 DEF DoRequest, FileRequest
  <2>2. /\ result'.page # "form" /\ result'.creds = <<>>
        /\ [code |-> result'.code, page |-> result'.page, linger |-> result'.linger] = Expected(r)
    BY <1>1, <1>2, <2>1
  <2> QED
    BY <2>2
<1>3. CASE Page(m_url, cgi) = "form"
  <2>1. PICK amp \in DOMAIN buf :
          /\ Separates(buf, string, amp)
          /\ FileRequest(<<CString(buf, string, amp), CString(buf, amp + 1, READ_BUFFER_SIZE)>>)
    BY <1>3 DEF DoRequest, Astray
  <2>2. PICK name, password : name = CString(buf, string, amp) /\ password = CString(buf, amp + 1, READ_BUFFER_SIZE)
    OBVIOUS
  <2>3. result' = [code |-> "FILE_REQUEST", page |-> Page(m_url, cgi), creds |-> <<name, password>>, linger |-> m_linger]
    BY <2>1, <2>2 DEF FileRequest
  <2>4. /\ result'.page = "form" /\ result'.creds = <<name, password>>
        /\ [code |-> result'.code, page |-> result'.page, linger |-> result'.linger] = Expected(r)
    BY <1>1, <1>3, <2>3
  <2>5. /\ string \in Nat /\ amp \in Nat /\ string <= amp /\ amp < READ_BUFFER_SIZE
        /\ READ_BUFFER_SIZE \in Nat
    BY <2>1, ParseAssumption DEF Separates, NoString
  <2>6. ASSUME NEW i \in DOMAIN name PROVE Sent(r, name[i])
    <3>1. /\ i \in Nat /\ i >= 1 /\ string + i - 1 < amp
          /\ name[i] = buf[string + i - 1] /\ buf[string + i - 1] # NUL
      BY <2>2, <2>5, StringIsFrom
    <3>2. string + i - 1 \in 0 .. READ_BUFFER_SIZE - 1
      BY <2>5, <3>1
    <3> QED
      BY <3>1, <3>2
  <2>7. ASSUME NEW i \in DOMAIN password PROVE Sent(r, password[i])
    <3>0. amp + 1 \in Nat
      BY <2>5
    <3>1. /\ i \in Nat /\ i >= 1 /\ (amp + 1) + i - 1 < READ_BUFFER_SIZE
          /\ password[i] = buf[(amp + 1) + i - 1] /\ buf[(amp + 1) + i - 1] # NUL
      BY <2>2, <2>5, <3>0, StringIsFrom
    <3>2. (amp + 1) + i - 1 \in 0 .. READ_BUFFER_SIZE - 1
      BY <2>5, <3>1
    <3> QED
      BY <3>1, <3>2
  <2>8. \A f \in DOMAIN <<name, password>> : \A i \in DOMAIN <<name, password>>[f] : Sent(r, <<name, password>>[f][i])
    <3>1. DOMAIN <<name, password>> = {1, 2} /\ <<name, password>>[1] = name /\ <<name, password>>[2] = password
      OBVIOUS
    <3> QED
      BY <2>6, <2>7, <3>1
  <2> QED
    BY <2>1, <2>2, <2>4, <2>8
<1> QED
  BY <1>2, <1>3

LEMMA EmptyLineKeepsParsing ==
  ASSUME IInv, NEW r, WellFormed(r), Parsing(r), request = r, EmptyLine
  PROVE  Parsing(r)'
<1>1. /\ at = "line" /\ m_check_state = "HEADER" /\ TextChar = NUL /\ m_start_line' = m_checked_idx
      /\ UNCHANGED <<request, unread, m_read_buf, m_read_idx, m_checked_idx, m_url, cgi, m_linger, m_content_length,
                     line_status>>
  BY DEF EmptyLine, clientVars
<1>2. PICK k \in 0 .. Headers(r) + 1 :
        /\ ~Malformed(r) /\ Received(r) /\ Buffered(r)
        /\ InLine(r, k) /\ TextChar = FirstOf(r, k) /\ m_checked_idx = EndOf(r, k) + 2
  BY <1>1, LineAtHand
<1>3. Headers(r) \in Nat /\ \A i \in 1 .. Headers(r) : r.headers[i].kind \in {"keep-alive", "length", "other"}
  BY WellFormedTypes
<1>4. k = Headers(r) + 1
  <2>1. k # 0
    BY <1>1, <1>2 DEF InLine
  <2>2. k \notin 1 .. Headers(r)
    <3>1. ASSUME k \in 1 .. Headers(r) PROVE FALSE
      <4>1. FirstOf(r, k) = r.headers[k]
        BY <2>1, <3>1 DEF FirstOf
      <4>2. r.headers[k].kind # "NUL"
        BY <1>3, <3>1
      <4> QED
        BY <1>1, <1>2, <4>1, <4>2, CharFacts
    <3> QED
      BY <3>1
  <2> QED
    BY <1>3, <2>1, <2>2
<1>5. m_checked_idx = BodyAt(r) /\ BodyAt(r) \in Nat /\ Size(r) = BodyAt(r) + Len(r.body) /\ Len(r.body) \in Nat
  BY <1>2, <1>4, LineIs, WellFormedTypes
<1>6. Scanned(r, Headers(r) + 1)
  BY <1>2, <1>4 DEF InLine
<1>7. m_content_length = Len(r.body) \/ Absurd(r, m_content_length)
  BY <1>6, LengthIsRead
<1>8. Received(r)' /\ Buffered(r)' /\ Scanned(r, Headers(r) + 1)'
  BY <1>1, <1>2, <1>6, SameScan DEF Buffered
<1>9. m_read_idx >= BodyAt(r) /\ m_read_idx \in Nat
  BY <1>5 DEF IInv, Positions, TypeOK
<1>10. CASE m_content_length # 0
  <2>1. m_check_state' = "CONTENT" /\ at' = "parse"
    BY <1>10 DEF EmptyLine
  <2>2. line_status' = "OK"
    BY <1>1 DEF IInv, LineIsBefore
  <2>4. InBody(r)'
    BY <1>1, <1>5, <1>8, <2>1, <2>2 DEF InBody
  <2> QED
    BY <1>2, <1>8, <2>1, <2>4 DEF Parsing
<1>11. CASE m_content_length = 0
  <2>1. DoRequest(m_read_buf, m_string)
    BY <1>11 DEF EmptyLine
  <2>2. r.body = <<>> /\ Len(r.body) = 0
    <3>1. r.body \in Seq(Nat)
      BY DEF WellFormed
    <3>2. Len(r.body) = 0 \/ r.body = <<>>
      BY <1>7, <1>11 DEF Absurd
    <3> QED
      BY <3>1, <3>2
  <2>3. m_read_idx = Size(r)
    <3>1. /\ m_read_idx + Len(unread) = Len(Text(r)) /\ Len(Text(r)) = Size(r)
          /\ unread \in Seq(Chars)
      BY <1>2, GoodText DEF Received, IInv, Positions, TypeOK
    <3>2. Len(unread) \in Nat
      BY <3>1
    <3>3. Size(r) = BodyAt(r)
      BY <1>5, <2>2
    <3> QED
      BY <1>5, <1>9, <3>1, <3>2, <3>3
  <2>4. CASE at' = "respond"
    <3>1. /\ m_read_buf \in [0 .. READ_BUFFER_SIZE - 1 -> Chars]
          /\ \A j \in 0 .. READ_BUFFER_SIZE - 1 : m_read_buf[j] = NUL \/ Sent(r, m_read_buf[j])
          /\ m_string \in 0 .. READ_BUFFER_SIZE \cup {NoString}
      BY <1>2 DEF Buffered, IInv, Positions, TypeOK
    <3>2. /\ [code |-> result'.code, page |-> result'.page, linger |-> result'.linger] = Expected(r)
          /\ result'.page # "form" => result'.creds = <<>>
          /\ \A f \in DOMAIN result'.creds : \A i \in DOMAIN result'.creds[f] : Sent(r, result'.creds[f][i])
      BY <1>6, <2>1, <2>4, <3>1, DoRequestAnswers
    <3>3. DOMAIN r.body = {}
      BY <2>2
    <3>4. Answered(r)'
      BY <1>1, <1>2, <2>3, <3>2, <3>3 DEF Answered
    <3> QED
      BY <1>8, <2>4, <3>4 DEF Parsing
  <2>5. CASE at' = "astray"
    BY <1>8, <2>5 DEF Parsing
  <2> QED
    BY <2>1, <2>4, <2>5, DoRequestEnds
<1> QED
  BY <1>10, <1>11

\* In the state CONTENT the worker is in the body of a request.
LEMMA BodyAtHand ==
  ASSUME IInv, NEW r, WellFormed(r), Parsing(r), request = r, at \in {"parse", "line"}, m_check_state = "CONTENT"
  PROVE  /\ ~Malformed(r) /\ Received(r) /\ Buffered(r) /\ InBody(r)
         /\ m_content_length = Len(r.body) \/ Absurd(r, m_content_length)
         /\ Scanned(r, Headers(r) + 1) /\ m_read_idx <= Size(r)
<1>1. ~Malformed(r) /\ Received(r) /\ Buffered(r)
  BY DEF Parsing, Stuck
<1>2. InBody(r)
  <2>1. ASSUME NEW k \in 0 .. Headers(r) + 1, InLine(r, k) PROVE FALSE
    BY <2>1 DEF InLine
  <2> QED
    BY <1>1, <2>1 DEF Parsing
<1>3. Scanned(r, Headers(r) + 1)
  BY <1>2 DEF InBody
<1>4. m_read_idx <= Size(r)
  <2>1. unread \in Seq(Chars) /\ m_read_idx \in Nat
    BY DEF IInv, Positions, TypeOK
  <2>2. Len(unread) \in Nat /\ m_read_idx + Len(unread) = Size(r)
    BY <1>1, <2>1, GoodText DEF Received
  <2>3. Size(r) \in Nat
    BY WellFormedTypes
  <2> QED
    BY <2>1, <2>2, <2>3
<1> QED
  BY <1>1, <1>2, <1>3, <1>4, LengthIsRead

LEMMA NoLineInBodyKeepsParsing ==
  ASSUME IInv, NEW r, WellFormed(r), Parsing(r), request = r, NoLineInBody
  PROVE  Parsing(r)'
<1>1. /\ at = "parse" /\ m_check_state = "CONTENT" /\ line_status = "OK" /\ at' = "line"
      /\ UNCHANGED <<request, unread, m_read_buf, m_read_idx, m_checked_idx, m_start_line, line_status,
                     m_check_state, m_url, cgi, m_linger, m_content_length>>
  BY DEF NoLineInBody, clientVars, indices, fields
<1>2. ~Malformed(r) /\ Received(r) /\ Buffered(r) /\ InBody(r)
  BY <1>1, BodyAtHand
<1>3. Received(r)' /\ Buffered(r)' /\ (Scanned(r, Headers(r) + 1)' <=> Scanned(r, Headers(r) + 1))
  BY <1>1, <1>2, SameScan DEF Buffered
<1>4. InBody(r)'
  BY <1>1, <1>2, <1>3 DEF InBody
<1> QED
  BY <1>1, <1>2, <1>3, <1>4 DEF Parsing

\* A body of which recv returns all or nothing has not begun to arrive.
LEMMA ContentOpenKeepsParsing ==
  ASSUME IInv, NEW r, WellFormed(r), Parsing(r), request = r, ContentOpen
  PROVE  Parsing(r)'
<1>1. /\ at = "line" /\ m_check_state = "CONTENT" /\ line_status' = "OPEN" /\ at' = "parse"
      /\ ~Overflows /\ ~BodyIsThere /\ m_start_line' = m_checked_idx
      /\ UNCHANGED <<request, unread, m_read_buf, m_read_idx, m_checked_idx,
                     m_check_state, m_url, cgi, m_linger, m_content_length>>
  BY DEF ContentOpen, clientVars, fields
<1>2. /\ ~Malformed(r) /\ Received(r) /\ Buffered(r) /\ InBody(r)
      /\ m_content_length = Len(r.body) \/ Absurd(r, m_content_length)
  BY <1>1, BodyAtHand
<1>3. Received(r)' /\ Buffered(r)' /\ (Scanned(r, Headers(r) + 1)' <=> Scanned(r, Headers(r) + 1))
  BY <1>1, <1>2, SameScan DEF Buffered
<1>4. /\ BodyAt(r) \in Nat /\ Len(r.body) \in Nat /\ Size(r) = BodyAt(r) + Len(r.body)
      /\ m_read_idx \in Nat /\ m_checked_idx \in Nat /\ m_start_line \in Nat /\ m_checked_idx <= m_read_idx
  BY WellFormedTypes DEF IInv, Positions, TypeOK
<1>5. BodyAt(r) <= m_start_line' /\ m_start_line' <= m_checked_idx'
  BY <1>1, <1>2, <1>4 DEF InBody
<1>8. m_content_length = Len(r.body) /\ m_read_idx < Len(r.body) + m_checked_idx /\ Len(r.body) > 0
  <2>1. ASSUME Absurd(r, m_content_length) PROVE FALSE
    <3>1. Len(Text(r)) = BodyAt(r) /\ m_content_length \in Int /\ INT_MAX \in Nat
      <4>1. Len(r.body) = 0
        BY <2>1 DEF Absurd
      <4> QED
        BY <1>2, <1>4, <4>1, GoodText, ParseAssumption DEF IInv, Positions, TypeOK
    <3>2. m_content_length >= 0
      BY <1>1, <1>4, <3>1 DEF BodyIsThere
    <3>3. m_content_length > INT_MAX - BodyAt(r)
      BY <2>1, <3>1, <3>2 DEF Absurd
    <3>4. BodyAt(r) <= m_checked_idx
      BY <1>4, <1>2 DEF InBody
    <3> QED
      BY <1>1, <1>4, <3>1, <3>3, <3>4 DEF Overflows
  <2>2. m_content_length = Len(r.body)
    BY <1>2, <2>1
  <2>3. m_read_idx < Len(r.body) + m_checked_idx
    BY <1>1, <1>4, <2>2 DEF BodyIsThere
  <2> QED
    BY <1>4, <2>2, <2>3
<1>6. BodyInOnePiece => m_read_idx = BodyAt(r)
  <2>1. BodyInOnePiece => m_checked_idx = BodyAt(r) /\ m_read_idx \in 0 .. BodyAt(r) \cup {Size(r)}
    BY <1>2 DEF InBody, Received
  <2> QED
    BY <1>4, <1>8, <2>1
<1>7. InBody(r)'
  BY <1>1, <1>2, <1>3, <1>5, <1>6, <1>8 DEF InBody
<1> QED
  BY <1>1, <1>2, <1>3, <1>7 DEF Parsing

\* parse_content ends the string behind the body: what do_request reads is the
\* body, all of it and nothing else.
LEMMA CredsAreBody ==
  ASSUME IInv, NEW r, WellFormed(r), ~Malformed(r), Buffered(r),
         m_checked_idx = BodyAt(r), m_read_idx = Size(r), nul = Size(r),
         NEW a, Separates(EndsBody, BodyAt(r), a), NEW amp \in DOMAIN r.body, FirstAmpersand(r.body, amp)
  PROVE  <<CString(EndsBody, BodyAt(r), a), CString(EndsBody, a + 1, READ_BUFFER_SIZE)>> = ExpectedCreds(r.body, amp)
<1>1. PICK b \in Nat, n \in Nat : b = BodyAt(r) /\ n = Len(r.body)
  BY WellFormedTypes
<1>2. PICK buf : buf = EndsBody
  OBVIOUS
<1>3. /\ Size(r) = b + n /\ buf = [i \in DOMAIN m_read_buf |-> IF i = b + n THEN NUL ELSE m_read_buf[i]]
      /\ READ_BUFFER_SIZE \in Nat /\ m_read_buf \in [0 .. READ_BUFFER_SIZE - 1 -> Chars]
      /\ b + n <= READ_BUFFER_SIZE
  <2>1. Size(r) = b + n
    BY <1>1, WellFormedTypes
  <2> QED
    BY <1>2, <2>1, ParseAssumption DEF IInv, Positions, TypeOK, EndsBody
<1>0. r.body \in Seq(Nat) /\ DOMAIN r.body = 1 .. n
  BY <1>1 DEF WellFormed
<1>4. amp \in 1 .. n
  BY <1>0
<1>5. ASSUME NEW j \in 0 .. n - 1 PROVE buf[b + j] = Char("byte", r.body[j + 1]) /\ buf[b + j] # NUL
  <2>1. b + j \in 0 .. READ_BUFFER_SIZE - 1 /\ b + j # b + n /\ b + j \in b .. b + n - 1
    BY <1>3
  <2>2. buf[b + j] = m_read_buf[b + j]
    BY <1>3, <2>1
  <2>3. m_read_buf[b + j] = Text(r)[(b + j) + 1]
    <3>0. m_checked_idx = b /\ m_read_idx = b + n
      BY <1>1, <1>3
    <3>1. \A i \in b .. b + n - 1 : m_read_buf[i] = Text(r)[i + 1]
      BY <3>0 DEF Buffered
    <3> QED
      BY <2>1, <3>1
  <2>4. j + 1 \in 1 .. n /\ (b + j) + 1 = b + (j + 1)
    OBVIOUS
  <2>5. Text(r)[b + (j + 1)] = Char("byte", r.body[j + 1])
    BY <1>1, <2>4, GoodText
  <2>6. Char("byte", r.body[j + 1]).kind = "byte"
    BY DEF Char
  <2> QED
    BY <2>2, <2>3, <2>4, <2>5, <2>6, CharFacts
<1>6. b + n < READ_BUFFER_SIZE => buf[b + n] = NUL
  BY <1>3
<1>7. /\ r.body[amp] = 0 /\ \A i \in 1 .. amp - 1 : r.body[i] # 0
  BY DEF FirstAmpersand
<1>8. \A v : Char("byte", v) \in Ampersands <=> v = 0
  BY DEF Ampersands, Char
<1>9. /\ a \in b .. READ_BUFFER_SIZE - 1 /\ buf[a] \in Ampersands
      /\ \A i \in b .. a - 1 : buf[i] \notin Ampersands
  BY <1>1, <1>2 DEF Separates
<1>10. a = b + amp - 1
  <2>1. buf[b + amp - 1] \in Ampersands
    <3>1. amp - 1 \in 0 .. n - 1 /\ b + (amp - 1) = b + amp - 1 /\ (amp - 1) + 1 = amp
      BY <1>4
    <3>2. buf[b + (amp - 1)] = Char("byte", r.body[(amp - 1) + 1])
      BY <1>5, <3>1
    <3> QED
      BY <1>7, <1>8, <3>1, <3>2
  <2>2. ASSUME a < b + amp - 1 PROVE FALSE
    <3>1. a - b \in 0 .. n - 1 /\ b + (a - b) = a /\ (a - b) + 1 \in 1 .. amp - 1
      BY <1>4, <1>9, <2>2
    <3>2. buf[b + (a - b)] = Char("byte", r.body[(a - b) + 1])
      BY <1>5, <3>1
    <3> QED
      BY <1>7, <1>8, <1>9, <3>1, <3>2
  <2>3. ASSUME a > b + amp - 1 PROVE FALSE
    <3>1. b + amp - 1 \in b .. a - 1
      BY <1>4, <1>9, <2>3
    <3> QED
      BY <1>9, <2>1, <3>1
  <2> QED
    BY <1>4, <1>9, <2>2, <2>3
\* The name: up to the &.
<1>11. CString(buf, b, a) = Bytes(SubSeq(r.body, 1, amp - 1))
  <2>1. CString(buf, b, a) = [m \in 1 .. amp - 1 |-> buf[b + m - 1]]
    <3>1. amp - 1 \in Nat /\ a \in Nat /\ b + (amp - 1) = a
      BY <1>4, <1>9, <1>10
    <3>2. \A k \in 0 .. (amp - 1) - 1 : buf[b + k] # NUL
      <4>1. \A k \in 0 .. (amp - 1) - 1 : k \in 0 .. n - 1
        BY <1>4
      <4> QED
        BY <1>5, <4>1
    <3>3. IsString(buf, b, a, amp - 1)
      BY <3>1, <3>2 DEF IsString
    <3>4. CString(buf, b, a) = Slice(buf, b, amp - 1)
      BY <3>1, <3>3, StringIs
    <3> QED
      BY <3>4 DEF Slice
  <2>2. ASSUME NEW m \in 1 .. amp - 1 PROVE buf[b + m - 1] = Char("byte", r.body[m])
    <3>1. m - 1 \in 0 .. n - 1 /\ b + (m - 1) = b + m - 1 /\ (m - 1) + 1 = m
      BY <1>4
    <3>2. buf[b + (m - 1)] = Char("byte", r.body[(m - 1) + 1])
      BY <1>5, <3>1
    <3> QED
      BY <3>1, <3>2
  <2>3. PICK t : t = SubSeq(r.body, 1, amp - 1)
    OBVIOUS
  <2>4. DOMAIN t = 1 .. amp - 1 /\ \A m \in 1 .. amp - 1 : t[m] = r.body[m]
    BY <1>0, <1>1, <1>4, <2>3
  <2>5. Bytes(t) = [m \in 1 .. amp - 1 |-> Char("byte", r.body[m])]
    BY <2>4 DEF Bytes
  <2> QED
    BY <2>1, <2>2, <2>3, <2>5
\* The password: behind it.
<1>12. CString(buf, a + 1, READ_BUFFER_SIZE) = Bytes(SubSeq(r.body, amp + 1, n))
  <2>1. CString(buf, a + 1, READ_BUFFER_SIZE) = [m \in 1 .. n - amp |-> buf[(a + 1) + m - 1]]
    <3>1. n - amp \in Nat /\ a + 1 \in Nat /\ (a + 1) + (n - amp) = b + n
      BY <1>4, <1>9, <1>10
    <3>2. ASSUME NEW k \in 0 .. (n - amp) - 1 PROVE buf[(a + 1) + k] # NUL
      <4>1. amp + k \in 0 .. n - 1 /\ (a + 1) + k = b + (amp + k)
        BY <1>4, <1>9, <1>10
      <4> QED
        BY <1>5, <4>1
    <3>3. IsString(buf, a + 1, READ_BUFFER_SIZE, n - amp)
      BY <1>3, <1>6, <3>1, <3>2 DEF IsString
    <3>4. CString(buf, a + 1, READ_BUFFER_SIZE) = Slice(buf, a + 1, n - amp)
      BY <1>3, <3>1, <3>3, StringIs
    <3> QED
      BY <3>4 DEF Slice
  <2>2. ASSUME NEW m \in 1 .. n - amp PROVE buf[(a + 1) + m - 1] = Char("byte", r.body[amp + m])
    <3>1. /\ amp + m - 1 \in 0 .. n - 1 /\ b + (amp + m - 1) = (a + 1) + m - 1
          /\ (amp + m - 1) + 1 = amp + m
      BY <1>4, <1>9, <1>10
    <3>2. buf[b + (amp + m - 1)] = Char("byte", r.body[(amp + m - 1) + 1])
      BY <1>5, <3>1
    <3> QED
      BY <3>1, <3>2
  <2>3. PICK t : t = SubSeq(r.body, amp + 1, n)
    OBVIOUS
  <2>4. DOMAIN t = 1 .. n - amp /\ \A m \in 1 .. n - amp : t[m] = r.body[amp + m]
    <3>1. amp + 1 \in Int /\ n \in Int /\ \A i \in amp + 1 .. n : r.body[i] \in Nat
      BY <1>0, <1>4
    <3>2. /\ t \in Seq(Nat) /\ Len(t) = IF amp + 1 <= n THEN n - (amp + 1) + 1 ELSE 0
          /\ \A m \in 1 .. n - (amp + 1) + 1 : t[m] = r.body[(amp + 1) + m - 1]
      BY <2>3, <3>1, SubSeqProperties
    <3>3. Len(t) = n - amp /\ n - (amp + 1) + 1 = n - amp
      BY <1>4, <3>2
    <3>4. \A m \in 1 .. n - amp : (amp + 1) + m - 1 = amp + m
      BY <1>4
    <3> QED
      BY <3>2, <3>3, <3>4
  <2>5. Bytes(t) = [m \in 1 .. n - amp |-> Char("byte", r.body[amp + m])]
    BY <2>4 DEF Bytes
  <2> QED
    BY <2>1, <2>2, <2>3, <2>5
<1> QED
  BY <1>1, <1>2, <1>11, <1>12 DEF ExpectedCreds

LEMMA ContentKeepsParsing ==
  ASSUME IInv, NEW r, WellFormed(r), Parsing(r), request = r, Content
  PROVE  Parsing(r)'
<1>1. /\ at = "line" /\ m_check_state = "CONTENT" /\ BodyIsThere
      /\ DoRequest(EndsBody, m_start_line) /\ m_read_idx' = m_read_idx
      /\ UNCHANGED <<request, unread>>
  BY EndsBehindIs DEF Content, text, clientVars
<1>2. /\ ~Malformed(r) /\ Received(r) /\ Buffered(r) /\ InBody(r)
      /\ m_content_length = Len(r.body) \/ Absurd(r, m_content_length)
      /\ Scanned(r, Headers(r) + 1) /\ m_read_idx <= Size(r)
  BY <1>1, BodyAtHand
<1>3. /\ BodyAt(r) \in Nat /\ Len(r.body) \in Nat /\ Size(r) = BodyAt(r) + Len(r.body)
      /\ m_read_idx \in Nat /\ m_checked_idx \in Nat /\ m_start_line \in Nat /\ m_content_length \in Int
      /\ m_checked_idx <= m_read_idx /\ m_start_line \in 0 .. READ_BUFFER_SIZE
  BY WellFormedTypes DEF IInv, Positions, TypeOK
<1>4. BodyAt(r) <= m_start_line /\ m_start_line <= m_checked_idx
  BY <1>2 DEF InBody
<1>5. Absurd(r, m_content_length) => Len(r.body) = 0
  BY DEF Absurd
<1>6. m_start_line = BodyAt(r) /\ m_checked_idx = BodyAt(r) /\ m_read_idx = Size(r)
  BY <1>1, <1>2, <1>3, <1>4, <1>5 DEF BodyIsThere
<1>7. Received(r)'
  BY <1>1, <1>2, SameScan
<1>8. CASE at' = "respond"
  <2>1. EndsBody \in [0 .. READ_BUFFER_SIZE - 1 -> Chars]
    BY EndsBodyType
  <2>2. ASSUME NEW j \in 0 .. READ_BUFFER_SIZE - 1 PROVE EndsBody[j] = NUL \/ Sent(r, EndsBody[j])
    <3>1. EndsBody[j] = NUL \/ EndsBody[j] = m_read_buf[j]
      BY DEF EndsBody, IInv, Positions, TypeOK
    <3> QED
      BY <1>2, <3>1 DEF Buffered
  <2>3. /\ [code |-> result'.code, page |-> result'.page, linger |-> result'.linger] = Expected(r)
        /\ result'.page # "form" => result'.creds = <<>>
        /\ result'.page = "form" =>
             \E a \in DOMAIN EndsBody :
               /\ Separates(EndsBody, m_start_line, a)
               /\ result'.creds = <<CString(EndsBody, m_start_line, a), CString(EndsBody, a + 1, READ_BUFFER_SIZE)>>
        /\ \A f \in DOMAIN result'.creds : \A i \in DOMAIN result'.creds[f] : Sent(r, result'.creds[f][i])
    BY <1>1, <1>2, <1>3, <1>8, <2>1, <2>2, DoRequestAnswers
  <2>4. ASSUME result'.page = "form", NEW amp \in DOMAIN r.body, FirstAmpersand(r.body, amp)
        PROVE  result'.creds = ExpectedCreds(r.body, amp)
    <3>1. PICK a : /\ Separates(EndsBody, m_start_line, a)
                   /\ result'.creds = <<CString(EndsBody, m_start_line, a), CString(EndsBody, a + 1, READ_BUFFER_SIZE)>>
      BY <2>3, <2>4
    <3>2. Len(r.body) # 0
      <4>1. r.body \in Seq(Nat)
        BY DEF WellFormed
      <4> QED
        BY <2>4, <4>1
    <3>3. nul = Size(r)
      BY <1>2, <1>3, <1>5, <1>6, <3>2 DEF nul, text
    <3> QED
      BY <1>2, <1>6, <2>4, <3>1, <3>3, CredsAreBody
  <2>5. Answered(r)'
    BY <1>1, <1>2, <1>6, <2>3, <2>4 DEF Answered
  <2> QED
    BY <1>7, <1>8, <2>5 DEF Parsing
<1>9. CASE at' = "astray"
  BY <1>7, <1>9 DEF Parsing
<1> QED
  BY <1>1, <1>8, <1>9, DoRequestEnds

LEMMA ContentAstrayKeepsParsing ==
  ASSUME IInv, NEW r, WellFormed(r), Parsing(r), request = r, ContentAstray
  PROVE  Parsing(r)'
<1>1. at' = "astray" /\ UNCHANGED <<unread, m_read_idx>>
  BY DEF ContentAstray, Astray, clientVars
<1>2. Received(r)'
  BY <1>1, SameScan DEF Parsing
<1> QED
  BY <1>1, <1>2 DEF Parsing

-----------------------------------------------------------------------------
(* The invariant, and what follows from it.                                *)

LEMMA PInvInit == Init => PInv
<1> SUFFICES ASSUME Init PROVE PInv
  OBVIOUS
<1> QED
  BY DEF Init, PInv

\* A slot without a request has nothing to receive, and is waiting or closed.
LEMMA NoRequestNow ==
  ASSUME PInv, request = NoRequest
  PROVE  unread = <<>> /\ at \in {"closed", "recv"} /\ (at = "recv" => Fresh)
  BY DEF PInv

\* A slot that has one is parsing it.
LEMMA RequestNow ==
  ASSUME ClientsAreTruthful, PInv, request # NoRequest
  PROVE  \E r \in Requests : request = r /\ WellFormed(r) /\ Parsing(r)
  BY RequestIsNot DEF PInv

\* A step of the slot that has a request goes on parsing it.
LEMMA GoesOn ==
  ASSUME ClientsAreTruthful, NEW r \in Requests, request' = r, Parsing(r)'
  PROVE  PInv'
  BY RequestIsNot DEF PInv

\* The response that keeps the connection comes behind all of the request.
LEMMA RespondsToAll ==
  ASSUME ClientsAreTruthful, IInv, PInv, at = "respond"
  PROVE  /\ request # NoRequest /\ Answered(request)
         /\ result.linger => m_read_idx = Len(Text(request)) /\ unread = <<>>
<1>1. request # NoRequest
  BY NoRequestNow
<1>2. PICK r \in Requests : request = r /\ WellFormed(r) /\ Parsing(r)
  BY <1>1, RequestNow
<1>3. /\ Answered(r) /\ ~Malformed(r) /\ Received(r)
      /\ result.linger => m_read_idx = Size(r)
  BY <1>2 DEF Parsing, Answered
<1>4. ASSUME result.linger PROVE m_read_idx = Len(Text(r)) /\ unread = <<>>
  <2>1. unread \in Seq(Chars) /\ m_read_idx \in Nat
    BY DEF IInv, Positions, TypeOK
  <2>2. m_read_idx = Len(Text(r)) /\ m_read_idx + Len(unread) = Len(Text(r))
    BY <1>2, <1>3, <1>4, GoodText DEF Received
  <2>3. Len(unread) \in Nat
    BY <2>1
  <2>4. Len(unread) = 0
    BY <2>1, <2>2, <2>3
  <2> QED
    BY <2>1, <2>2, <2>4
<1> QED
  BY <1>1, <1>2, <1>3, <1>4

\* The steps of process_read.
LEMMA ProcessReadKeepsPInv ==
  ASSUME ClientsAreTruthful, IInv, PInv, ProcessRead
  PROVE  PInv'
<1>1. at \in {"parse", "line"} /\ request' = request
  BY DEF ProcessRead, NextLine, NoLine, NoLineInBody, RequestLine, Header, EmptyLine, Content, ContentAstray,
         ContentOpen, clientVars
<1>2. request # NoRequest
  BY <1>1, NoRequestNow
<1>3. PICK r \in Requests : request = r /\ WellFormed(r) /\ Parsing(r)
  BY <1>2, RequestNow
<1>4. Parsing(r)'
  <2>1. CASE NextLine
    BY <1>3, <2>1, NextLineKeepsParsing
  <2>2. CASE NoLine
    BY <1>3, <2>2, NoLineKeepsParsing
  <2>3. CASE NoLineInBody
    BY <1>3, <2>3, NoLineInBodyKeepsParsing
  <2>4. CASE RequestLine
    BY <1>3, <2>4, RequestLineKeepsParsing
  <2>5. CASE Header
    BY <1>3, <2>5, HeaderKeepsParsing
  <2>6. CASE EmptyLine
    BY <1>3, <2>6, EmptyLineKeepsParsing
  <2>7. CASE Content
    BY <1>3, <2>7, ContentKeepsParsing
  <2>8. CASE ContentOpen
    BY <1>3, <2>8, ContentOpenKeepsParsing
  <2>9. CASE ContentAstray
    BY <1>3, <2>9, ContentAstrayKeepsParsing
  <2> QED
    BY <2>1, <2>2, <2>3, <2>4, <2>5, <2>6, <2>7, <2>8, <2>9 DEF ProcessRead
<1> QED
  BY <1>1, <1>3, <1>4, GoesOn

LEMMA PInvStep ==
  ASSUME ClientsAreTruthful, IInv, PInv, [Next]_vars
  PROVE  PInv'
<1>1. CASE UNCHANGED vars
  BY <1>1 DEF vars, clientVars, indices, fields, PInv, Parsing, Received, Buffered, Stuck, InBody, InLine, Scanned, Fresh, Answered
<1>2. CASE Accept
  <2>1. Fresh' /\ at' = "recv" /\ request' = request /\ unread' = unread /\ at = "closed"
    BY <1>2, FreshAfterReset DEF Accept, clientVars
  <2>2. request = NoRequest
    BY <2>1, RequestNow DEF Parsing
  <2>3. unread = <<>>
    BY <2>2, NoRequestNow
  <2> QED
    BY <2>1, <2>2, <2>3 DEF PInv
<1>3. CASE Drop
  BY <1>3 DEF Drop, PInv
<1>4. ASSUME NEW r \in Requests, Send(r) PROVE PInv'
  <2>1. Parsing(r)' /\ request' = r
    BY <1>4, SendStep DEF Send
  <2> QED
    BY <2>1, GoesOn
<1>5. ASSUME NEW n \in 1 .. READ_BUFFER_SIZE, Recv(n) PROVE PInv'
  <2>1. request # NoRequest /\ request' = request
    <3>1. Len(unread) # 0
      BY <1>5 DEF Recv
    <3>2. unread # <<>>
      BY <3>1
    <3> QED
      BY <1>5, <3>2, NoRequestNow DEF Recv
  <2>2. PICK r \in Requests : request = r /\ WellFormed(r) /\ Parsing(r)
    BY <2>1, RequestNow
  <2>3. Parsing(r)'
    BY <1>5, <2>2, RecvKeepsParsing
  <2> QED
    BY <2>1, <2>2, <2>3, GoesOn
<1>6. CASE ProcessRead
  BY <1>6, ProcessReadKeepsPInv
<1>7. CASE KeepAlive
  <2>1. Fresh' /\ at' = "recv" /\ request' = NoRequest /\ unread' = unread
    BY <1>7, FreshAfterReset DEF KeepAlive
  <2>2. unread = <<>>
    BY <1>7, RespondsToAll DEF KeepAlive
  <2> QED
    BY <2>1, <2>2 DEF PInv
<1>8. CASE Close
  BY <1>8 DEF Close, PInv
<1> QED
  BY <1>1, <1>2, <1>3, <1>4, <1>5, <1>6, <1>7, <1>8 DEF Next

(* If clients are truthful, the answer to a request depends on the request *)
(* alone, however recv split it, body included, and whatever earlier       *)
(* requests have left in the slot; a malformed line gets none.  Where a    *)
(* form without a & in its body takes its name and password from is left   *)
(* to CredentialsAreOwn (http_conn.cpp:228-278, 149-169, 467-476).         *)
THEOREM AnswersAreRight ==
  ASSUME ClientsAreTruthful
  PROVE  Spec => []AnswerIsRight
<1>1. IInv /\ PInv => AnswerIsRight
  BY RespondsToAll DEF AnswerIsRight, Answered
<1>2. IInv /\ PInv /\ [Next]_vars => PInv'
  BY PInvStep
<1> QED
  BY <1>1, <1>2, IInvInit, IInvStep, PInvInit, PTL DEF Spec

(* If clients are truthful, every character of a name and a password was   *)
(* sent with the request they are taken from, also when m_string still     *)
(* points to where an earlier body was (http_conn.cpp:149-169, 467-476).   *)
THEOREM CredentialsAreOwn ==
  ASSUME ClientsAreTruthful
  PROVE  Spec => []CredsAreOwn
<1>1. IInv /\ PInv => CredsAreOwn
  BY RespondsToAll DEF CredsAreOwn, Answered, Sent
<1>2. IInv /\ PInv /\ [Next]_vars => PInv'
  BY PInvStep
<1> QED
  BY <1>1, <1>2, IInvInit, IInvStep, PInvInit, PTL DEF Spec

(* If clients are truthful, a kept-alive slot that is initialised for the  *)
(* next request has received all of the request that it answered, and      *)
(* nothing more (http_conn.cpp:795-798).                                   *)
THEOREM NothingIsLeftOver ==
  ASSUME ClientsAreTruthful
  PROVE  Spec => NothingLeftOver
<1>1. IInv /\ PInv /\ [Next]_vars =>
        [at = "respond" /\ at' = "recv" => m_read_idx = Len(Text(request)) /\ unread = <<>>]_vars
  <2> SUFFICES ASSUME IInv, PInv, Next, at = "respond", at' = "recv"
               PROVE  m_read_idx = Len(Text(request)) /\ unread = <<>>
    OBVIOUS
  <2>1. KeepAlive
    BY DEF Next, Accept, Drop, Close, Send, Recv, ProcessRead, NextLine, NoLine, NoLineInBody,
           RequestLine, BadRequest, Header, EmptyLine, Content, ContentAstray, Astray, ContentOpen,
           DoRequest, FileRequest
  <2> QED
    BY <2>1, RespondsToAll DEF KeepAlive
<1>2. IInv /\ PInv /\ [Next]_vars => PInv'
  BY PInvStep
<1> QED
  BY <1>1, <1>2, IInvInit, IInvStep, PInvInit, PTL DEF Spec, NothingLeftOver

(* If recv never returns a part of a body and clients are truthful, a      *)
(* request that has been received completely is answered, unless the       *)
(* worker goes astray: it does not ask for input that the client has no    *)
(* reason to send (http_conn.cpp:427).  HttpBodyInPieces shows that the    *)
(* assumption on recv is needed.                                           *)
THEOREM CompleteRequestsAreAnswered ==
  ASSUME BodyInOnePiece, ClientsAreTruthful
  PROVE  Spec => []CompleteIsAnswered
<1>1. IInv /\ PInv => CompleteIsAnswered
  <2> SUFFICES ASSUME IInv, PInv, at = "recv", request # NoRequest, unread = <<>>, ~Malformed(request)
               PROVE  FALSE
    BY DEF CompleteIsAnswered
  <2>1. PICK r \in Requests : request = r /\ WellFormed(r) /\ Parsing(r)
    BY RequestNow
  <2>2. ~Malformed(r) /\ Received(r) /\ (InBody(r) \/ \E k \in 0 .. Headers(r) + 1 : InLine(r, k))
    BY <2>1 DEF Parsing
  <2>3. m_read_idx = Size(r)
    <3>1. Len(unread) = 0 /\ m_read_idx \in Nat
      BY DEF IInv, Positions, TypeOK
    <3>2. m_read_idx + Len(unread) = Size(r)
      BY <2>1, <2>2, GoodText DEF Received
    <3> QED
      BY <3>1, <3>2
  <2>4. BodyAt(r) \in Nat /\ Len(r.body) \in Nat /\ Size(r) = BodyAt(r) + Len(r.body)
    BY <2>1, WellFormedTypes
  <2>5. CASE InBody(r)
    <3>1. m_read_idx = BodyAt(r) /\ Len(r.body) > 0
      BY <2>5 DEF InBody
    <3> QED
      BY <2>3, <2>4, <3>1
  <2>6. ASSUME NEW k \in 0 .. Headers(r) + 1, InLine(r, k) PROVE FALSE
    <3>1. m_read_idx <= EndOf(r, k) + 1
      BY <2>6 DEF InLine
    <3>2. EndOf(r, k) \in Nat /\ EndOf(r, k) + 2 <= BodyAt(r)
      BY <2>1, <2>2, LineIs
    <3> QED
      BY <2>3, <2>4, <3>1, <3>2
  <2> QED
    BY <2>2, <2>5, <2>6
<1>2. IInv /\ PInv /\ [Next]_vars => PInv'
  BY PInvStep
<1> QED
  BY <1>1, <1>2, IInvInit, IInvStep, PInvInit, PTL DEF Spec
=============================================================================

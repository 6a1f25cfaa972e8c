----------------------------- MODULE HttpParse -----------------------------
(***************************************************************************)
(* The request parser of http/http_conn.cpp: read_once puts what recv      *)
(* returns into the slot's m_read_buf, and a worker's process_read runs    *)
(* two state machines over it, parse_line over the characters and          *)
(* m_check_state over the lines, until do_request chooses a page or the    *)
(* worker asks for more input.  The slot serves one client after another.  *)
(*                                                                         *)
(* The text of a line is one character of the model, its kind with its     *)
(* argument; CR, LF and each byte of a body are characters of their own,   *)
(* so that the network may split a request anywhere.  Fields that nothing  *)
(* reads again (m_method, m_version, m_host) are left out.                 *)
(***************************************************************************)
EXTENDS Integers, Sequences

CONSTANTS
  READ_BUFFER_SIZE,   \* the characters of m_read_buf
  Byte,               \* the values of a character, 256
  NAME_SIZE,          \* the characters of name and password in do_request
  INT_MAX,            \* the largest int
  Requests,           \* the requests clients may send, see Text
  BodyInOnePiece      \* does recv never return a part of a body?

Char(kind, arg) == [kind |-> kind, arg |-> arg]
CR  == Char("CR", 0)
LF  == Char("LF", 0)
NUL == Char("NUL", 0)

\* Request lines with the page they ask for, header lines, and the bytes of a
\* body.  A Content-Length may be negative: it goes through atol.
Chars == [kind : {"GET", "POST", "junk", "keep-alive", "length", "other", "byte", "CR", "LF", "NUL"},
          arg : Int]

\* GET http://host, without a / behind the host.
NoPath == 10

\* Characters with a & in them: that of a body stands for &password=, and some
\* header lines, such as a cookie, have one.
Ampersands == {Char("byte", 0), Char("other", 0)}

Bytes(s) == [i \in DOMAIN s |-> Char("byte", s[i])]

\* What a client sends: request line, headers, empty line, body.  eol ends the
\* request line; it is <<CR, LF>> unless the request is malformed.
Text(r) ==
  LET headers == [i \in 1 .. 3 * Len(r.headers) |->
                    CASE i % 3 = 1 -> r.headers[(i + 2) \div 3] [] i % 3 = 2 -> CR [] OTHER -> LF]
  IN  <<r.line>> \o r.eol \o headers \o <<CR, LF>> \o Bytes(r.body)

ASSUME ParseAssumption ==
  /\ READ_BUFFER_SIZE \in Nat \ {0}
  /\ Byte \in Nat \ {0} /\ READ_BUFFER_SIZE % Byte = 0
  /\ NAME_SIZE \in Nat \ {0} /\ INT_MAX \in Nat
  /\ \A r \in Requests : Text(r) \in Seq(Chars)
  /\ BodyInOnePiece \in BOOLEAN

\* A Content-Length no body can have, and none follows.
Absurd(r, n) == r.body = <<>> /\ (n < 0 \/ n > INT_MAX - Len(Text(r)))

\* A client that tells the truth about its body: the last Content-Length is that
\* of the body, unless it is absurd.
WellFormed(r) ==
  /\ r.line \in [kind : {"GET", "POST", "junk"}, arg : 0 .. NoPath]
  /\ r.eol \in {<<CR, LF>>, <<CR>>, <<LF>>}
  /\ r.headers \in Seq([kind : {"keep-alive", "length", "other"}, arg : Int])
  /\ r.body \in Seq(Nat)
  /\ \A i \in DOMAIN r.headers :
       r.headers[i].kind = "length" =>
         \/ r.headers[i].arg = Len(r.body) \/ Absurd(r, r.headers[i].arg)
         \/ \E j \in DOMAIN r.headers : j > i /\ r.headers[j].kind = "length"
  /\ r.body # <<>> => \E i \in DOMAIN r.headers : r.headers[i].kind = "length"

ClientsAreTruthful == \A r \in Requests : WellFormed(r)

VARIABLES
  (* The client of the slot. *)
  request,           \* the request it has sent and has no answer to, or NoRequest
  unread,            \* what recv has not returned yet
  (* The slot. *)
  m_read_buf, m_read_idx, m_checked_idx, m_start_line,
  m_check_state,     \* "REQUESTLINE", "HEADER", "CONTENT"
  m_url, cgi, m_linger, m_content_length,
  m_string,          \* where the body starts, NoString before the first body
  (* Main thread and worker: who has the slot, the locals of process_read. *)
  at,                \* "closed", "recv", "parse", "line", "respond", or "astray":
                     \* undefined behaviour, the model does not follow the process
  line_status,
  result             \* what process_write is told, and linger for write

indices   == <<m_read_buf, m_read_idx, m_checked_idx, m_start_line>>
fields    == <<m_check_state, m_url, cgi, m_linger, m_content_length, m_string>>
clientVars == <<request, unread>>
vars == <<clientVars, indices, fields, at, line_status, result>>

NoRequest == [line |-> NUL]
NoString  == -1
NoUrl     == -1
NoResult  == [code |-> "NO_REQUEST", page |-> "", creds |-> <<>>, linger |-> FALSE]

Blank == [i \in 0 .. READ_BUFFER_SIZE - 1 |-> NUL]

Reset_KeepLength ==             \* m_content_length is not reset
  /\ m_read_buf' = Blank /\ m_read_idx' = 0 /\ m_checked_idx' = 0 /\ m_start_line' = 0
  /\ m_check_state' = "REQUESTLINE"
  /\ m_url' = NoUrl /\ cgi' = 0 /\ m_linger' = FALSE
  /\ UNCHANGED <<m_content_length, m_string>>

Reset_KeepLinger ==             \* m_linger is not reset
  /\ m_read_buf' = Blank /\ m_read_idx' = 0 /\ m_checked_idx' = 0 /\ m_start_line' = 0
  /\ m_check_state' = "REQUESTLINE"
  /\ m_url' = NoUrl /\ cgi' = 0 /\ m_content_length' = 0
  /\ UNCHANGED <<m_linger, m_string>>

Reset_KeepBuffer ==             \* m_read_buf is not cleared
  /\ m_read_idx' = 0 /\ m_checked_idx' = 0 /\ m_start_line' = 0
  /\ m_check_state' = "REQUESTLINE"
  /\ m_url' = NoUrl /\ cgi' = 0 /\ m_linger' = FALSE /\ m_content_length' = 0
  /\ UNCHANGED <<m_read_buf, m_string>>

\* init(): everything but m_string.
Reset ==
  /\ m_read_buf' = Blank /\ m_read_idx' = 0 /\ m_checked_idx' = 0 /\ m_start_line' = 0
  /\ m_check_state' = "REQUESTLINE"
  /\ m_url' = NoUrl /\ cgi' = 0 /\ m_linger' = FALSE /\ m_content_length' = 0
  /\ UNCHANGED m_string

Init ==
  /\ request = NoRequest /\ unread = <<>>
  /\ m_read_buf = Blank /\ m_read_idx = 0 /\ m_checked_idx = 0 /\ m_start_line = 0
  /\ m_check_state = "REQUESTLINE"
  /\ m_url = NoUrl /\ cgi = 0 /\ m_linger = FALSE /\ m_content_length = 0
  /\ m_string = NoString
  /\ at = "closed" /\ line_status = "OK" /\ result = NoResult
-----------------------------------------------------------------------------
(* The client, and the main thread.                                        *)

\* accept and init.
Accept ==
  /\ at = "closed"
  /\ Reset
  /\ at' = "recv"
  /\ UNCHANGED <<clientVars, line_status, result>>

\* A client waits for the answer before it sends its next request.
Send(r) ==
  /\ at = "recv" /\ request = NoRequest
  /\ request' = r
  /\ unread' = unread \o Text(r)
  /\ UNCHANGED <<indices, fields, at, line_status, result>>

\* Does what is left after n more characters begin inside the body?
SplitsBody(n) == Len(unread) - n \in 1 .. Len(request.body) - 1

\* EPOLLIN: recv returns n characters, and process starts.
Recv(n) ==
  /\ at = "recv"
  /\ m_read_idx < READ_BUFFER_SIZE
  /\ n \in 1 .. Len(unread) /\ n <= READ_BUFFER_SIZE - m_read_idx
  /\ BodyInOnePiece => ~SplitsBody(n)
  /\ m_read_buf' = [i \in 0 .. READ_BUFFER_SIZE - 1 |->
                      IF i \in m_read_idx .. m_read_idx + n - 1 THEN unread[i - m_read_idx + 1]
                                                                ELSE m_read_buf[i]]
  /\ m_read_idx' = m_read_idx + n
  /\ unread' = SubSeq(unread, n + 1, Len(unread))
  /\ at' = "parse" /\ line_status' = "OK"
  /\ UNCHANGED <<request, m_checked_idx, m_start_line, fields, result>>

\* The main thread closes the connection: its timer expires, the client hangs
\* up, or read_once returns false because the buffer is full.
Drop ==
  /\ at = "recv"
  /\ at' = "closed"
  /\ request' = NoRequest /\ unread' = <<>>
  /\ UNCHANGED <<indices, fields, line_status, result>>
-----------------------------------------------------------------------------
(* The loop of process_read: the condition of the while.                   *)

\* parse_line looks no further than i: the first CR or LF, or the end.
StopsAt(i) ==
  /\ i \in m_checked_idx .. m_read_idx
  /\ \A j \in m_checked_idx .. i - 1 : m_read_buf[j] \notin {CR, LF}
  /\ i < m_read_idx => m_read_buf[i] \in {CR, LF}

\* A CR at i is followed by LF, or the LF at i comes after CR.
CompleteLine(i) ==
  /\ i < m_read_idx
  /\ IF m_read_buf[i] = CR THEN i + 1 < m_read_idx /\ m_read_buf[i + 1] = LF
                           ELSE i > 1 /\ m_read_buf[i - 1] = CR

\* parse_line returns LINE_OK: CR and LF become NUL, the next line is after them.
NextLine ==
  \E i \in m_checked_idx .. m_read_idx :
    LET cr == IF m_read_buf[i] = CR THEN i ELSE i - 1
    IN  /\ at = "parse" /\ ~(m_check_state = "CONTENT" /\ line_status = "OK")
        /\ StopsAt(i) /\ CompleteLine(i)
        /\ m_read_buf' = [m_read_buf EXCEPT ![cr] = NUL, ![cr + 1] = NUL]
        /\ m_checked_idx' = cr + 2
        /\ line_status' = "OK" /\ at' = "line"
        /\ UNCHANGED <<clientVars, m_read_idx, m_start_line, fields, result>>

\* parse_line returns LINE_OPEN or LINE_BAD and process_read NO_REQUEST: the
\* descriptor is armed for more input either way.
NoLine ==
  \E i \in m_checked_idx .. m_read_idx :
    /\ at = "parse" /\ ~(m_check_state = "CONTENT" /\ line_status = "OK")
    /\ StopsAt(i) /\ ~CompleteLine(i)
    /\ m_checked_idx' = i
    /\ line_status' = "OPEN" /\ at' = "recv"
    /\ UNCHANGED <<clientVars, m_read_buf, m_read_idx, m_start_line, fields, result>>

\* The body is not divided into lines: parse_line is not called.
NoLineInBody ==
  /\ at = "parse" /\ m_check_state = "CONTENT" /\ line_status = "OK"
  /\ at' = "line"
  /\ UNCHANGED <<clientVars, indices, fields, line_status, result>>
-----------------------------------------------------------------------------
(* The body of the while: one line, at text.                               *)

text == m_start_line
TextChar == m_read_buf[text]

\* do_request: the page for the character after the last / of the url.  2 and
\* 3 are the login and registration forms, whose outcome is Registration's.
Pages == <<"/log.html", "/2", "/3", "/4", "/picture.html", "/video.html", "/fans.html", "/", "/judge.html">>
Page(url, is_cgi) ==
  CASE url = 0 -> "/register.html"
    [] is_cgi = 1 /\ url \in {2, 3} -> "form"
    [] OTHER -> Pages[url]

\* The string at i, which is cut at end if no NUL ends it before.
CString(buf, i, end) ==
  LET length == {n \in 1 .. end - i : \A k \in 0 .. n - 1 : buf[i + k] # NUL}
  IN  [n \in length |-> buf[i + n - 1]]

\* The user name is what m_string points to up to the & at amp, the password
\* what follows it up to a NUL: that of the buffer, or of m_read_idx, which is
\* behind the buffer and ends in a 0 when it is full.  Both go into arrays.  (The
\* user= in front of the name and the password= behind the & are not characters
\* of their own, and no body is shorter than they are.)
Separates(buf, string, amp) ==
  /\ string # NoString
  /\ amp \in string .. READ_BUFFER_SIZE - 1 /\ amp - string < NAME_SIZE
  /\ buf[amp] \in Ampersands
  /\ \A i \in string .. amp - 1 : buf[i] \notin Ampersands
  /\ \E end \in amp + 1 .. amp + NAME_SIZE :
       end = READ_BUFFER_SIZE \/ (end < READ_BUFFER_SIZE /\ buf[end] = NUL)

FileRequest(creds) ==
  /\ result' = [code |-> "FILE_REQUEST", page |-> Page(m_url, cgi), creds |-> creds, linger |-> m_linger]
  /\ at' = "respond"

Astray == at' = "astray" /\ UNCHANGED result

\* Neither scan looks for an end: m_string may be null or no longer point to a
\* body, there may be no &, the name and the password may not fit.  Whether the
\* page is there is left to HttpWrite (RespondFile, RespondError, NoResponse).
DoRequest(buf, string) ==
  LET form == Page(m_url, cgi) = "form"
  IN  \/ ~form /\ FileRequest(<<>>)
      \/ \E amp \in DOMAIN buf :
           /\ form /\ Separates(buf, string, amp)
           /\ FileRequest(<<CString(buf, string, amp), CString(buf, amp + 1, READ_BUFFER_SIZE)>>)
      \/ form /\ Astray /\ \A amp \in DOMAIN buf : ~Separates(buf, string, amp)

BadRequest ==
  /\ result' = [code |-> "BAD_REQUEST", page |-> "", creds |-> <<>>, linger |-> m_linger]
  /\ at' = "respond"

\* CHECK_STATE_REQUESTLINE: parse_request_line.  / alone stands for /judge.html;
\* http://host without a / leaves a null m_url, which is read.
RequestLine ==
  LET method == TextChar.kind \in {"GET", "POST"}
      path   == TextChar.arg # NoPath
  IN  /\ at = "line" /\ m_check_state = "REQUESTLINE"
      /\ m_start_line' = m_checked_idx
      /\ \/ /\ method /\ path
            /\ m_url' = IF TextChar.arg = 8 THEN 9 ELSE TextChar.arg
            /\ cgi' = IF TextChar.kind = "POST" THEN 1 ELSE cgi
            /\ m_check_state' = "HEADER"
            /\ at' = "parse" /\ UNCHANGED result
         \/ method /\ ~path /\ Astray /\ UNCHANGED <<m_url, cgi, m_check_state>>
         \/ ~method /\ BadRequest /\ UNCHANGED <<m_url, cgi, m_check_state>>
      /\ UNCHANGED <<clientVars, m_read_buf, m_read_idx, m_checked_idx,
                     m_linger, m_content_length, m_string, line_status>>

\* CHECK_STATE_HEADER: parse_headers on a line that is not empty.
Header ==
  /\ at = "line" /\ m_check_state = "HEADER" /\ TextChar # NUL
  /\ m_start_line' = m_checked_idx
  /\ m_linger' = (m_linger \/ TextChar.kind = "keep-alive")
  /\ m_content_length' = IF TextChar.kind = "length" THEN TextChar.arg ELSE m_content_length
  /\ at' = "parse"
  /\ UNCHANGED <<clientVars, m_read_buf, m_read_idx, m_checked_idx,
                 m_check_state, m_url, cgi, m_string, line_status, result>>

EmptyLine_NoBody ==             \* the body is not waited for
  /\ at = "line" /\ m_check_state = "HEADER" /\ TextChar = NUL
  /\ m_start_line' = m_checked_idx
  /\ DoRequest(m_read_buf, m_string)
  /\ UNCHANGED <<clientVars, m_read_buf, m_read_idx, m_checked_idx, fields, line_status>>

\* The empty line after the headers: a body follows, or the request is complete.
EmptyLine ==
  /\ at = "line" /\ m_check_state = "HEADER" /\ TextChar = NUL
  /\ m_start_line' = m_checked_idx
  /\ IF m_content_length # 0
       THEN m_check_state' = "CONTENT" /\ at' = "parse" /\ UNCHANGED result
       ELSE DoRequest(m_read_buf, m_string) /\ UNCHANGED m_check_state
  /\ UNCHANGED <<clientVars, m_read_buf, m_read_idx, m_checked_idx,
                 m_url, cgi, m_linger, m_content_length, m_string, line_status>>

\* CHECK_STATE_CONTENT: parse_content waits for the length that was declared.
Overflows == m_content_length > INT_MAX - m_checked_idx
BodyIsThere == m_read_idx >= m_content_length + m_checked_idx

\* It ends the body with a NUL.  That of a body which fills the buffer goes one
\* behind, to the low byte of m_read_idx, the next member of the object
\* (http_conn.h:84-86; the machine is little-endian).
nul == text + m_content_length
EndsBody == [i \in DOMAIN m_read_buf |-> IF i = nul THEN NUL ELSE m_read_buf[i]]
EndsBehind == IF nul = READ_BUFFER_SIZE THEN m_read_idx - (m_read_idx % Byte) ELSE m_read_idx

Content_Early ==                \* the headers are counted as if they were body
  /\ at = "line" /\ m_check_state = "CONTENT"
  /\ ~Overflows /\ m_read_idx >= m_content_length /\ nul > 0
  /\ m_start_line' = m_checked_idx
  /\ m_read_buf' = EndsBody
  /\ m_read_idx' = EndsBehind
  /\ m_string' = text
  /\ DoRequest(EndsBody, text)
  /\ UNCHANGED <<clientVars, m_checked_idx, m_check_state, m_url, cgi,
                 m_linger, m_content_length, line_status>>

\* The whole body is there.
Content ==
  /\ at = "line" /\ m_check_state = "CONTENT"
  /\ ~Overflows /\ BodyIsThere /\ nul > 0
  /\ m_start_line' = m_checked_idx
  /\ m_read_buf' = EndsBody
  /\ m_read_idx' = EndsBehind
  /\ m_string' = text
  /\ DoRequest(EndsBody, text)
  /\ UNCHANGED <<clientVars, m_checked_idx, m_check_state, m_url, cgi,
                 m_linger, m_content_length, line_status>>

\* The length overflows an int, or is negative and the NUL goes in front of the
\* buffer, or into the request line, where it may cut the name of the page short.
ContentAstray ==
  /\ at = "line" /\ m_check_state = "CONTENT"
  /\ ~Overflows => BodyIsThere /\ nul <= 0
  /\ m_start_line' = m_checked_idx
  /\ Astray
  /\ UNCHANGED <<clientVars, m_read_buf, m_read_idx, m_checked_idx, fields, line_status>>

ContentOpen_Loop ==             \* line_status stays LINE_OK
  /\ at = "line" /\ m_check_state = "CONTENT"
  /\ ~Overflows /\ ~BodyIsThere
  /\ m_start_line' = m_checked_idx
  /\ at' = "parse"
  /\ UNCHANGED <<clientVars, m_read_buf, m_read_idx, m_checked_idx, fields, line_status, result>>

\* It is not: line_status = LINE_OPEN, and the while calls parse_line.
ContentOpen ==
  /\ at = "line" /\ m_check_state = "CONTENT"
  /\ ~Overflows /\ ~BodyIsThere
  /\ m_start_line' = m_checked_idx
  /\ line_status' = "OPEN" /\ at' = "parse"
  /\ UNCHANGED <<clientVars, m_read_buf, m_read_idx, m_checked_idx, fields, result>>

ProcessRead ==
  \/ NextLine \/ NoLine \/ NoLineInBody
  \/ RequestLine \/ Header \/ EmptyLine \/ Content \/ ContentAstray \/ ContentOpen
-----------------------------------------------------------------------------
(* process_write and write, seen from the parser.                          *)

\* The response is sent; the client asked for keep-alive.
KeepAlive ==
  /\ at = "respond" /\ result.linger
  /\ Reset
  /\ request' = NoRequest
  /\ at' = "recv" /\ result' = NoResult
  /\ UNCHANGED <<unread, line_status>>

\* The connection is closed behind the response, or for want of one.
Close ==
  /\ at = "respond"
  /\ request' = NoRequest /\ unread' = <<>>
  /\ at' = "closed" /\ result' = NoResult
  /\ UNCHANGED <<indices, fields, line_status>>
-----------------------------------------------------------------------------
Next ==
  \/ Accept \/ Drop \/ ProcessRead \/ KeepAlive \/ Close
  \/ \E r \in Requests : Send(r)
  \/ \E n \in 1 .. READ_BUFFER_SIZE : Recv(n)

Spec == Init /\ [][Next]_vars

\* A worker that has begun process_read goes on with it.
FairSpec == Spec /\ WF_vars(ProcessRead)
-----------------------------------------------------------------------------
TypeOK ==
  /\ request \in Requests \cup {NoRequest}
  /\ unread \in Seq(Chars)
  /\ m_read_buf \in [0 .. READ_BUFFER_SIZE - 1 -> Chars]
  /\ m_read_idx \in 0 .. READ_BUFFER_SIZE
  /\ m_checked_idx \in 0 .. READ_BUFFER_SIZE
  /\ m_start_line \in 0 .. READ_BUFFER_SIZE
  /\ m_check_state \in {"REQUESTLINE", "HEADER", "CONTENT"}
  /\ m_url \in Int /\ cgi \in {0, 1}
  /\ m_linger \in BOOLEAN /\ m_content_length \in Int
  /\ m_string \in 0 .. READ_BUFFER_SIZE \cup {NoString}
  /\ at \in {"closed", "recv", "parse", "line", "respond", "astray"}
  /\ line_status \in {"OK", "OPEN"}

(* Whatever clients send and however it is split, the parser's positions   *)
(* stay in order and in the buffer, and the body that is handed to         *)
(* do_request lies in what was received: nothing of an earlier request,    *)
(* which the same slot held, is between them.  The NUL that goes behind a  *)
(* full buffer changes none of this only because READ_BUFFER_SIZE is a     *)
(* multiple of Byte (http_conn.cpp:284-311, 430-434, http_conn.h:84-86).   *)
Positions ==
  /\ TypeOK
  /\ m_start_line <= m_checked_idx
  /\ m_checked_idx <= m_read_idx /\ m_read_idx <= READ_BUFFER_SIZE
  /\ at = "respond" /\ m_check_state = "CONTENT" =>
       m_string + m_content_length <= m_read_idx

\* What a request asks for, read off the request itself.
Expected(r) ==
  LET url == IF r.line.arg = 8 THEN 9 ELSE r.line.arg
  IN  IF r.line.kind \notin {"GET", "POST"}
      THEN [code |-> "BAD_REQUEST", page |-> "", linger |-> FALSE]
      ELSE [code   |-> "FILE_REQUEST",
            page   |-> Page(url, IF r.line.kind = "POST" THEN 1 ELSE 0),
            linger |-> \E i \in DOMAIN r.headers : r.headers[i].kind = "keep-alive"]

\* The name and the password of a form whose body has its first & at amp.
FirstAmpersand(body, amp) == body[amp] = 0 /\ \A i \in 1 .. amp - 1 : body[i] # 0
ExpectedCreds(body, amp) ==
  <<Bytes(SubSeq(body, 1, amp - 1)), Bytes(SubSeq(body, amp + 1, Len(body)))>>

Malformed(r) == r.eol # <<CR, LF>>

(* The answer to a request depends on the request alone: not on how recv   *)
(* split it, and not on what earlier requests, of this or of another       *)
(* client, have left in the slot.  A malformed line gets no answer.  The   *)
(* one exception is a form without a & in its body, which takes its name   *)
(* and password from where m_string happens to point: see CredsAreOwn      *)
(* (http_conn.cpp:228-278, 149-169, 467-476).                              *)
AnswerIsRight ==
  at = "respond" =>
    /\ ~Malformed(request)
    /\ [code |-> result.code, page |-> result.page, linger |-> result.linger] = Expected(request)
    /\ result.page # "form" => result.creds = <<>>
    /\ result.page = "form" =>
         \A amp \in DOMAIN request.body :
           FirstAmpersand(request.body, amp) => result.creds = ExpectedCreds(request.body, amp)

(* Every character of the name and the password do_request compares or     *)
(* stores was sent in the request it answers, even when m_string still     *)
(* points to where another client's body was: init() clears the buffer     *)
(* though not m_string (http_conn.cpp:149-169, 467-476).                   *)
CredsAreOwn ==
  at = "respond" =>
    \A f \in DOMAIN result.creds : \A i \in DOMAIN result.creds[f] :
      \E j \in DOMAIN Text(request) : result.creds[f][i] = Text(request)[j]

(* A request that has been received completely is answered: the worker     *)
(* never asks for more input that the client has no reason to send         *)
(* ("judge whether the request has been read completely",                  *)
(* http_conn.cpp:427).                                                     *)
CompleteIsAnswered ==
  at = "recv" /\ request # NoRequest /\ unread = <<>> => Malformed(request)

(* When a kept-alive slot is initialised for the next request, nothing in  *)
(* its buffer and nothing still to be received belongs to the request that *)
(* was answered (http_conn.cpp:795-798).                                   *)
NothingLeftOver ==
  [][at = "respond" /\ at' = "recv" => m_read_idx = Len(Text(request)) /\ unread = <<>>]_vars

(* process_read ends on every input: the loop, whose condition calls       *)
(* parse_line only sometimes, does not go round in a body that is not      *)
(* complete ("avoid entering the loop again", http_conn.cpp:269-271), unless *)
(* it goes astray.                                                         *)
ParseEnds == at = "parse" ~> at \in {"recv", "respond", "astray"}
=============================================================================

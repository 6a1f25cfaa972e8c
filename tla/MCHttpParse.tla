---------------------------- MODULE MCHttpParse ----------------------------
(* Values of the constants of HttpParse for TLC.                           *)
EXTENDS HttpParse

Request(kind, page, eol, headers, body) ==
  [line |-> Char(kind, page), eol |-> eol, headers |-> headers, body |-> body]

KeepHeader == Char("keep-alive", 0)
LengthHeader(n) == Char("length", n)
OtherHeader(ampersand) == Char("other", IF ampersand THEN 0 ELSE 1)

\* The int of the machine; TLC's integers end there, too.
MCIntMax == 2147483647

\* What clients send that are no browser's: lines that end in LF or in CR alone,
\* a url without a path, lengths that are negative or overflow, a name that is
\* too long, forms without a body (one of them with a & in a header), and a
\* request that does not fit.
OddRequests == {
  Request("GET", 5, <<LF>>, <<>>, <<>>),
  Request("GET", 6, <<CR>>, <<>>, <<>>),
  Request("GET", NoPath, <<CR, LF>>, <<>>, <<>>),
  Request("GET", 1, <<CR, LF>>, <<KeepHeader, LengthHeader(-1)>>, <<>>),
  Request("GET", 1, <<CR, LF>>, <<LengthHeader(-8)>>, <<>>),
  Request("GET", 1, <<CR, LF>>, <<LengthHeader(MCIntMax)>>, <<>>),
  Request("POST", 3, <<CR, LF>>, <<LengthHeader(4)>>, <<3, 3, 0, 4>>),
  Request("POST", 3, <<CR, LF>>, <<>>, <<>>),
  Request("POST", 2, <<CR, LF>>, <<KeepHeader, KeepHeader, OtherHeader(TRUE)>>, <<>>),
  Request("GET", 7, <<CR, LF>>, <<KeepHeader, KeepHeader, KeepHeader, KeepHeader>>, <<>>)}

\* A page with and without keep-alive, the login form with a body that fills
\* the buffer, the registration form with another, a body that is no form's, a
\* request line that is not one, and the odd requests.
MCRequests == OddRequests \cup {
  Request("GET", 1, <<CR, LF>>, <<KeepHeader>>, <<>>),
  Request("GET", 8, <<CR, LF>>, <<OtherHeader(FALSE)>>, <<>>),
  Request("POST", 2, <<CR, LF>>, <<KeepHeader, LengthHeader(3)>>, <<1, 0, 2>>),
  Request("POST", 3, <<CR, LF>>, <<LengthHeader(3)>>, <<3, 0, 4>>),
  Request("POST", 4, <<CR, LF>>, <<KeepHeader, LengthHeader(1)>>, <<6>>),
  Request("POST", 0, <<CR, LF>>, <<>>, <<>>),
  Request("junk", 0, <<CR, LF>>, <<KeepHeader>>, <<>>)}

\* The properties are about clients that are truthful, and these are.
ASSUME MCClientsAreTruthful == ClientsAreTruthful
=============================================================================

--------------------------- MODULE MCHttpResponse ---------------------------
(* A small instance of HttpResponse for TLC.                               *)
EXTENDS HttpResponse

MCCodes == {200, 302}
\* The length of an empty body, of the page, and of neither.
MCLengths == {0, 5, 9}
=============================================================================

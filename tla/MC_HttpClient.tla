--------------------------- MODULE MC_HttpClient ---------------------------
(* The HTTP client on small instances.                                      *)
EXTENDS HttpClient

\* A body that fills the buffer, chunks after a header that ends in 0, chunks
\* longer than the buffer, and an error.
SmallAnswers ==
  {[code |-> HTTP_OK, framing |-> "length", body |-> 2, zero |-> FALSE],
   [code |-> HTTP_OK, framing |-> "chunked", body |-> 1, zero |-> TRUE],
   [code |-> HTTP_OK, framing |-> "split", body |-> 3, zero |-> FALSE],
   [code |-> HTTP_NOT_FOUND, framing |-> "split", body |-> 0, zero |-> FALSE]}

=============================================================================

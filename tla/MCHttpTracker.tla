--------------------------- MODULE MCHttpTracker ---------------------------
(* A small instance of HttpTracker for TLC. *)
EXTENDS HttpTracker

CONSTANTS t

\* No query; one without info_hash; a proper one; one with a malformed hash
\* after a proper one, and the other way round; one that does not decode
\* before a proper one.
SomeQueries ==
    {NoQuery, << >>, <<t>>, <<t, Bonkers>>, <<Bonkers, t>>, <<Garbled, t>>}
=============================================================================

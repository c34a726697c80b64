------------------------------ MODULE MCScanner ------------------------------
(* Small instances of Scanner.                                              *)
EXTENDS BulkQueries

\* A plain record, two in a block, and one that has to be escaped.
PlainAndEscaped == {<< <<>> >>, << <<>>, <<>> >>, << <<SEPARATOR>> >>}
=============================================================================

---------------------------- MODULE MCLineReader ----------------------------
(* Lines of up to five characters through a buffer of two. *)
EXTENDS LineReader

CONSTANTS a, b, nl

MCChar == {a, b, nl}

\* Lines: empty, shorter than the buffer, filling it with and without the newline, longer.
MCLines == {<<nl>>, <<a, nl>>, <<a, b, nl>>, <<b, a, a, b, nl>>}

\* What a program that does not end its writes with its lines may write.
MCPieces == {<<nl>>, <<a>>, <<b, nl, a>>, <<a, b>>}

\* Files, with and without a newline at the end.
MCFiles ==
  {x \o y \o z : x, y, z \in MCLines \cup {<<>>, <<a>>, <<a, b>>}}

MCNothing == {<<>>}

=============================================================================

---------------------------- MODULE MCWorkingDir ----------------------------
(* A buffer of nine bytes, a root of two, and names of dots and letters. *)
EXTENDS WorkingDir

CONSTANTS a, b, dot, slash

MCChar  == {a, b, dot, slash}
MCRoot  == <<slash, a>>
MCNames == {<<a>>, <<b, a>>, <<dot>>, <<dot, dot>>, <<dot, dot, a>>, <<a, slash, dot, dot>>}

=============================================================================

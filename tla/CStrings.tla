------------------------------ MODULE CStrings ------------------------------
(***************************************************************************)
(* The functions of libft on which the program's own strings depend.  A C  *)
(* string is the sequence of its characters before the NUL.                *)
(***************************************************************************)
EXTENDS Naturals, Sequences, FiniteSets

Cut(s, n) == IF Len(s) <= n THEN s ELSE SubSeq(s, 1, n)

\* ft_strlcat(dst, src, size): as much of src as fits, with its NUL, into size bytes.
Strlcat(dst, src, size) ==
  IF size <= Len(dst) THEN dst ELSE dst \o Cut(src, size - Len(dst) - 1)

Has(s, c) == \E i \in 1..Len(s) : s[i] = c

\* What is left of s when *ft_strchr(s, c) = 0 cuts it at the first c, if there is one.
Before(s, c) ==
  IF Has(s, c)
  THEN SubSeq(s, 1, (CHOOSE i \in 1..Len(s) : s[i] = c /\ \A j \in 1..(i - 1) : s[j] # c) - 1)
  ELSE s

\* What is left of s when *ft_strrchr(s, c) = 0 cuts it at the last c.
BeforeLast(s, c) ==
  SubSeq(s, 1, (CHOOSE i \in 1..Len(s) : s[i] = c /\ \A j \in (i + 1)..Len(s) : s[j] # c) - 1)

\* ft_strsplit(s, c): the longest pieces without a c, in order, none of them empty.
Starts(s, c) == {i \in 1..Len(s) : s[i] # c /\ (i > 1 => s[i - 1] = c)}

Split(s, c) ==
  [k \in 1..Cardinality(Starts(s, c)) |->
     LET i == CHOOSE i \in Starts(s, c) : Cardinality({j \in Starts(s, c) : j <= i}) = k
     IN  Before(SubSeq(s, i, Len(s)), c)]

=============================================================================

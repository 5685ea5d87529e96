------------------------------ MODULE ListSpec ------------------------------
(***************************************************************************)
(* What a caller of libft's lists expects: a sequence of contents.  Each   *)
(* step is what one call, or one turn of a call's loop, may do to it.      *)
(***************************************************************************)
EXTENDS Sequences, SequencesExt

CONSTANT Contents

VARIABLES
  seq,       \* the list
  dup        \* the copy that ft_lstmap has returned

Init == seq = <<>> /\ dup = <<>>

Change ==
  \/ \E x \in Contents : seq' = <<x>> \o seq       \* ft_lstadd
  \/ \E x \in Contents : seq' = Append(seq, x)     \* ft_lstappend, ft_strsplit_lst
  \/ seq' = Reverse(seq)                           \* ft_lstrev
  \/ seq # <<>> /\ seq' = Tail(seq)                \* ft_lstdel
  \/ \E x \in Contents : seq' = [i \in DOMAIN seq |-> x]  \* ft_lstiter
  \/ seq' = <<>>                                   \* ft_lstdelone, or no memory

Next ==
  \/ Change /\ UNCHANGED dup
  \/ dup' = seq /\ UNCHANGED seq                   \* ft_lstmap
  \/ seq' = dup /\ dup' = <<>>                     \* the caller goes on with it

Spec == Init /\ [][Next]_<<seq, dup>>

=============================================================================

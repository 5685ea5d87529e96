------------------------------- MODULE Lists -------------------------------
(***************************************************************************)
(* libft's linked lists (lst/) and the splitter that builds them           *)
(* (ft_strsplit_lst), over a heap whose allocations may fail.  Loops that  *)
(* change the heap, or call a function of the caller, take one action per  *)
(* turn.                                                                   *)
(***************************************************************************)
EXTENDS Naturals, Sequences, SequencesExt

CONSTANTS
  Cells,     \* the nodes malloc() may hand out
  Null,
  Contents,  \* what nodes hold
  MaxWords   \* bound: words of a text to split

VARIABLES
  heap,      \* the allocated nodes: node -> [content, next]
  list,      \* the caller's list, *alst
  new,       \* a node from ft_lstnew that the caller has not linked yet
  copy,      \* ft_lstmap's new_lst, then the caller's
  at,        \* the function that runs, "caller", or "stale": lst leads anywhere
  ptr,       \* its cursor: ptr of ft_lstrev, lst of ft_lstmap and ft_strsplit_lst,
             \* in "stale" a pointer to anything
  prev,      \* ft_lstrev: prev; ft_lstmap: elem
  words,     \* ft_strsplit_lst: the words still to come
  first,     \* new_elem's static variable
  lost       \* history: nodes that nobody can free any more

listVars == <<heap, list, new, copy, at, ptr, prev, words, first, lost>>

Pointer == Cells \cup {Null}

Init ==
  /\ heap = <<>>
  /\ list = Null /\ new = Null /\ copy = Null
  /\ at = "caller" /\ ptr = Null /\ prev = Null
  /\ words = <<>> /\ first = TRUE /\ lost = {}

\* The nodes of the heap h from p on, in order.  ft_lstcount returns how many they are.
Nodes(h, p) ==
  LET from[q \in Pointer] == IF q \in DOMAIN h THEN <<q>> \o from[h[q].next] ELSE <<>>
  IN from[p]

Path(p) == Nodes(heap, p)

On(p) == ToSet(Path(p))

ContentsOf(p) == [i \in DOMAIN Path(p) |-> heap[Path(p)[i]].content]

\* The heap h with a node c for x.
Made(h, c, x) ==
  [d \in DOMAIN h \cup {c} |-> IF d = c THEN [content |-> x, next |-> Null] ELSE h[d]]

Allocate(c, x) == c \in Cells \ DOMAIN heap /\ heap' = Made(heap, c, x)

Free(cs) == heap' = [c \in DOMAIN heap \ cs |-> heap[c]]

\* ft_lstappend(p, q), p not null, on the heap h.
Linked(h, p, q) == [h EXCEPT ![Last(Path(p))].next = q]

-----------------------------------------------------------------------------
(* Calls without a loop of interest. *)

\* ft_lstnew.  A failed allocation frees the node again and changes nothing.
New(x) ==
  /\ at = "caller" /\ new = Null
  /\ \E c \in Cells : Allocate(c, x) /\ new' = c
  /\ UNCHANGED <<list, copy, at, ptr, prev, words, first, lost>>

\* ft_lstadd.
Add ==
  /\ at = "caller" /\ new # Null
  /\ heap' = [heap EXCEPT ![new].next = list]
  /\ list' = new
  /\ new' = Null
  /\ UNCHANGED <<copy, at, ptr, prev, words, first, lost>>

\* ft_lstappend.  To an empty list nothing is appended, and the caller still has
\* the node.
AppendNew ==
  /\ at = "caller" /\ new # Null /\ list # Null
  /\ heap' = Linked(heap, list, new)
  /\ new' = Null
  /\ UNCHANGED <<list, copy, at, ptr, prev, words, first, lost>>

\* ft_lstiter, with a function that changes the content of its node.
Iter(x) ==
  /\ at = "caller"
  /\ heap' = [c \in DOMAIN heap |-> IF c \in On(list) THEN [heap[c] EXCEPT !.content = x] ELSE heap[c]]
  /\ UNCHANGED <<list, new, copy, at, ptr, prev, words, first, lost>>

\* ft_lstdelone: frees the first node and clears *alst; what followed is lost.
DelOne ==
  /\ at = "caller" /\ list # Null
  /\ lost' = lost \cup (On(list) \ {list})
  /\ Free({list})
  /\ list' = Null
  /\ UNCHANGED <<new, copy, at, ptr, prev, words, first>>

\* The caller goes on with the copy when it has deleted the list.
TakeCopy ==
  /\ at = "caller" /\ list = Null /\ copy # Null
  /\ list' = copy /\ copy' = Null
  /\ UNCHANGED <<heap, new, at, ptr, prev, words, first, lost>>

-----------------------------------------------------------------------------
(* ft_lstdel and ft_lstrev. *)

\* *alst follows the node that is freed, so the caller's del() could stop here.
DelStep ==
  /\ at \in {"caller", "del"} /\ list # Null
  /\ list' = heap[list].next
  /\ at' = IF list' = Null THEN "caller" ELSE "del"
  /\ Free({list})
  /\ UNCHANGED <<new, copy, ptr, prev, words, first, lost>>

RevStart ==
  /\ at = "caller" /\ list # Null
  /\ at' = "rev" /\ ptr' = list /\ prev' = Null
  /\ UNCHANGED <<heap, list, new, copy, words, first, lost>>

RevStep ==
  /\ at = "rev" /\ ptr # Null
  /\ heap' = [heap EXCEPT ![ptr].next = prev]
  /\ prev' = ptr
  /\ ptr' = heap[ptr].next
  /\ UNCHANGED <<list, new, copy, at, words, first, lost>>

\* Mutant of RevEnd: *alst is not moved to the new first node.
RevEndStill ==
  /\ at = "rev" /\ ptr = Null
  /\ at' = "caller" /\ prev' = Null
  /\ UNCHANGED <<heap, list, new, copy, ptr, words, first, lost>>

RevEnd ==
  /\ at = "rev" /\ ptr = Null
  /\ list' = prev
  /\ at' = "caller" /\ prev' = Null
  /\ UNCHANGED <<heap, new, copy, ptr, words, first, lost>>

-----------------------------------------------------------------------------
(* ft_lstmap, with an f that makes a node with ft_lstnew or returns NULL. *)

MapStart ==
  /\ at = "caller" /\ list # Null /\ copy = Null
  /\ at' = "map" /\ ptr' = list
  /\ UNCHANGED <<heap, list, new, copy, prev, words, first, lost>>

MapStep ==
  /\ at = "map" /\ ptr # Null
  /\ \E c \in Cells \ DOMAIN heap :
       LET h == Made(heap, c, heap[ptr].content)
       IN  /\ heap' = IF copy = Null THEN h ELSE [h EXCEPT ![prev].next = c]
           /\ copy' = IF copy = Null THEN c ELSE copy
           /\ prev' = c
  /\ ptr' = heap[ptr].next
  /\ UNCHANGED <<list, new, at, words, first, lost>>

\* f() returns NULL: so does ft_lstmap, and what it has made is lost.
MapFails ==
  /\ at = "map" /\ ptr # Null
  /\ lost' = lost \cup On(copy)
  /\ at' = "caller" /\ copy' = Null /\ ptr' = Null /\ prev' = Null
  /\ UNCHANGED <<heap, list, new, words, first>>

MapEnd ==
  /\ at = "map" /\ ptr = Null
  /\ at' = "caller" /\ prev' = Null
  /\ UNCHANGED <<heap, list, new, copy, ptr, words, first, lost>>

-----------------------------------------------------------------------------
(***************************************************************************)
(* ft_strsplit_lst.  lst is not initialized: the first call of the program *)
(* sets it because "first" is 1, a later one reads what the stack holds.   *)
(* NULL loses the first word.  Any other pointer is stale: ft_lstappend    *)
(* follows it, into the middle of another list or through a node that was  *)
(* freed, the first of the program's last list say.  What becomes of the   *)
(* heap then is not defined, and the model ends there.                     *)
(***************************************************************************)
SplitStart ==
  /\ at = "caller" /\ list = Null
  /\ \E n \in 1..MaxWords : words' \in [1..n -> Contents]
  /\ \/ at' = "split" /\ UNCHANGED ptr
     \/ ~first /\ at' = "stale" /\ ptr' \in Cells
  /\ UNCHANGED <<heap, list, new, copy, prev, first, lost>>

Splitting == at = "split" /\ words # <<>>

SplitReturns(p) ==
  /\ at' = "caller" /\ list' = p /\ ptr' = Null /\ words' = <<>>
  /\ UNCHANGED <<new, copy, prev>>

\* Mutant of SplitWord: "first" is not reset.
SplitWordFirst ==
  /\ Splitting
  /\ \E c \in Cells : Allocate(c, Head(words)) /\ ptr' = c
  /\ words' = Tail(words)
  /\ UNCHANGED <<list, new, copy, at, prev, first, lost>>

\* new_elem: the first word of the program, or a word after others.
SplitWord ==
  /\ Splitting
  /\ first \/ ptr # Null
  /\ \E c \in Cells \ DOMAIN heap :
       LET h == Made(heap, c, Head(words))
       IN /\ heap' = IF first THEN h ELSE Linked(h, ptr, c)
          /\ ptr' = IF first THEN c ELSE ptr
  /\ first' = FALSE
  /\ words' = Tail(words)
  /\ UNCHANGED <<list, new, copy, at, prev, lost>>

\* new_elem on a null list: ft_lstappend does nothing, and the word is lost.
SplitOnNull ==
  /\ Splitting /\ ~first /\ ptr = Null
  /\ \E c \in Cells : Allocate(c, Head(words)) /\ lost' = lost \cup {c}
  /\ SplitReturns(Null)
  /\ UNCHANGED first

\* new_elem: no memory for the node, or for the word, when the node is lost too.
\* The list made so far is lost in both cases.
SplitFails ==
  /\ Splitting
  /\ \/ UNCHANGED heap /\ lost' = lost \cup On(ptr)
     \/ \E c \in Cells : Allocate(c, Head(words)) /\ lost' = lost \cup On(ptr) \cup {c}
  /\ SplitReturns(Null)
  /\ UNCHANGED first

SplitEnd ==
  /\ at = "split" /\ words = <<>>
  /\ SplitReturns(ptr)
  /\ UNCHANGED <<heap, first, lost>>

Next ==
  \/ \E x \in Contents : New(x) \/ Iter(x)
  \/ Add
  \/ AppendNew
  \/ DelOne
  \/ TakeCopy
  \/ DelStep
  \/ RevStart
  \/ RevStep
  \/ RevEnd
  \/ MapStart
  \/ MapStep
  \/ MapFails
  \/ MapEnd
  \/ SplitStart
  \/ SplitWord
  \/ SplitOnNull
  \/ SplitFails
  \/ SplitEnd

Spec == Init /\ [][Next]_listVars

-----------------------------------------------------------------------------
(* Properties. *)

\* Whatever the calls and wherever memory runs out, until a second ft_strsplit_lst
\* starts from a stale pointer: every node can be reached from a pointer somebody
\* holds, or is one of those that a failed or partial call of ft_lstmap, ft_lstdelone
\* or ft_strsplit_lst is known to lose; no pointer leads to freed memory, and no two
\* lists share a node.  A program's first ft_strsplit_lst never starts from one.
Accounted ==
  LET roots == {list, new, copy, prev} \cup IF at = "stale" THEN {} ELSE {ptr}
  IN /\ roots \subseteq DOMAIN heap \cup {Null}
     /\ \A c \in DOMAIN heap : heap[c].next \in DOMAIN heap \cup {Null}
     /\ DOMAIN heap = lost \cup UNION {On(p) : p \in roots}
     /\ lost \cap UNION {On(p) : p \in roots} = {}
     /\ at = "caller" => /\ On(list) \cap On(copy) = {}
                         /\ On(new) \cap (On(list) \cup On(copy)) = {}
     /\ at = "stale" => ~first

\* The lists the caller sees, or will see when the loop that runs is done.
Seen ==
  CASE at = "rev"   -> Reverse(ContentsOf(prev)) \o ContentsOf(ptr)
    [] at = "split" -> ContentsOf(ptr)
    [] OTHER        -> ContentsOf(list)

Copied == IF at = "map" THEN <<>> ELSE ContentsOf(copy)

\* The pointer code keeps to sequences: no loop over a list loses, repeats or
\* reorders a node on its way, or leaves the list half done.  Nothing is said of what
\* a second ft_strsplit_lst does from a stale pointer, where the model ends.
Abstract == INSTANCE ListSpec WITH seq <- Seen, dup <- Copied
ListsAreSequences == Abstract!Spec

=============================================================================

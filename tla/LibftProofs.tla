---------------------------- MODULE LibftProofs ----------------------------
(***************************************************************************)
(* The theorems of Lists: after any calls, wherever memory runs out, every *)
(* node is held or known to be lost, and the caller's lists are the        *)
(* sequences of ListSpec, as long as ft_strsplit_lst does not start from a *)
(* stale pointer.  Then those of ProgressBar, the bar fits its             *)
(* buffer where its callers rely on it; of CMemory, the functions on       *)
(* memory do what they are meant to; and of PrintfStandard, the handlers   *)
(* of ft_printf write the fields of the standard.                          *)
(***************************************************************************)
EXTENDS Libft, Pieces, WellFoundedInduction

-----------------------------------------------------------------------------
(* Chains of nodes. *)

\* From p on, the heap h has the nodes s.
Chain(h, p, s) ==
  /\ s \in Seq(DOMAIN h)
  /\ p = IF s = <<>> THEN Null ELSE s[1]
  /\ \A i \in 1..Len(s) : h[s[i]].next = IF i = Len(s) THEN Null ELSE s[i + 1]

\* A chain has a length, and one of length 0 has no node.
LEMMA ChainLen ==
  ASSUME NEW h, NEW p, NEW s, Chain(h, p, s)
  PROVE  /\ Len(s) \in Nat /\ (s = <<>> <=> Len(s) = 0) /\ DOMAIN s = 1..Len(s)
         /\ \A i \in 1..Len(s) : s[i] \in DOMAIN h
BY LenProperties, ElementOfSeq, EmptySeq DEF Chain

\* The null pointer has the empty chain.
LEMMA ChainOfNull == ASSUME NEW h PROVE Chain(h, Null, <<>>)
BY EmptySeq DEF Chain

\* A set of naturals has a least element.
LEMMA LeastOf ==
  ASSUME NEW S, S \subseteq Nat, S # {}
  PROVE  \E x \in S : \A y \in S : x <= y
<1> DEFINE R == OpToRel(<, Nat)
<1>1. IsWellFoundedOn(R, Nat) BY NatLessThanWellFounded
<1>2. \A x, y \in Nat : <<y, x>> \in R <=> y < x BY DEF OpToRel
<1> HIDE DEF R
<1>3. \E x \in S : \A y \in S : ~ (<<y, x>> \in R) BY <1>1, WFMin
<1>4. PICK x \in S : \A y \in S : ~ (y < x) BY <1>2, <1>3
<1> QED BY <1>4

\* Two chains from one place have the same nodes.
LEMMA ChainUnique ==
  ASSUME NEW h, Null \notin DOMAIN h, NEW p, NEW s, NEW t, Chain(h, p, s), Chain(h, p, t)
  PROVE  s = t
<1>1. /\ Len(s) \in Nat /\ (s = <<>> <=> Len(s) = 0) /\ \A i \in 1..Len(s) : s[i] \in DOMAIN h
      /\ Len(t) \in Nat /\ (t = <<>> <=> Len(t) = 0) /\ \A i \in 1..Len(t) : t[i] \in DOMAIN h
  BY ChainLen
<1>2. \A i \in 1..Len(s) : i \in 1..Len(t) => s[i] = t[i]
  <2> DEFINE D == {i \in 1..Len(s) : i \in 1..Len(t) /\ s[i] # t[i]}
  <2>1. CASE D = {} BY <2>1
  <2>2. CASE D # {}
    <3>0. D \subseteq Nat BY <1>1
    <3>1. PICK k \in D : \A i \in D : k <= i
      <4> HIDE DEF D
      <4> QED BY <2>2, <3>0, LeastOf
    <3>2. k # 1
      <4>1. s # <<>> /\ t # <<>> BY <1>1, <3>1
      <4>2. s[1] = t[1] BY <4>1 DEF Chain
      <4> QED BY <3>1, <4>2
    <3>3. k - 1 \in 1..Len(s) /\ k - 1 \in 1..Len(t) /\ k - 1 # Len(s) /\ k - 1 # Len(t) /\ ~(k <= k - 1)
      BY <1>1, <3>1, <3>2
    <3>4. s[k - 1] = t[k - 1]
      <4>1. k - 1 \notin D BY <3>1, <3>3
      <4> QED BY <3>3, <4>1
    <3>5. h[s[k - 1]].next = s[k] /\ h[t[k - 1]].next = t[k]
      <4>1. k - 1 + 1 = k BY <1>1, <3>1
      <4>2. /\ h[s[k - 1]].next = IF k - 1 = Len(s) THEN Null ELSE s[k - 1 + 1]
            /\ h[t[k - 1]].next = IF k - 1 = Len(t) THEN Null ELSE t[k - 1 + 1]
        BY <3>3 DEF Chain
      <4> QED BY <3>3, <4>1, <4>2
    <3> QED BY <3>1, <3>4, <3>5
  <2> QED BY <2>1, <2>2
<1>3. ~(Len(s) < Len(t))
  <2> SUFFICES ASSUME Len(s) < Len(t) PROVE FALSE OBVIOUS
  <2>1. CASE Len(s) = 0 BY <1>1, <2>1 DEF Chain
  <2>2. CASE Len(s) # 0
    <3>1. Len(s) \in 1..Len(s) /\ Len(s) \in 1..Len(t) /\ Len(s) + 1 \in 1..Len(t) BY <1>1, <2>2
    <3>2. h[s[Len(s)]].next = Null /\ h[t[Len(s)]].next = t[Len(s) + 1] BY <1>1, <3>1 DEF Chain
    <3> QED BY <1>1, <1>2, <3>1, <3>2
  <2> QED BY <2>1, <2>2
<1>4. ~(Len(t) < Len(s))
  <2> SUFFICES ASSUME Len(t) < Len(s) PROVE FALSE OBVIOUS
  <2>1. CASE Len(t) = 0 BY <1>1, <2>1 DEF Chain
  <2>2. CASE Len(t) # 0
    <3>1. Len(t) \in 1..Len(t) /\ Len(t) \in 1..Len(s) /\ Len(t) + 1 \in 1..Len(s) BY <1>1, <2>2
    <3>2. h[t[Len(t)]].next = Null /\ h[s[Len(t)]].next = s[Len(t) + 1] BY <1>1, <3>1 DEF Chain
    <3> QED BY <1>1, <1>2, <3>1, <3>2
  <2> QED BY <2>1, <2>2
<1>5. Len(s) = Len(t) BY <1>1, <1>3, <1>4
<1> QED BY <1>1, <1>2, <1>5, SeqEqual DEF Chain

\* The end of a chain, from its k-th node on, is a chain.
LEMMA ChainFrom ==
  ASSUME NEW h, NEW p, NEW s, Chain(h, p, s), NEW k \in 1..Len(s)
  PROVE  /\ Chain(h, s[k], SubSeq(s, k, Len(s)))
         /\ Len(SubSeq(s, k, Len(s))) = Len(s) - k + 1
         /\ \A i \in 1..(Len(s) - k + 1) : SubSeq(s, k, Len(s))[i] = s[k + i - 1]
<1> DEFINE t == SubSeq(s, k, Len(s))
<1>1. Len(s) \in Nat /\ s \in Seq(DOMAIN h) BY ChainLen DEF Chain
<1>2. k \in 1..(Len(s) + 1) /\ Len(s) \in 0..Len(s) /\ k <= Len(s) BY <1>1
<1>3. /\ t \in Seq(DOMAIN h) /\ Len(t) = Len(s) - k + 1
      /\ \A i \in 1..(Len(s) - k + 1) : t[i] = s[k + i - 1]
  BY <1>1, <1>2, Piece
<1> HIDE DEF t
<1>4. t # <<>> /\ t[1] = s[k] BY <1>1, <1>2, <1>3, EmptySeq
<1>5. ASSUME NEW i \in 1..Len(t) PROVE h[t[i]].next = IF i = Len(t) THEN Null ELSE t[i + 1]
  <2>1. k + i - 1 \in 1..Len(s) /\ (k + i - 1 = Len(s) <=> i = Len(t)) BY <1>1, <1>3
  <2>2. t[i] = s[k + i - 1] BY <1>3
  <2>3. i # Len(t) => t[i + 1] = s[k + i - 1 + 1]
    <3> HAVE i # Len(t)
    <3>1. i \in 1..(Len(s) - k + 1) /\ i # Len(s) - k + 1 BY <1>3
    <3>2. i + 1 \in 1..(Len(s) - k + 1) /\ k + (i + 1) - 1 = k + i - 1 + 1 BY <1>1, <3>1
    <3> QED BY <1>3, <3>2
  <2> QED BY <2>1, <2>2, <2>3 DEF Chain
<1>6. Chain(h, s[k], t) BY <1>3, <1>4, <1>5 DEF Chain
<1> QED BY <1>3, <1>6 DEF t

\* No node is twice in a chain.
LEMMA ChainOnce ==
  ASSUME NEW h, Null \notin DOMAIN h, NEW p, NEW s, Chain(h, p, s),
         NEW i \in 1..Len(s), NEW j \in 1..Len(s), s[i] = s[j]
  PROVE  i = j
<1> DEFINE t == SubSeq(s, i, Len(s))
           u == SubSeq(s, j, Len(s))
<1>1. Chain(h, s[i], t) /\ Len(t) = Len(s) - i + 1 BY ChainFrom
<1>2. Chain(h, s[j], u) /\ Len(u) = Len(s) - j + 1 BY ChainFrom
<1> HIDE DEF t, u
<1>3. t = u BY <1>1, <1>2, ChainUnique
<1>4. Len(s) \in Nat BY ChainLen
<1> QED BY <1>1, <1>2, <1>3, <1>4

\* A chain is its first node and the chain of the next one.
LEMMA ChainTail ==
  ASSUME NEW h, NEW p, NEW s, Chain(h, p, s), s # <<>>
  PROVE  /\ Chain(h, h[p].next, Tail(s)) /\ s = <<p>> \o Tail(s) /\ Len(Tail(s)) = Len(s) - 1
         /\ p \in DOMAIN h
<1>1. /\ Len(s) \in Nat \ {0} /\ s \in Seq(DOMAIN h) /\ p = s[1] /\ p \in DOMAIN h
  BY ChainLen, EmptySeq DEF Chain
<1>2. h[p].next = IF 1 = Len(s) THEN Null ELSE s[2]
  <2>1. 1 \in 1..Len(s) /\ 1 + 1 = 2 BY <1>1
  <2>2. h[s[1]].next = IF 1 = Len(s) THEN Null ELSE s[1 + 1] BY <2>1 DEF Chain
  <2> QED BY <1>1, <2>1, <2>2
<1>3. Tail(s) = SubSeq(s, 2, Len(s)) /\ Len(Tail(s)) = Len(s) - 1 BY <1>1, TailIsSubSeq, HeadTailProperties
<1>4. s = <<p>> \o Tail(s)
  <2>1. 1 \in 1..Len(s) /\ Len(s) \in 1..Len(s) /\ 1 + 1 = 2 BY <1>1
  <2>2. SubSeq(s, 1, Len(s)) = <<s[1]>> \o SubSeq(s, 2, Len(s)) BY <1>1, <2>1, SubSeqRecursiveFirst
  <2> QED BY <1>1, <1>3, <2>2, SubSeqFull
<1>5. CASE Len(s) = 1
  <2>1. Len(Tail(s)) = 0 /\ Tail(s) \in Seq(DOMAIN h) BY <1>1, <1>3, <1>5, HeadTailProperties
  <2>2. Tail(s) = <<>> BY <2>1, EmptySeq
  <2> QED BY <1>1, <1>2, <1>3, <1>4, <1>5, <2>2, ChainOfNull
<1>6. CASE Len(s) # 1
  <2>1. 2 \in 1..Len(s) BY <1>1, <1>6
  <2>2. Chain(h, s[2], SubSeq(s, 2, Len(s))) BY <2>1, ChainFrom
  <2>3. h[p].next = s[2] BY <1>2, <1>6
  <2> QED BY <1>1, <1>3, <1>4, <2>2, <2>3
<1> QED BY <1>5, <1>6

\* A node before a chain.
LEMMA ChainCons ==
  ASSUME NEW h, NEW p \in DOMAIN h, NEW s, Chain(h, h[p].next, s)
  PROVE  Chain(h, p, <<p>> \o s)
<1> DEFINE t == <<p>> \o s
<1>1. Len(s) \in Nat /\ s \in Seq(DOMAIN h) /\ (s = <<>> <=> Len(s) = 0) BY ChainLen DEF Chain
<1>2. <<p>> \in Seq(DOMAIN h) /\ Len(<<p>>) = 1 /\ <<p>>[1] = p OBVIOUS
<1>3. /\ t \in Seq(DOMAIN h) /\ Len(t) = 1 + Len(s)
      /\ \A i \in 1..(1 + Len(s)) : t[i] = IF i <= 1 THEN p ELSE s[i - 1]
  <2>1. \A i \in 1..(1 + Len(s)) : t[i] = IF i <= 1 THEN <<p>>[i] ELSE s[i - 1]
    BY <1>1, <1>2, ConcatProperties
  <2>2. \A i \in 1..(1 + Len(s)) : i <= 1 => i = 1 BY <1>1
  <2>3. t \in Seq(DOMAIN h) /\ Len(t) = 1 + Len(s) BY <1>1, <1>2, ConcatProperties
  <2> QED BY <1>2, <2>1, <2>2, <2>3
<1> HIDE DEF t
<1>4. t # <<>> /\ t[1] = p BY <1>1, <1>3, EmptySeq
<1>5. ASSUME NEW i \in 1..Len(t) PROVE h[t[i]].next = IF i = Len(t) THEN Null ELSE t[i + 1]
  <2>1. CASE i = 1
    <3>1. s # <<>> => t[2] = s[1] /\ 2 \in 1..(1 + Len(s))
      <4> HAVE s # <<>>
      <4>1. 2 \in 1..(1 + Len(s)) /\ ~(2 <= 1) /\ 2 - 1 = 1 BY <1>1
      <4> QED BY <1>3, <4>1
    <3>2. h[p].next = IF s = <<>> THEN Null ELSE s[1] BY DEF Chain
    <3> QED BY <1>1, <1>3, <1>4, <2>1, <3>1, <3>2
  <2>2. CASE i # 1
    <3>1. i - 1 \in 1..Len(s) /\ (i - 1 = Len(s) <=> i = Len(t)) /\ ~(i <= 1) BY <1>1, <1>3, <2>2
    <3>2. t[i] = s[i - 1] BY <1>3, <3>1
    <3>3. i # Len(t) => t[i + 1] = s[i - 1 + 1]
      <4> HAVE i # Len(t)
      <4>1. i + 1 \in 1..(1 + Len(s)) /\ ~(i + 1 <= 1) /\ i + 1 - 1 = i - 1 + 1 BY <1>1, <1>3, <3>1
      <4> QED BY <1>3, <4>1
    <3> QED BY <3>1, <3>2, <3>3 DEF Chain
  <2> QED BY <2>1, <2>2
<1>6. Chain(h, p, t) BY <1>3, <1>4, <1>5 DEF Chain
<1> QED BY <1>6 DEF t

-----------------------------------------------------------------------------
(* The heap as a whole. *)

\* A heap of nodes that point to nodes of it or nowhere.
HeapOK(h) ==
  /\ Null \notin Cells /\ DOMAIN h \subseteq Cells
  /\ h \in [DOMAIN h -> [content : Contents, next : DOMAIN h \cup {Null}]]

\* Every pointer into it leads to an end: there is no cycle.
Sound(h) ==
  /\ HeapOK(h)
  /\ \A p \in DOMAIN h \cup {Null} : \E s : Chain(h, p, s)

\* The loop of Nodes follows the chain.
LEMMA NodesOfChain ==
  ASSUME NEW h, Sound(h), NEW p, NEW s, Chain(h, p, s)
  PROVE  Nodes(h, p) = s
<1> DEFINE ch == [q \in Pointer |-> IF q \in DOMAIN h THEN CHOOSE t : Chain(h, q, t) ELSE <<>>]
           F(f) == [q \in Pointer |-> IF q \in DOMAIN h THEN <<q>> \o f[h[q].next] ELSE <<>>]
           from == CHOOSE f : f = F(f)
<1>1. /\ Null \notin DOMAIN h /\ DOMAIN h \cup {Null} \subseteq Pointer
      /\ \A q \in DOMAIN h : h[q].next \in DOMAIN h \cup {Null}
  BY DEF Sound, HeapOK, Pointer
<1>2. \A q \in DOMAIN h \cup {Null} : Chain(h, q, ch[q])
  <2> TAKE q \in DOMAIN h \cup {Null}
  <2>1. CASE q = Null BY <1>1, <2>1, ChainOfNull
  <2>2. CASE q # Null
    <3>1. ch[q] = CHOOSE t : Chain(h, q, t) BY <1>1, <2>2
    <3>2. \E t : Chain(h, q, t) BY DEF Sound
    <3> HIDE DEF ch
    <3> QED BY <3>1, <3>2
  <2> QED BY <2>1, <2>2
<1>3. ch = F(ch)
  <2>1. \A q \in Pointer : ch[q] = F(ch)[q]
    <3> TAKE q \in Pointer
    <3>1. CASE q \in DOMAIN h
      <4>1. Chain(h, q, ch[q]) /\ Chain(h, h[q].next, ch[h[q].next]) BY <1>1, <1>2, <3>1
      <4> HIDE DEF ch
      <4>2. Chain(h, q, <<q>> \o ch[h[q].next]) BY <3>1, <4>1, ChainCons
      <4>3. ch[q] = <<q>> \o ch[h[q].next] BY <1>1, <4>1, <4>2, ChainUnique
      <4> QED BY <3>1, <4>3
    <3>2. CASE q \notin DOMAIN h BY <3>2
    <3> QED BY <3>1, <3>2
  <2> QED BY <2>1
<1>4. from = F(from)
  <2> HIDE DEF ch, F
  <2> QED BY <1>3
<1>5. Nodes(h, p) = from[p] BY DEF Nodes
<1> HIDE DEF ch, from
<1> DEFINE Wrong(n) == \E q, t : Chain(h, q, t) /\ Len(t) = n /\ from[q] # t
           W == {n \in Nat : Wrong(n)}
<1>6. CASE W = {}
  <2>1. Len(s) \in Nat BY ChainLen
  <2>2. ~Wrong(Len(s)) BY <1>6, <2>1
  <2> QED BY <1>5, <2>2
<1>7. CASE W # {}
  <2>1. PICK n \in W : \A m \in W : n <= m
    <3>1. W \subseteq Nat OBVIOUS
    <3> HIDE DEF W
    <3> QED BY <1>7, <3>1, LeastOf
  <2>2. PICK q, t : Chain(h, q, t) /\ Len(t) = n /\ from[q] # t BY <2>1
  <2>3. CASE t = <<>>
    <3>1. q = Null BY <2>2, <2>3 DEF Chain
    <3>2. from[Null] = <<>> BY <1>1, <1>4
    <3> QED BY <2>2, <2>3, <3>1, <3>2
  <2>4. CASE t # <<>>
    <3>1. /\ Chain(h, h[q].next, Tail(t)) /\ t = <<q>> \o Tail(t) /\ Len(Tail(t)) = Len(t) - 1
          /\ q \in DOMAIN h /\ Len(t) \in Nat \ {0}
      BY <2>2, <2>4, ChainTail, ChainLen
    <3>2. from[q] = <<q>> \o from[h[q].next] BY <1>1, <1>4, <3>1
    <3>3. from[h[q].next] # Tail(t) BY <2>2, <3>1, <3>2
    <3>4. n - 1 \in Nat /\ Len(Tail(t)) = n - 1 BY <2>2, <3>1
    <3>5. Wrong(n - 1) BY <3>1, <3>3, <3>4
    <3> HIDE DEF Wrong
    <3>6. n - 1 \in W BY <3>4, <3>5
    <3> QED BY <2>1, <2>2, <3>1, <3>6
  <2> QED BY <2>3, <2>4
<1> QED BY <1>6, <1>7

\* So every pointer into a sound heap has its nodes as a chain.
LEMMA NodesChain ==
  ASSUME NEW h, Sound(h), NEW p \in DOMAIN h \cup {Null}
  PROVE  Chain(h, p, Nodes(h, p))
<1>1. PICK s : Chain(h, p, s) BY DEF Sound
<1> QED BY <1>1, NodesOfChain

\* The chain stays where its nodes stay.
LEMMA ChainFrame ==
  ASSUME NEW h, NEW g, NEW p, NEW s, Chain(h, p, s),
         \A i \in 1..Len(s) : s[i] \in DOMAIN g /\ g[s[i]].next = h[s[i]].next
  PROVE  Chain(g, p, s)
<1>1. Len(s) \in Nat /\ s \in Seq(DOMAIN h) BY ChainLen DEF Chain
<1>2. s \in Seq(DOMAIN g)
  <2>1. s \in [1..Len(s) -> DOMAIN h] BY <1>1, LenProperties
  <2>2. s \in [1..Len(s) -> DOMAIN g] BY <2>1
  <2> QED BY <1>1, <2>2, SeqDef
<1> QED BY <1>1, <1>2 DEF Chain

\* A chain is a sequence of nodes of the heap.
LEMMA ChainSet ==
  ASSUME NEW h, NEW p, NEW s, Chain(h, p, s)
  PROVE  /\ ToSet(s) \subseteq DOMAIN h
         /\ \A x : x \in ToSet(s) <=> \E i \in 1..Len(s) : s[i] = x
         /\ p # Null => p \in ToSet(s)
         /\ p = Null /\ Null \notin DOMAIN h => s = <<>>
<1>1. /\ Len(s) \in Nat /\ (s = <<>> <=> Len(s) = 0) /\ DOMAIN s = 1..Len(s)
      /\ \A i \in 1..Len(s) : s[i] \in DOMAIN h
  BY ChainLen
<1>2. \A x : x \in ToSet(s) <=> \E i \in 1..Len(s) : s[i] = x BY <1>1 DEF ToSet
<1>3. p # Null => p \in ToSet(s)
  <2> HAVE p # Null
  <2>1. s # <<>> /\ p = s[1] BY DEF Chain
  <2>2. 1 \in 1..Len(s) BY <1>1, <2>1
  <2> QED BY <1>2, <2>1, <2>2
<1>4. p = Null /\ Null \notin DOMAIN h => s = <<>>
  <2> HAVE p = Null /\ Null \notin DOMAIN h
  <2> SUFFICES ASSUME s # <<>> PROVE FALSE OBVIOUS
  <2>1. p = s[1] BY DEF Chain
  <2>2. 1 \in 1..Len(s) BY <1>1
  <2> QED BY <1>1, <2>1, <2>2
<1> QED BY <1>1, <1>2, <1>3, <1>4

-----------------------------------------------------------------------------
(* What the nodes of a chain hold. *)

Texts(h, s) == [i \in DOMAIN s |-> h[s[i]].content]

\* An interval from 1 has one end.
LEMMA SameInterval == ASSUME NEW m \in Nat, NEW n \in Nat, 1..m = 1..n PROVE m = n
<1>1. ~(m < n)
  <2> SUFFICES ASSUME m < n PROVE FALSE OBVIOUS
  <2>1. n \in 1..n /\ n \notin 1..m OBVIOUS
  <2> QED BY <2>1
<1>2. ~(n < m)
  <2> SUFFICES ASSUME n < m PROVE FALSE OBVIOUS
  <2>1. m \in 1..m /\ m \notin 1..n OBVIOUS
  <2> QED BY <2>1
<1> QED BY <1>1, <1>2

\* As a sequence of contents.
LEMMA TextsOf ==
  ASSUME NEW h, HeapOK(h), NEW s \in Seq(DOMAIN h)
  PROVE  /\ Texts(h, s) \in Seq(Contents) /\ Len(Texts(h, s)) = Len(s)
         /\ \A i \in 1..Len(s) : Texts(h, s)[i] = h[s[i]].content
<1>1. /\ Len(s) \in Nat /\ DOMAIN s = 1..Len(s) /\ s \in [1..Len(s) -> DOMAIN h]
      /\ \A d \in DOMAIN h : h[d].content \in Contents
  BY LenProperties DEF HeapOK
<1>2. Texts(h, s) \in [1..Len(s) -> Contents] BY <1>1 DEF Texts
<1>3. Texts(h, s) \in Seq(Contents) BY <1>1, <1>2, SeqDef
<1>4. Len(Texts(h, s)) \in Nat /\ DOMAIN Texts(h, s) = 1..Len(Texts(h, s)) BY <1>3, LenProperties
<1>5. 1..Len(Texts(h, s)) = 1..Len(s) BY <1>2, <1>4
<1>6. Len(Texts(h, s)) = Len(s) BY <1>1, <1>4, <1>5, SameInterval
<1> QED BY <1>1, <1>3, <1>6 DEF Texts

\* No node, no content; one node, one content.
LEMMA TextsOne ==
  ASSUME NEW h, HeapOK(h), NEW p \in DOMAIN h
  PROVE  /\ Texts(h, <<>>) = <<>>
         /\ Texts(h, <<p>>) = <<h[p].content>>
         /\ h[p].content \in Contents
<1>1. h[p].content \in Contents BY DEF HeapOK
<1>2. <<>> \in Seq(DOMAIN h) /\ Len(<<>>) = 0 BY EmptySeq
<1>3. Texts(h, <<>>) \in Seq(Contents) /\ Len(Texts(h, <<>>)) = 0 BY <1>2, TextsOf
<1>4. Texts(h, <<>>) = <<>> BY <1>3, EmptySeq
<1>5. <<p>> \in Seq(DOMAIN h) /\ Len(<<p>>) = 1 /\ <<p>>[1] = p OBVIOUS
<1>6. /\ Texts(h, <<p>>) \in Seq(Contents) /\ Len(Texts(h, <<p>>)) = 1
      /\ Texts(h, <<p>>)[1] = h[p].content
  <2> DEFINE u == <<p>>
  <2>1. u \in Seq(DOMAIN h) /\ Len(u) = 1 /\ u[1] = p BY <1>5
  <2> HIDE DEF u
  <2>2. Texts(h, u) \in Seq(Contents) /\ Len(Texts(h, u)) = 1 /\ Texts(h, u)[1] = h[u[1]].content
    BY <2>1, TextsOf
  <2> QED BY <2>1, <2>2 DEF u
<1> DEFINE t == <<h[p].content>>
<1>7. t \in Seq(Contents) /\ Len(t) = 1 /\ t[1] = h[p].content BY <1>1
<1> HIDE DEF t
<1>8. \A i \in 1..1 : Texts(h, <<p>>)[i] = t[i] BY <1>6, <1>7
<1>9. Texts(h, <<p>>) = t BY <1>6, <1>7, <1>8, Same
<1> QED BY <1>1, <1>4, <1>9 DEF t

\* The contents of two chains, one after the other.
LEMMA TextsCat ==
  ASSUME NEW h, HeapOK(h), NEW s \in Seq(DOMAIN h), NEW t \in Seq(DOMAIN h)
  PROVE  Texts(h, s \o t) = Texts(h, s) \o Texts(h, t)
<1>1. /\ s \o t \in Seq(DOMAIN h) /\ Len(s \o t) = Len(s) + Len(t) /\ Len(s) \in Nat /\ Len(t) \in Nat
      /\ \A i \in 1..(Len(s) + Len(t)) : (s \o t)[i] = IF i <= Len(s) THEN s[i] ELSE t[i - Len(s)]
  BY Cat
<1> DEFINE l == Texts(h, s \o t)
           a == Texts(h, s)
           b == Texts(h, t)
<1>2. l \in Seq(Contents) /\ Len(l) = Len(s) + Len(t)
      /\ \A i \in 1..(Len(s) + Len(t)) : l[i] = h[(s \o t)[i]].content
  <2> DEFINE u == s \o t
  <2>1. u \in Seq(DOMAIN h) /\ Len(u) = Len(s) + Len(t) BY <1>1
  <2> HIDE DEF u
  <2>2. /\ Texts(h, u) \in Seq(Contents) /\ Len(Texts(h, u)) = Len(u)
        /\ \A i \in 1..Len(u) : Texts(h, u)[i] = h[u[i]].content
    BY <2>1, TextsOf
  <2> QED BY <2>1, <2>2 DEF u
<1>3. /\ a \in Seq(Contents) /\ Len(a) = Len(s) /\ \A i \in 1..Len(s) : a[i] = h[s[i]].content
      /\ b \in Seq(Contents) /\ Len(b) = Len(t) /\ \A i \in 1..Len(t) : b[i] = h[t[i]].content
  BY TextsOf
<1> HIDE DEF l, a, b
<1>4. /\ a \o b \in Seq(Contents) /\ Len(a \o b) = Len(a) + Len(b)
      /\ \A i \in 1..(Len(a) + Len(b)) : (a \o b)[i] = IF i <= Len(a) THEN a[i] ELSE b[i - Len(a)]
  <2>1. a \in Seq(Contents) /\ b \in Seq(Contents) BY <1>3
  <2> QED BY <2>1, Cat
<1>5. ASSUME NEW i \in 1..Len(l) PROVE l[i] = (a \o b)[i]
  <2>1. i \in 1..(Len(s) + Len(t)) BY <1>2
  <2>2. CASE i <= Len(s)
    <3>1. i \in 1..Len(s) BY <1>1, <2>1, <2>2
    <3> QED BY <1>1, <1>2, <1>3, <1>4, <2>1, <2>2, <3>1, ZenonT(40)
  <2>3. CASE ~(i <= Len(s))
    <3>1. i - Len(s) \in 1..Len(t) BY <1>1, <2>1, <2>3
    <3> QED BY <1>1, <1>2, <1>3, <1>4, <2>1, <2>3, <3>1, SMTT(30)
  <2> QED BY <2>2, <2>3
<1>6. l = a \o b BY <1>2, <1>3, <1>4, <1>5, Same
<1> QED BY <1>6 DEF l, a, b

\* A heap that holds the same in the nodes of a chain.
LEMMA TextsFrame ==
  ASSUME NEW h, NEW g, NEW p, NEW s, Chain(h, p, s),
         \A i \in 1..Len(s) : g[s[i]].content = h[s[i]].content
  PROVE  Texts(g, s) = Texts(h, s)
<1>1. DOMAIN s = 1..Len(s) BY ChainLen
<1> QED BY <1>1 DEF Texts

-----------------------------------------------------------------------------
(* What the calls do to the heap. *)

\* The chain s of h is one of g too, and its nodes hold the same.
Kept(h, g, p, s) == Chain(g, p, s) /\ Texts(g, s) = Texts(h, s)

\* Chains of nodes that do not change are kept.
LEMMA KeptIf ==
  ASSUME NEW h, NEW g, NEW p, NEW s, Chain(h, p, s),
         \A x \in ToSet(s) : x \in DOMAIN g /\ g[x] = h[x]
  PROVE  Kept(h, g, p, s)
<1>1. \A i \in 1..Len(s) : s[i] \in DOMAIN g /\ g[s[i]] = h[s[i]] BY ChainSet
<1>2. Chain(g, p, s) BY <1>1, ChainFrame
<1>3. Texts(g, s) = Texts(h, s) BY <1>1, TextsFrame
<1> QED BY <1>2, <1>3 DEF Kept

\* g is the heap h with a sole node c for x.
Fresh(g, h, c, x) ==
  /\ Sound(g) /\ DOMAIN g = DOMAIN h \cup {c}
  /\ Chain(g, c, <<c>>) /\ g[c].content = x /\ g[c].next = Null
  /\ \A p, s : Chain(h, p, s) => Kept(h, g, p, s)
  /\ \A d \in DOMAIN h : g[d] = h[d]

\* A new node (ft_lstnew).
LEMMA MadeHeap ==
  ASSUME NEW h, Sound(h), NEW c \in Cells \ DOMAIN h, NEW x \in Contents, NEW g, g = Made(h, c, x)
  PROVE  Fresh(g, h, c, x)
<1>1. /\ DOMAIN g = DOMAIN h \cup {c} /\ \A d \in DOMAIN h : g[d] = h[d]
      /\ g[c] = [content |-> x, next |-> Null]
  BY DEF Made
<1>2. /\ Null \notin Cells /\ DOMAIN h \subseteq Cells
      /\ h \in [DOMAIN h -> [content : Contents, next : DOMAIN h \cup {Null}]]
  BY DEF Sound, HeapOK
<1>3. HeapOK(g)
  <2>1. \A d \in DOMAIN g : g[d] \in [content : Contents, next : DOMAIN g \cup {Null}]
    <3> TAKE d \in DOMAIN g
    <3>1. CASE d = c BY <1>1, <3>1
    <3>2. CASE d # c
      <4>1. d \in DOMAIN h /\ g[d] = h[d] BY <1>1, <3>2
      <4>2. h[d] \in [content : Contents, next : DOMAIN h \cup {Null}] BY <1>2, <4>1
      <4> QED BY <1>1, <4>1, <4>2
    <3> QED BY <3>1, <3>2
  <2>2. g = [d \in DOMAIN g |-> g[d]] BY DEF Made
  <2>3. g \in [DOMAIN g -> [content : Contents, next : DOMAIN g \cup {Null}]] BY <2>1, <2>2
  <2> QED BY <1>1, <1>2, <2>3 DEF HeapOK
<1>4. \A p, s : Chain(h, p, s) => Kept(h, g, p, s)
  <2> TAKE p, s
  <2> HAVE Chain(h, p, s)
  <2>1. \A y \in ToSet(s) : y \in DOMAIN g /\ g[y] = h[y] BY <1>1, ChainSet
  <2> QED BY <2>1, KeptIf
<1>5. Chain(g, c, <<c>>)
  <2>1. <<c>> \in Seq(DOMAIN g) /\ Len(<<c>>) = 1 /\ <<c>>[1] = c /\ <<c>> # <<>> BY <1>1
  <2>2. g[c].next = Null BY <1>1
  <2> QED BY <2>1, <2>2 DEF Chain
<1>6. Sound(g)
  <2>1. \A p \in DOMAIN g \cup {Null} : \E s : Chain(g, p, s)
    <3> TAKE p \in DOMAIN g \cup {Null}
    <3>1. CASE p = c BY <1>5, <3>1
    <3>2. CASE p # c
      <4>1. p \in DOMAIN h \cup {Null} BY <1>1, <3>2
      <4>2. PICK s : Chain(h, p, s) BY <4>1 DEF Sound
      <4> QED BY <1>4, <4>2 DEF Kept
    <3> QED BY <3>1, <3>2
  <2> QED BY <1>3, <2>1 DEF Sound
<1> QED BY <1>1, <1>4, <1>5, <1>6 DEF Fresh

\* A node that no other points to is freed.
LEMMA FreedHeap ==
  ASSUME NEW h, Sound(h), NEW n \in DOMAIN h, \A d \in DOMAIN h : h[d].next # n,
         NEW g, g = [d \in DOMAIN h \ {n} |-> h[d]]
  PROVE  /\ Sound(g) /\ DOMAIN g = DOMAIN h \ {n}
         /\ \A p, s : Chain(h, p, s) /\ n \notin ToSet(s) => Kept(h, g, p, s)
         /\ \A d \in DOMAIN h \ {n} : g[d] = h[d]
<1>1. DOMAIN g = DOMAIN h \ {n} /\ \A d \in DOMAIN h \ {n} : g[d] = h[d] OBVIOUS
<1>2. /\ Null \notin Cells /\ DOMAIN h \subseteq Cells
      /\ h \in [DOMAIN h -> [content : Contents, next : DOMAIN h \cup {Null}]]
  BY DEF Sound, HeapOK
<1>3. HeapOK(g)
  <2>1. \A d \in DOMAIN g : g[d] \in [content : Contents, next : DOMAIN g \cup {Null}]
    <3> TAKE d \in DOMAIN g
    <3>1. d \in DOMAIN h /\ g[d] = h[d] BY <1>1
    <3>2. h[d] \in [content : Contents, next : DOMAIN h \cup {Null}] BY <1>2, <3>1
    <3>3. h[d].next # n BY <3>1
    <3>4. h[d] \in [content : Contents, next : DOMAIN g \cup {Null}] BY <1>1, <3>2, <3>3
    <3> QED BY <3>1, <3>4
  <2>2. g \in [DOMAIN g -> [content : Contents, next : DOMAIN g \cup {Null}]] BY <2>1
  <2> QED BY <1>1, <1>2, <2>2 DEF HeapOK
<1>4. \A p, s : Chain(h, p, s) /\ n \notin ToSet(s) => Kept(h, g, p, s)
  <2> TAKE p, s
  <2> HAVE Chain(h, p, s) /\ n \notin ToSet(s)
  <2>1. \A y \in ToSet(s) : y \in DOMAIN g /\ g[y] = h[y] BY <1>1, ChainSet
  <2> QED BY <2>1, KeptIf
<1>5. Sound(g)
  <2>1. \A p \in DOMAIN g \cup {Null} : \E s : Chain(g, p, s)
    <3> TAKE p \in DOMAIN g \cup {Null}
    <3>1. p \in DOMAIN h \cup {Null} /\ p # n BY <1>1, <1>2
    <3>2. PICK s : Chain(h, p, s) BY <3>1 DEF Sound
    <3>3. n \notin ToSet(s)
      <4> SUFFICES ASSUME n \in ToSet(s) PROVE FALSE OBVIOUS
      <4>1. PICK i \in 1..Len(s) : s[i] = n BY <3>2, ChainSet
      <4>2. Len(s) \in Nat /\ \A j \in 1..Len(s) : s[j] \in DOMAIN h BY <3>2, ChainLen
      <4>3. CASE i = 1
        <5>1. s # <<>> BY <3>2, <4>1, <4>2, ChainLen
        <5>2. p = s[1] BY <3>2, <5>1 DEF Chain
        <5> QED BY <3>1, <4>1, <4>3, <5>2
      <4>4. CASE i # 1
        <5>1. i - 1 \in 1..Len(s) /\ i - 1 # Len(s) /\ i - 1 + 1 = i BY <4>2, <4>4
        <5>2. h[s[i - 1]].next = s[i - 1 + 1] BY <3>2, <5>1 DEF Chain
        <5> QED BY <4>1, <4>2, <5>1, <5>2
      <4> QED BY <4>3, <4>4
    <3> QED BY <1>4, <3>2, <3>3 DEF Kept
  <2> QED BY <1>3, <2>1 DEF Sound
<1> QED BY <1>1, <1>4, <1>5

\* The chain s up to its k-th node, which now points to the chain t.
LEMMA Spliced ==
  ASSUME NEW h, Null \notin DOMAIN h, NEW g, NEW d, NEW s, Chain(h, d, s), NEW k \in 1..Len(s),
         NEW q, NEW t, Chain(h, q, t), s[k] \notin ToSet(t),
         DOMAIN g = DOMAIN h, g[s[k]].next = q,
         \A x \in DOMAIN h \ {s[k]} : g[x].next = h[x].next
  PROVE  Chain(g, d, SubSeq(s, 1, k) \o t)
<1> DEFINE a == SubSeq(s, 1, k)
<1>1. /\ Len(s) \in Nat /\ s \in Seq(DOMAIN h) /\ Len(t) \in Nat /\ t \in Seq(DOMAIN h)
      /\ s # <<>> /\ d = s[1] /\ (t = <<>> <=> Len(t) = 0)
      /\ \A i \in 1..Len(s) : s[i] \in DOMAIN h
      /\ \A i \in 1..Len(t) : t[i] \in DOMAIN h
  <2>1. Len(s) \in Nat /\ (s = <<>> <=> Len(s) = 0) BY ChainLen
  <2>2. s # <<>> BY <2>1
  <2> QED BY <2>1, <2>2, ChainLen DEF Chain
<1>2. a \in Seq(DOMAIN h) /\ Len(a) = k /\ \A i \in 1..k : a[i] = s[i]
  <2>1. k \in 0..Len(s) BY <1>1
  <2> QED BY <1>1, <2>1, Prefix
<1> HIDE DEF a
<1> DEFINE u == a \o t
<1>3. /\ u \in Seq(DOMAIN h) /\ Len(u) = k + Len(t)
      /\ \A i \in 1..(k + Len(t)) : u[i] = IF i <= k THEN a[i] ELSE t[i - k]
  <2>1. t \in Seq(DOMAIN h) BY <1>1
  <2> QED BY <1>2, <2>1, Cat, ZenonT(40)
<1> HIDE DEF u
<1>4. u # <<>> /\ u[1] = d
  <2>1. 1 \in 1..(k + Len(t)) /\ 1 <= k /\ 1 \in 1..k BY <1>1
  <2>2. u # <<>> BY <1>1, <1>3, EmptySeq
  <2> QED BY <1>1, <1>2, <1>3, <2>1, <2>2
<1>5. ASSUME NEW i \in 1..Len(u) PROVE g[u[i]].next = IF i = Len(u) THEN Null ELSE u[i + 1]
  <2>0. i \in 1..(k + Len(t)) BY <1>3
  <2>1. CASE i < k
    <3>1. i \in 1..k /\ i + 1 \in 1..k /\ i \in 1..Len(s) /\ i # Len(s) /\ i <= k /\ i + 1 <= k
          /\ i + 1 \in 1..(k + Len(t)) /\ i # k
      BY <1>1, <2>0, <2>1
    <3>2. u[i] = s[i] /\ u[i + 1] = s[i + 1] BY <1>2, <1>3, <2>0, <3>1
    <3>3. h[s[i]].next = s[i + 1] BY <3>1 DEF Chain
    <3>4. s[i] # s[k] BY <3>1, ChainOnce
    <3>5. g[s[i]].next = h[s[i]].next BY <1>1, <3>1, <3>4
    <3>6. i # Len(u) BY <1>1, <1>3, <2>1
    <3> QED BY <3>2, <3>3, <3>5, <3>6
  <2>2. CASE i = k
    <3>1. k \in 1..k BY <1>1
    <3>2. u[i] = s[k] BY <1>2, <1>3, <2>0, <2>2, <3>1
    <3>3. CASE t = <<>>
      <4>1. q = Null BY <3>3 DEF Chain
      <4>2. i = Len(u) BY <1>1, <1>3, <2>2, <3>3
      <4> QED BY <3>2, <4>1, <4>2
    <3>4. CASE t # <<>>
      <4>1. q = t[1] BY <3>4 DEF Chain
      <4>2. k + 1 \in 1..(k + Len(t)) /\ ~(k + 1 <= k) /\ k + 1 - k = 1 /\ k # k + Len(t)
        BY <1>1, <3>4
      <4>3. u[k + 1] = t[1] BY <1>3, <4>2
      <4> QED BY <1>3, <2>2, <3>2, <4>1, <4>2, <4>3
    <3> QED BY <3>3, <3>4
  <2>3. CASE k < i
    <3>1. i - k \in 1..Len(t) /\ ~(i <= k) /\ (i = Len(u) <=> i - k = Len(t))
      <4>1. k \in Nat /\ Len(t) \in Nat /\ Len(u) = k + Len(t) BY <1>1, <1>3
      <4> QED BY <2>0, <2>3, <4>1, SMTT(30)
    <3>2. u[i] = t[i - k] BY <1>3, <2>0, <3>1
    <3>3. h[t[i - k]].next = IF i - k = Len(t) THEN Null ELSE t[i - k + 1] BY <3>1 DEF Chain
    <3>4. t[i - k] \in ToSet(t) BY <3>1, ChainSet
    <3>5. g[t[i - k]].next = h[t[i - k]].next BY <1>1, <3>1, <3>4
    <3>6. i # Len(u) => u[i + 1] = t[i - k + 1]
      <4> HAVE i # Len(u)
      <4>0. i # k + Len(t) /\ k \in Nat /\ Len(t) \in Nat BY <1>1, <1>3
      <4>1. i + 1 \in 1..(k + Len(t)) /\ ~(i + 1 <= k) /\ i + 1 - k = i - k + 1 BY <2>0, <2>3, <4>0
      <4> QED BY <1>3, <4>1
    <3> QED BY <3>1, <3>2, <3>3, <3>5, <3>6
  <2> QED BY <1>1, <2>0, <2>1, <2>2, <2>3
<1>6. u \in Seq(DOMAIN g) BY <1>3
<1>7. Chain(g, d, u) BY <1>4, <1>5, <1>6 DEF Chain
<1> QED BY <1>7 DEF u, a

\* g is the heap h with n before q; with x in the nodes C.
Pointed(g, h, n, q) == g = [h EXCEPT ![n].next = q]
Filled(g, h, C, x) == g = [d \in DOMAIN h |-> IF d \in C THEN [h[d] EXCEPT !.content = x] ELSE h[d]]

\* One pointer changes.
LEMMA PointedHeap ==
  ASSUME NEW h, HeapOK(h), NEW n \in DOMAIN h, NEW q, NEW g, Pointed(g, h, n, q)
  PROVE  /\ DOMAIN g = DOMAIN h /\ (q \in DOMAIN h \cup {Null} => HeapOK(g))
         /\ \A d \in DOMAIN h : /\ g[d].content = h[d].content
                                /\ g[d].next = IF d = n THEN q ELSE h[d].next
                                /\ d # n => g[d] = h[d]
<1>0. g = [h EXCEPT ![n].next = q] BY DEF Pointed
<1>1. /\ Null \notin Cells /\ DOMAIN h \subseteq Cells
      /\ h \in [DOMAIN h -> [content : Contents, next : DOMAIN h \cup {Null}]]
  BY DEF HeapOK
<1>2. /\ DOMAIN g = DOMAIN h
      /\ \A d \in DOMAIN h : /\ g[d].content = h[d].content
                             /\ g[d].next = IF d = n THEN q ELSE h[d].next
                             /\ d # n => g[d] = h[d]
  <2>1. DOMAIN g = DOMAIN h BY <1>0
  <2>2. ASSUME NEW d \in DOMAIN h
        PROVE  /\ g[d].content = h[d].content /\ g[d].next = (IF d = n THEN q ELSE h[d].next)
               /\ d # n => g[d] = h[d]
    <3>1. h[d] \in [content : Contents, next : DOMAIN h \cup {Null}] BY <1>1
    <3>2. CASE d = n BY <1>0, <3>1, <3>2
    <3>3. CASE d # n BY <1>0, <3>1, <3>3
    <3> QED BY <3>2, <3>3
  <2> QED BY <2>1, <2>2
<1>3. q \in DOMAIN h \cup {Null} => HeapOK(g)
  <2> HAVE q \in DOMAIN h \cup {Null}
  <2>1. g \in [DOMAIN h -> [content : Contents, next : DOMAIN h \cup {Null}]] BY <1>0, <1>1
  <2> QED BY <1>1, <1>2, <2>1 DEF HeapOK
<1> QED BY <1>2, <1>3

\* A node n is linked to q, whose chain t does not lead to n (ft_lstadd, ft_lstappend,
\* a turn of ft_lstrev): what becomes of a chain that has n as its k-th node.
LEMMA LinkedAt ==
  ASSUME NEW h, Sound(h), NEW n \in DOMAIN h, NEW q, NEW t, Chain(h, q, t), n \notin ToSet(t),
         NEW g, Pointed(g, h, n, q),
         NEW p, NEW s, Chain(h, p, s), NEW k \in 1..Len(s), s[k] = n
  PROVE  Chain(g, p, SubSeq(s, 1, k) \o t)
<1>1. Null \notin DOMAIN h /\ HeapOK(h) BY DEF Sound, HeapOK
<1>2. /\ DOMAIN g = DOMAIN h /\ g[n].next = q
      /\ \A x \in DOMAIN h \ {n} : g[x].next = h[x].next
  BY <1>1, PointedHeap
<1> QED BY <1>1, <1>2, Spliced

\* It was the last node.
LEMMA LinkedLast ==
  ASSUME NEW h, Sound(h), NEW n \in DOMAIN h, NEW q, NEW t, Chain(h, q, t), n \notin ToSet(t),
         NEW g, Pointed(g, h, n, q),
         NEW p, NEW s, Chain(h, p, s), s # <<>>, n = s[Len(s)]
  PROVE  Chain(g, p, s \o t)
<1>0. Len(s) \in Nat /\ (s = <<>> <=> Len(s) = 0) BY ChainLen
<1>1. Len(s) \in 1..Len(s) /\ s \in Seq(DOMAIN h) BY <1>0 DEF Chain
<1>2. SubSeq(s, 1, Len(s)) = s BY <1>1, SubSeqFull
<1>3. Chain(g, p, SubSeq(s, 1, Len(s)) \o t) BY <1>1, LinkedAt
<1> QED BY <1>2, <1>3

\* The chain from n on.
LEMMA LinkedFirst ==
  ASSUME NEW h, Sound(h), NEW n \in DOMAIN h, NEW q, NEW t, Chain(h, q, t), n \notin ToSet(t),
         NEW g, Pointed(g, h, n, q)
  PROVE  Chain(g, n, <<n>> \o t)
<1>1. PICK s : Chain(h, n, s) BY DEF Sound
<1>2. s # <<>> /\ n = s[1] /\ 1 \in 1..Len(s) /\ s \in Seq(DOMAIN h) /\ Len(s) \in Nat
  <2>1. n # Null BY DEF Sound, HeapOK
  <2>2. s # <<>> /\ n = s[1] BY <1>1, <2>1 DEF Chain
  <2>3. Len(s) \in Nat /\ (s = <<>> <=> Len(s) = 0) BY <1>1, ChainLen
  <2> QED BY <1>1, <2>2, <2>3 DEF Chain
<1>3. Chain(g, n, SubSeq(s, 1, 1) \o t) BY <1>1, <1>2, LinkedAt
<1>4. SubSeq(s, 1, 1) = <<n>>
  <2> DEFINE a == SubSeq(s, 1, 1)
             b == <<n>>
  <2>1. 1 \in 0..Len(s) BY <1>2
  <2>2. a \in Seq(DOMAIN h) /\ Len(a) = 1 /\ \A i \in 1..1 : a[i] = s[i] BY <1>2, <2>1, Prefix
  <2>3. b \in Seq(DOMAIN h) /\ Len(b) = 1 /\ b[1] = n OBVIOUS
  <2> HIDE DEF a, b
  <2>4. \A i \in 1..Len(a) : a[i] = b[i] BY <1>2, <2>2, <2>3
  <2>5. a = b BY <2>2, <2>3, <2>4, Same
  <2> QED BY <2>5 DEF a, b
<1> QED BY <1>3, <1>4

\* The heap as a whole.
LEMMA LinkedHeap ==
  ASSUME NEW h, Sound(h), NEW n \in DOMAIN h, NEW q, NEW t, Chain(h, q, t), n \notin ToSet(t),
         NEW g, Pointed(g, h, n, q)
  PROVE  /\ Sound(g) /\ DOMAIN g = DOMAIN h
         /\ \A p, s : Chain(h, p, s) /\ n \notin ToSet(s) => Kept(h, g, p, s)
         /\ \A d \in DOMAIN h : /\ g[d].content = h[d].content
                                /\ g[d].next = IF d = n THEN q ELSE h[d].next
<1>1. HeapOK(h) BY DEF Sound
<1>2. /\ DOMAIN g = DOMAIN h
      /\ \A d \in DOMAIN h : /\ g[d].content = h[d].content
                             /\ g[d].next = IF d = n THEN q ELSE h[d].next
                             /\ d # n => g[d] = h[d]
  BY <1>1, PointedHeap
<1>3. HeapOK(g)
  <2>0. q \in DOMAIN h \cup {Null}
    <3>1. t # <<>> => t[1] \in DOMAIN h
      <4> HAVE t # <<>>
      <4>1. Len(t) \in Nat /\ (t = <<>> <=> Len(t) = 0) BY ChainLen
      <4>2. 1 \in 1..Len(t) BY <4>1
      <4> QED BY <4>2, ChainLen
    <3> QED BY <3>1 DEF Chain
  <2> QED BY <1>1, <2>0, PointedHeap
<1>4. \A p, s : Chain(h, p, s) /\ n \notin ToSet(s) => Kept(h, g, p, s)
  <2> TAKE p, s
  <2> HAVE Chain(h, p, s) /\ n \notin ToSet(s)
  <2>1. \A y \in ToSet(s) : y \in DOMAIN g /\ g[y] = h[y] BY <1>2, ChainSet
  <2> QED BY <2>1, KeptIf
<1>8. Sound(g)
  <2>1. \A p \in DOMAIN g \cup {Null} : \E s : Chain(g, p, s)
    <3> TAKE p \in DOMAIN g \cup {Null}
    <3>1. PICK s : Chain(h, p, s) BY <1>2 DEF Sound
    <3>2. CASE n \notin ToSet(s) BY <1>4, <3>1, <3>2 DEF Kept
    <3>3. CASE n \in ToSet(s)
      <4>1. PICK k \in 1..Len(s) : s[k] = n BY <3>1, <3>3, ChainSet
      <4> QED BY <3>1, <4>1, LinkedAt
    <3> QED BY <3>2, <3>3
  <2> QED BY <1>3, <2>1 DEF Sound
<1> QED BY <1>2, <1>4, <1>8

\* Every node keeps its place, and some hold something else (ft_lstiter).
LEMMA IterHeap ==
  ASSUME NEW h, Sound(h), NEW C, NEW x \in Contents, NEW g, Filled(g, h, C, x)
  PROVE  /\ Sound(g) /\ DOMAIN g = DOMAIN h
         /\ \A p, s : Chain(h, p, s) => Chain(g, p, s)
         /\ \A d \in DOMAIN h : /\ g[d].next = h[d].next
                                /\ d \in C => g[d].content = x
                                /\ d \notin C => g[d] = h[d]
<1>1. /\ Null \notin Cells /\ DOMAIN h \subseteq Cells
      /\ h \in [DOMAIN h -> [content : Contents, next : DOMAIN h \cup {Null}]]
  BY DEF Sound, HeapOK
<1>0. g = [d \in DOMAIN h |-> IF d \in C THEN [h[d] EXCEPT !.content = x] ELSE h[d]] BY DEF Filled
<1>2. DOMAIN g = DOMAIN h BY <1>0
<1>3. ASSUME NEW d \in DOMAIN h
      PROVE  /\ g[d] \in [content : Contents, next : DOMAIN h \cup {Null}]
             /\ g[d].next = h[d].next /\ (d \in C => g[d].content = x) /\ (d \notin C => g[d] = h[d])
  <2>1. h[d] \in [content : Contents, next : DOMAIN h \cup {Null}] BY <1>1
  <2>2. CASE d \in C BY <1>0, <2>1, <2>2
  <2>3. CASE d \notin C BY <1>0, <2>1, <2>3
  <2> QED BY <2>2, <2>3
<1>4. HeapOK(g)
  <2>1. g \in [DOMAIN h -> [content : Contents, next : DOMAIN h \cup {Null}]] BY <1>0, <1>3
  <2> QED BY <1>1, <1>2, <2>1 DEF HeapOK
<1>5. \A p, s : Chain(h, p, s) => Chain(g, p, s)
  <2> TAKE p, s
  <2> HAVE Chain(h, p, s)
  <2>1. \A i \in 1..Len(s) : s[i] \in DOMAIN g /\ g[s[i]].next = h[s[i]].next BY <1>2, <1>3, ChainLen
  <2> QED BY <2>1, ChainFrame
<1>6. Sound(g) BY <1>2, <1>4, <1>5 DEF Sound
<1> QED BY <1>2, <1>3, <1>5, <1>6

-----------------------------------------------------------------------------
(* Sets and orders of nodes. *)

\* The nodes of two chains, one after the other.
LEMMA ToSetCat ==
  ASSUME NEW S, NEW s \in Seq(S), NEW t \in Seq(S)
  PROVE  ToSet(s \o t) = ToSet(s) \cup ToSet(t)
<1>1. /\ s \o t \in Seq(S) /\ Len(s \o t) = Len(s) + Len(t) /\ Len(s) \in Nat /\ Len(t) \in Nat
      /\ \A i \in 1..(Len(s) + Len(t)) : (s \o t)[i] = IF i <= Len(s) THEN s[i] ELSE t[i - Len(s)]
  BY Cat
<1> DEFINE u == s \o t
<1>2. /\ u \in Seq(S) /\ Len(u) = Len(s) + Len(t)
      /\ \A i \in 1..(Len(s) + Len(t)) : u[i] = IF i <= Len(s) THEN s[i] ELSE t[i - Len(s)]
  BY <1>1
<1> HIDE DEF u
<1>3. DOMAIN u = 1..(Len(s) + Len(t)) /\ DOMAIN s = 1..Len(s) /\ DOMAIN t = 1..Len(t)
  BY <1>2, LenProperties
<1>4. ASSUME NEW x \in ToSet(u) PROVE x \in ToSet(s) \cup ToSet(t)
  <2>1. PICK i \in 1..(Len(s) + Len(t)) : u[i] = x BY <1>3 DEF ToSet
  <2>2. CASE i <= Len(s)
    <3>1. i \in 1..Len(s) BY <1>1, <2>2
    <3> QED BY <1>2, <1>3, <2>1, <2>2, <3>1 DEF ToSet
  <2>3. CASE ~(i <= Len(s))
    <3>1. i - Len(s) \in 1..Len(t) BY <1>1, <2>3
    <3> QED BY <1>2, <1>3, <2>1, <2>3, <3>1 DEF ToSet
  <2> QED BY <2>2, <2>3
<1>5. ASSUME NEW x \in ToSet(s) PROVE x \in ToSet(u)
  <2>1. PICK i \in 1..Len(s) : s[i] = x BY <1>3 DEF ToSet
  <2>2. i \in 1..(Len(s) + Len(t)) /\ i <= Len(s) BY <1>1
  <2>3. u[i] = x BY <1>2, <2>1, <2>2
  <2> QED BY <1>3, <2>2, <2>3 DEF ToSet
<1>6. ASSUME NEW x \in ToSet(t) PROVE x \in ToSet(u)
  <2>1. PICK i \in 1..Len(t) : t[i] = x BY <1>3 DEF ToSet
  <2>2. Len(s) + i \in 1..(Len(s) + Len(t)) /\ ~(Len(s) + i <= Len(s)) /\ Len(s) + i - Len(s) = i
    BY <1>1
  <2>3. u[Len(s) + i] = x BY <1>2, <2>1, <2>2
  <2> QED BY <1>3, <2>2, <2>3 DEF ToSet
<1>7. ToSet(u) = ToSet(s) \cup ToSet(t) BY <1>4, <1>5, <1>6
<1> QED BY <1>7 DEF u

\* One node.
LEMMA ToSetOne == ASSUME NEW x PROVE ToSet(<<x>>) = {x} /\ ToSet(<<>>) = {}
<1>1. DOMAIN <<x>> = {1} /\ <<x>>[1] = x OBVIOUS
<1> QED BY <1>1 DEF ToSet

\* One node before or after.
LEMMA ToSetEnd ==
  ASSUME NEW S, NEW s \in Seq(S), NEW x \in S
  PROVE  ToSet(<<x>> \o s) = {x} \cup ToSet(s) /\ ToSet(s \o <<x>>) = ToSet(s) \cup {x}
<1> DEFINE o == <<x>>
<1>1. o \in Seq(S) /\ ToSet(o) = {x} BY ToSetOne
<1> HIDE DEF o
<1>2. ToSet(o \o s) = {x} \cup ToSet(s) /\ ToSet(s \o o) = ToSet(s) \cup {x} BY <1>1, ToSetCat
<1> QED BY <1>2 DEF o

\* The last element after one more.
LEMMA LastOfCat ==
  ASSUME NEW S, NEW s \in Seq(S), NEW x \in S
  PROVE  (s \o <<x>>)[Len(s \o <<x>>)] = x
<1> DEFINE o == <<x>>
<1>1. o \in Seq(S) /\ Len(o) = 1 /\ o[1] = x OBVIOUS
<1> HIDE DEF o
<1>2. /\ Len(s \o o) = Len(s) + 1 /\ Len(s) \in Nat
      /\ \A i \in 1..(Len(s) + 1) : (s \o o)[i] = IF i <= Len(s) THEN s[i] ELSE o[i - Len(s)]
  <2>1. /\ Len(s \o o) = Len(s) + Len(o) /\ Len(s) \in Nat
        /\ \A i \in 1..(Len(s) + Len(o)) : (s \o o)[i] = IF i <= Len(s) THEN s[i] ELSE o[i - Len(s)]
    BY <1>1, Cat
  <2> QED BY <1>1, <2>1
<1>3. Len(s) + 1 \in 1..(Len(s) + 1) /\ ~(Len(s) + 1 <= Len(s)) /\ Len(s) + 1 - Len(s) = 1 BY <1>2
<1>4. (s \o o)[Len(s) + 1] = o[1] BY <1>2, <1>3
<1>5. (s \o o)[Len(s \o o)] = x BY <1>1, <1>2, <1>4
<1> QED BY <1>5 DEF o

\* What follows a first element.
LEMMA TailOfCons ==
  ASSUME NEW S, NEW s \in Seq(S), NEW x \in S
  PROVE  <<x>> \o s # <<>> /\ Tail(<<x>> \o s) = s
<1> DEFINE o == <<x>>
           u == o \o s
<1>1. o \in Seq(S) /\ Len(o) = 1 OBVIOUS
<1> HIDE DEF o
<1>2. /\ u \in Seq(S) /\ Len(u) = 1 + Len(s) /\ Len(s) \in Nat
      /\ \A i \in 1..(1 + Len(s)) : u[i] = IF i <= 1 THEN o[i] ELSE s[i - 1]
  <2>1. /\ o \o s \in Seq(S) /\ Len(o \o s) = Len(o) + Len(s) /\ Len(s) \in Nat
        /\ \A i \in 1..(Len(o) + Len(s)) : (o \o s)[i] = IF i <= Len(o) THEN o[i] ELSE s[i - Len(o)]
    BY <1>1, Cat
  <2> QED BY <1>1, <2>1
<1> HIDE DEF u
<1>3. u # <<>> BY <1>2, EmptySeq
<1>4. /\ Tail(u) \in Seq(S) /\ Len(Tail(u)) = Len(u) - 1
      /\ \A i \in 1..(Len(u) - 1) : Tail(u)[i] = u[i + 1]
  BY <1>2, <1>3, HeadTailProperties
<1>5. \A i \in 1..Len(s) : Tail(u)[i] = s[i]
  <2> TAKE i \in 1..Len(s)
  <2>1. i \in 1..(Len(u) - 1) /\ i + 1 \in 1..(1 + Len(s)) /\ ~(i + 1 <= 1) /\ i + 1 - 1 = i BY <1>2
  <2> QED BY <1>2, <1>4, <2>1
<1>6. Len(Tail(u)) = Len(s) BY <1>2, <1>4
<1>7. Tail(u) = s BY <1>4, <1>5, <1>6, Same
<1> QED BY <1>3, <1>7 DEF u, o

\* The next of a node in a chain is in the chain, and never its first node.
LEMMA ChainNext ==
  ASSUME NEW h, Null \notin DOMAIN h, NEW p, NEW s, Chain(h, p, s), NEW x \in ToSet(s)
  PROVE  h[x].next \in ToSet(s) \cup {Null} /\ h[x].next # p
<1>1. Len(s) \in Nat /\ \A i \in 1..Len(s) : s[i] \in DOMAIN h BY ChainLen
<1>2. PICK i \in 1..Len(s) : s[i] = x BY ChainSet
<1>3. s # <<>> /\ p = s[1] /\ 1 \in 1..Len(s)
  <2>1. s # <<>> BY <1>1, <1>2, ChainLen
  <2> QED BY <1>1, <2>1 DEF Chain
<1>4. h[x].next = IF i = Len(s) THEN Null ELSE s[i + 1] BY <1>2 DEF Chain
<1>5. CASE i = Len(s) BY <1>1, <1>3, <1>4, <1>5
<1>6. CASE i # Len(s)
  <2>1. i + 1 \in 1..Len(s) /\ i + 1 # 1 BY <1>1, <1>6
  <2>2. s[i + 1] # s[1] BY <1>3, <2>1, ChainOnce
  <2> QED BY <1>3, <1>4, <1>6, <2>1, <2>2, ChainSet
<1> QED BY <1>5, <1>6

\* Without its first node a chain has the other nodes.
LEMMA ChainRest ==
  ASSUME NEW h, Null \notin DOMAIN h, NEW p, NEW s, Chain(h, p, s), p # Null
  PROVE  /\ p \in DOMAIN h /\ Chain(h, h[p].next, Tail(s)) /\ s = <<p>> \o Tail(s)
         /\ ToSet(Tail(s)) = ToSet(s) \ {p} /\ p \in ToSet(s)
<1>1. s # <<>> BY DEF Chain
<1>2. /\ Chain(h, h[p].next, Tail(s)) /\ s = <<p>> \o Tail(s) /\ Len(Tail(s)) = Len(s) - 1
      /\ p \in DOMAIN h
  BY <1>1, ChainTail
<1> DEFINE t == Tail(s)
<1>3. t \in Seq(DOMAIN h) BY <1>2 DEF Chain
<1>4. Chain(h, h[p].next, t) /\ s = <<p>> \o t BY <1>2
<1> HIDE DEF t
<1>5. ToSet(s) = {p} \cup ToSet(t)
  <2>1. ToSet(<<p>> \o t) = {p} \cup ToSet(t) BY <1>2, <1>3, ToSetEnd
  <2> QED BY <1>4, <2>1
<1>6. p \notin ToSet(t)
  <2> SUFFICES ASSUME p \in ToSet(t) PROVE FALSE OBVIOUS
  <2>1. PICK i \in 1..Len(t) : t[i] = p BY <1>4, ChainSet
  <2>2. Len(s) \in Nat /\ Len(t) = Len(s) - 1 /\ s \in Seq(DOMAIN h) BY <1>2, ChainLen DEF Chain, t
  <2>3. s[i + 1] = t[i] /\ i + 1 \in 1..Len(s) /\ 1 \in 1..Len(s) /\ i + 1 # 1
    <3>1. <<p>> \in Seq(DOMAIN h) /\ Len(<<p>>) = 1 BY <1>2
    <3>2. i + 1 \in 1..(1 + Len(t)) /\ ~(i + 1 <= 1) /\ i + 1 - 1 = i BY <2>2
    <3>3. (<<p>> \o t)[i + 1] = t[i] BY <1>3, <3>1, <3>2, ConcatProperties
    <3> QED BY <1>4, <2>2, <3>3
  <2>4. s[1] = p BY <1>1 DEF Chain
  <2> QED BY <2>1, <2>3, <2>4, ChainOnce
<1> QED BY <1>1, <1>2, <1>5, <1>6 DEF t

\* From a node of a chain on there are only nodes of the chain.
LEMMA ChainWithin ==
  ASSUME NEW h, Null \notin DOMAIN h, NEW p, NEW s, Chain(h, p, s), NEW x \in ToSet(s), NEW t, Chain(h, x, t)
  PROVE  ToSet(t) \subseteq ToSet(s)
<1>1. PICK k \in 1..Len(s) : s[k] = x BY ChainSet
<1> DEFINE u == SubSeq(s, k, Len(s))
<1>2. /\ Chain(h, s[k], u) /\ Len(u) = Len(s) - k + 1
      /\ \A i \in 1..(Len(s) - k + 1) : u[i] = s[k + i - 1]
  BY ChainFrom
<1> HIDE DEF u
<1>3. t = u BY <1>1, <1>2, ChainUnique
<1>4. \A i \in 1..Len(u) : u[i] \in ToSet(s)
  <2> TAKE i \in 1..Len(u)
  <2>1. Len(s) \in Nat BY ChainLen
  <2>2. i \in 1..(Len(s) - k + 1) BY <1>2
  <2>3. k + i - 1 \in 1..Len(s) BY <2>1, <2>2
  <2>4. s[k + i - 1] \in ToSet(s) BY <2>3, ChainSet
  <2> QED BY <1>2, <2>2, <2>4
<1>5. DOMAIN t = 1..Len(u) BY <1>1, <1>3, ChainLen
<1>6. ToSet(t) = {t[i] : i \in 1..Len(u)} BY <1>5 DEF ToSet
<1> QED BY <1>3, <1>4, <1>6

\* Reversing, one element at a time.
LEMMA ReverseOf ==
  ASSUME NEW S, NEW s \in Seq(S)
  PROVE  /\ Reverse(s) \in Seq(S) /\ Len(Reverse(s)) = Len(s) /\ Len(s) \in Nat
         /\ \A i \in 1..Len(s) : Reverse(s)[i] = s[Len(s) - i + 1]
<1>1. Len(s) \in Nat BY LenProperties
<1>2. \A i \in 1..Len(s) : s[Len(s) - i + 1] \in S
  <2> TAKE i \in 1..Len(s)
  <2>1. Len(s) - i + 1 \in 1..Len(s) BY <1>1
  <2> QED BY <2>1, ElementOfSeq
<1>3. Reverse(s) \in [1..Len(s) -> S] BY <1>2 DEF Reverse
<1>4. Reverse(s) \in Seq(S) BY <1>1, <1>3, SeqDef
<1>5. Len(Reverse(s)) \in Nat /\ DOMAIN Reverse(s) = 1..Len(Reverse(s)) BY <1>4, LenProperties
<1>6. 1..Len(Reverse(s)) = 1..Len(s) BY <1>3, <1>5
<1>7. Len(Reverse(s)) = Len(s) BY <1>1, <1>5, <1>6, SameInterval
<1>8. \A i \in 1..Len(s) : Reverse(s)[i] = s[Len(s) - i + 1] BY DEF Reverse
<1> QED BY <1>1, <1>4, <1>7, <1>8

\* Twice reversed is as it was.
LEMMA ReverseTwice == ASSUME NEW S, NEW s \in Seq(S) PROVE Reverse(Reverse(s)) = s
<1> DEFINE r == Reverse(s)
<1>1. /\ r \in Seq(S) /\ Len(r) = Len(s) /\ Len(s) \in Nat
      /\ \A i \in 1..Len(s) : r[i] = s[Len(s) - i + 1]
  BY ReverseOf
<1> HIDE DEF r
<1>2. Reverse(r) \in Seq(S) /\ Len(Reverse(r)) = Len(s) /\ \A i \in 1..Len(s) : Reverse(r)[i] = r[Len(s) - i + 1]
  BY <1>1, ReverseOf
<1>3. \A i \in 1..Len(Reverse(r)) : Reverse(r)[i] = s[i]
  <2> TAKE i \in 1..Len(Reverse(r))
  <2>1. i \in 1..Len(s) BY <1>2
  <2>2. Len(s) - i + 1 \in 1..Len(s) /\ Len(s) - (Len(s) - i + 1) + 1 = i BY <1>1, <2>1
  <2> QED BY <1>1, <1>2, <2>1, <2>2
<1>4. Reverse(r) = s BY <1>2, <1>3, Same
<1> QED BY <1>4 DEF r

\* A first element comes last.
LEMMA ReverseCons ==
  ASSUME NEW S, NEW s \in Seq(S), NEW x \in S
  PROVE  Reverse(<<x>> \o s) = Reverse(s) \o <<x>>
<1> DEFINE o == <<x>>
           u == o \o s
           r == Reverse(s)
           v == r \o o
<1>1. o \in Seq(S) /\ Len(o) = 1 /\ o[1] = x OBVIOUS
<1> HIDE DEF o
<1>2. /\ r \in Seq(S) /\ Len(r) = Len(s) /\ Len(s) \in Nat
      /\ \A i \in 1..Len(s) : r[i] = s[Len(s) - i + 1]
  BY ReverseOf
<1> HIDE DEF r
<1>3. u \in Seq(S) /\ Len(u) = 1 + Len(s)
      /\ \A i \in 1..(1 + Len(s)) : u[i] = IF i <= 1 THEN o[i] ELSE s[i - 1]
  <2>1. o \in Seq(S) BY <1>1
  <2>2. /\ o \o s \in Seq(S) /\ Len(o \o s) = Len(o) + Len(s)
        /\ \A i \in 1..(Len(o) + Len(s)) : (o \o s)[i] = IF i <= Len(o) THEN o[i] ELSE s[i - Len(o)]
    BY <2>1, Cat
  <2> QED BY <1>1, <2>2
<1>4. v \in Seq(S) /\ Len(v) = Len(s) + 1
      /\ \A i \in 1..(Len(s) + 1) : v[i] = IF i <= Len(s) THEN r[i] ELSE o[i - Len(s)]
  <2>1. r \in Seq(S) /\ o \in Seq(S) BY <1>1, <1>2
  <2>2. /\ r \o o \in Seq(S) /\ Len(r \o o) = Len(r) + Len(o)
        /\ \A i \in 1..(Len(r) + Len(o)) : (r \o o)[i] = IF i <= Len(r) THEN r[i] ELSE o[i - Len(r)]
    BY <2>1, Cat
  <2> QED BY <1>1, <1>2, <2>2
<1> HIDE DEF u, v
<1>5. /\ Reverse(u) \in Seq(S) /\ Len(Reverse(u)) = 1 + Len(s)
      /\ \A i \in 1..(1 + Len(s)) : Reverse(u)[i] = u[1 + Len(s) - i + 1]
  BY <1>3, ReverseOf
<1>6. \A i \in 1..Len(Reverse(u)) : Reverse(u)[i] = v[i]
  <2> TAKE i \in 1..Len(Reverse(u))
  <2>1. i \in 1..(1 + Len(s)) /\ i \in 1..(Len(s) + 1) BY <1>2, <1>5
  <2>2. Reverse(u)[i] = u[1 + Len(s) - i + 1] BY <1>5, <2>1
  <2>3. CASE i <= Len(s)
    <3>1. /\ 1 + Len(s) - i + 1 \in 1..(1 + Len(s)) /\ ~(1 + Len(s) - i + 1 <= 1)
          /\ 1 + Len(s) - i + 1 - 1 = Len(s) - i + 1 /\ i \in 1..Len(s)
      BY <1>2, <2>1, <2>3
    <3>2. u[1 + Len(s) - i + 1] = s[Len(s) - i + 1] BY <1>3, <3>1
    <3>3. v[i] = r[i] /\ r[i] = s[Len(s) - i + 1] BY <1>2, <1>4, <2>1, <2>3, <3>1
    <3> QED BY <2>2, <3>2, <3>3
  <2>4. CASE ~(i <= Len(s))
    <3>1. i = Len(s) + 1 /\ 1 + Len(s) - i + 1 = 1 /\ i - Len(s) = 1 /\ 1 \in 1..(1 + Len(s)) /\ 1 <= 1
      BY <1>2, <2>1, <2>4
    <3>2. u[1] = o[1] BY <1>3, <3>1
    <3>3. v[i] = o[1] BY <1>4, <2>1, <2>4, <3>1
    <3> QED BY <2>2, <3>1, <3>2, <3>3
  <2> QED BY <2>3, <2>4
<1>7. Len(Reverse(u)) = Len(v) BY <1>2, <1>4, <1>5
<1>8. Reverse(u) = v BY <1>4, <1>5, <1>6, <1>7, Same
<1> QED BY <1>8 DEF u, v, o, r

\* Two chains without a common node.
Far(s, t) == ToSet(s) \cap ToSet(t) = {}

\* A node q without a successor, at the end of the chain s (ft_lstappend).
LEMMA AppendHeap ==
  ASSUME NEW h, Sound(h), NEW p, NEW s, Chain(h, p, s), p # Null, NEW q \in DOMAIN h, Chain(h, q, <<q>>),
         q \notin ToSet(s), NEW g, Pointed(g, h, s[Len(s)], q)
  PROVE  /\ Sound(g) /\ DOMAIN g = DOMAIN h
         /\ Chain(g, p, s \o <<q>>) /\ ToSet(s \o <<q>>) = ToSet(s) \cup {q}
         /\ Texts(g, s \o <<q>>) = Append(Texts(h, s), h[q].content) /\ h[q].content \in Contents
         /\ \A r, t : Chain(h, r, t) /\ Far(t, s) => Kept(h, g, r, t)
         /\ \A d \in DOMAIN h : /\ g[d].content = h[d].content
                                /\ d \notin ToSet(s) => g[d].next = h[d].next
<1> DEFINE n == s[Len(s)]
           o == <<q>>
<1>1. s # <<>> /\ s \in Seq(DOMAIN h) BY DEF Chain
<1>2. Len(s) \in 1..Len(s)
  <2>1. Len(s) \in Nat /\ (s = <<>> <=> Len(s) = 0) BY ChainLen
  <2> QED BY <1>1, <2>1
<1>3. n \in ToSet(s) /\ n \in DOMAIN h BY <1>2, ChainSet
<1>4. o \in Seq(DOMAIN h) /\ ToSet(o) = {q} /\ Chain(h, q, o) BY ToSetOne
<1>5. n \notin ToSet(o) BY <1>3, <1>4
<1>6. HeapOK(h) BY DEF Sound
<1>7. s \o o \in Seq(DOMAIN h) /\ ToSet(s \o o) = ToSet(s) \cup {q} BY <1>1, ToSetEnd, Cat
<1>8. Texts(h, o) = <<h[q].content>> /\ h[q].content \in Contents BY <1>6, TextsOne
<1> HIDE DEF o
<1>9. Texts(h, s \o o) = Append(Texts(h, s), h[q].content)
  <2>1. Texts(h, s \o o) = Texts(h, s) \o Texts(h, o) BY <1>1, <1>4, <1>6, TextsCat
  <2>2. Texts(h, s) \in Seq(Contents) BY <1>1, <1>6, TextsOf
  <2>3. Append(Texts(h, s), h[q].content) = Texts(h, s) \o <<h[q].content>> BY <1>8, <2>2, AppendIsConcat
  <2> QED BY <1>8, <2>1, <2>3
<1>10. /\ Sound(g) /\ DOMAIN g = DOMAIN h
       /\ \A r, t : Chain(h, r, t) /\ n \notin ToSet(t) => Kept(h, g, r, t)
       /\ \A d \in DOMAIN h : /\ g[d].content = h[d].content
                              /\ g[d].next = IF d = n THEN q ELSE h[d].next
  <2>1. n \in DOMAIN h /\ Chain(h, q, o) /\ n \notin ToSet(o) /\ Pointed(g, h, n, q)
    BY <1>3, <1>4, <1>5
  <2> HIDE DEF n
  <2> QED BY <2>1, LinkedHeap
<1>11. Chain(g, p, s \o o)
  <2>1. n \in DOMAIN h /\ Chain(h, q, o) /\ n \notin ToSet(o) /\ Pointed(g, h, n, q) /\ n = s[Len(s)]
    BY <1>3, <1>4, <1>5
  <2> HIDE DEF n
  <2> QED BY <1>1, <2>1, LinkedLast
<1>12. Texts(g, s \o o) = Texts(h, s \o o)
  <2>1. \A i \in 1..Len(s \o o) : (s \o o)[i] \in DOMAIN h BY <1>7, ElementOfSeq
  <2>2. DOMAIN (s \o o) = 1..Len(s \o o) BY <1>7, LenProperties
  <2> QED BY <1>10, <2>1, <2>2 DEF Texts
<1>13. /\ \A r, t : Chain(h, r, t) /\ Far(t, s) => Kept(h, g, r, t)
       /\ \A d \in DOMAIN h : d \notin ToSet(s) => g[d].next = h[d].next
  <2> HIDE DEF n
  <2> QED BY <1>3, <1>10 DEF Far
<1> QED BY <1>7, <1>8, <1>9, <1>10, <1>11, <1>12, <1>13 DEF o

\* g is the heap h with a new node c at the end of the chain s from p, or the first
\* node of an empty one (ft_lstmap, new_elem); q is where the chain begins then.
Extended(g, q, h, p, s, c, x) ==
  IF p = Null THEN g = Made(h, c, x) /\ q = c
              ELSE Pointed(g, Made(h, c, x), s[Len(s)], c) /\ q = p

\* The longer chain.
Longer(e, s, c) == e = s \o <<c>>

\* The heap then, with e for the longer chain.
Grown(g, q, h, s, e, c, x) ==
  /\ Sound(g) /\ DOMAIN g = DOMAIN h \cup {c}
  /\ Chain(g, q, e) /\ ToSet(e) = ToSet(s) \cup {c} /\ Texts(g, e) = Append(Texts(h, s), x)
  /\ \A r, t : Chain(h, r, t) /\ Far(t, s) => Kept(h, g, r, t)
  /\ \A d \in DOMAIN h : d \notin ToSet(s) => g[d].next = h[d].next

\* A word or a copy is one more content at the end of the chain.
LEMMA ExtendedHeap ==
  ASSUME NEW h, Sound(h), NEW p, NEW s, Chain(h, p, s), NEW c \in Cells \ DOMAIN h, NEW x \in Contents,
         NEW g, NEW q, Extended(g, q, h, p, s, c, x), NEW e, Longer(e, s, c)
  PROVE  Grown(g, q, h, s, e, c, x)
<1> DEFINE m == Made(h, c, x)
           o == <<c>>
<1>1. /\ Sound(m) /\ DOMAIN m = DOMAIN h \cup {c}
      /\ Chain(m, c, o) /\ m[c].content = x /\ m[c].next = Null
      /\ \A r, t : Chain(h, r, t) => Kept(h, m, r, t)
      /\ \A d \in DOMAIN h : m[d] = h[d]
  <2>1. m = Made(h, c, x) OBVIOUS
  <2> HIDE DEF m
  <2>2. Fresh(m, h, c, x) BY <2>1, MadeHeap
  <2> QED BY <2>2 DEF Fresh
<1>2. Null \notin DOMAIN h /\ ToSet(s) \subseteq DOMAIN h BY ChainSet DEF Sound, HeapOK
<1>3. Kept(h, m, p, s) BY <1>1
<1>4. c \notin ToSet(s) BY <1>2
<1>5. CASE p = Null
  <2>1. s = <<>> BY <1>2, <1>5, ChainSet
  <2>2. g = m /\ q = c BY <1>5 DEF Extended
  <2>3. HeapOK(m) /\ c \in DOMAIN m BY <1>1 DEF Sound
  <2>4. s \o o = o
    <3>1. o \in Seq(Cells) OBVIOUS
    <3> QED BY <2>1, <3>1, ConcatEmptySeq
  <2>5. ToSet(o) = {c} /\ ToSet(s) = {} BY <2>1, ToSetOne
  <2>6. Texts(m, o) = <<x>> BY <1>1, <2>3, TextsOne
  <2>7. Append(Texts(h, s), x) = <<x>>
    <3>1. Texts(h, s) = <<>> BY <2>1 DEF Texts
    <3>2. <<>> \in Seq(Contents) BY EmptySeq
    <3>3. Append(<<>>, x) = <<>> \o <<x>> BY <3>2, AppendIsConcat
    <3>4. <<x>> \in Seq(Contents) OBVIOUS
    <3>5. <<>> \o <<x>> = <<x>> BY <3>4, ConcatEmptySeq
    <3> QED BY <3>1, <3>3, <3>5
  <2> HIDE DEF m
  <2>8. \A d \in DOMAIN h : d \notin ToSet(s) => g[d].next = h[d].next BY <1>1, <2>2
  <2>9. e = o BY <2>4 DEF Longer
  <2> HIDE DEF o
  <2>10. \A r, t : Chain(h, r, t) /\ Far(t, s) => Kept(h, g, r, t) BY <1>1, <2>2
  <2>11. Texts(g, e) = Append(Texts(h, s), x) BY <2>2, <2>6, <2>7, <2>9
  <2> QED BY <1>1, <2>2, <2>5, <2>8, <2>9, <2>10, <2>11 DEF Grown
<1>6. CASE p # Null
  <2>1. Pointed(g, m, s[Len(s)], c) /\ q = p BY <1>6 DEF Extended
  <2>2. Chain(m, p, s) /\ Texts(m, s) = Texts(h, s) BY <1>3 DEF Kept
  <2> HIDE DEF m
  <2>3. /\ Sound(g) /\ DOMAIN g = DOMAIN m
        /\ Chain(g, p, s \o o) /\ ToSet(s \o o) = ToSet(s) \cup {c}
        /\ Texts(g, s \o o) = Append(Texts(m, s), m[c].content)
        /\ \A r, t : Chain(m, r, t) /\ Far(t, s) => Kept(m, g, r, t)
        /\ \A d \in DOMAIN m : d \notin ToSet(s) => g[d].next = m[d].next
    BY <1>1, <1>4, <1>6, <2>1, <2>2, AppendHeap
  <2>4. \A r, t : Chain(h, r, t) /\ Far(t, s) => Kept(h, g, r, t)
    <3> TAKE r, t
    <3> HAVE Chain(h, r, t) /\ Far(t, s)
    <3>1. Chain(m, r, t) /\ Texts(m, t) = Texts(h, t) BY <1>1 DEF Kept
    <3> QED BY <2>3, <3>1 DEF Kept
  <2>5. \A d \in DOMAIN h : d \notin ToSet(s) => g[d].next = h[d].next BY <1>1, <2>3
  <2>6. e = s \o o BY DEF Longer
  <2> HIDE DEF o
  <2> QED BY <1>1, <2>1, <2>2, <2>3, <2>4, <2>5, <2>6 DEF Grown
<1> QED BY <1>5, <1>6

-----------------------------------------------------------------------------
(***************************************************************************)
(* The invariant.  At any time the nodes are those of at most four chains  *)
(* that share none, and the lost ones, which point to lost ones or         *)
(* nowhere.  The chains are the list (of ft_lstrev what it has turned      *)
(* round, of ft_strsplit_lst what it has made), what ft_lstrev has still   *)
(* to turn, the caller's node and the copy.  Only a later ft_strsplit_lst  *)
(* starts from a pointer that may lead anywhere, and there the steps end.  *)
(***************************************************************************)
Main == CASE at = "rev" -> prev [] at = "split" -> ptr [] OTHER -> list
Rest == IF at = "rev" THEN ptr ELSE Null

Shares(h, L, A, B, C, D) ==
  /\ DOMAIN h = L \cup A \cup B \cup C \cup D
  /\ L \cap (A \cup B \cup C \cup D) = {} /\ A \cap (B \cup C \cup D) = {}
  /\ B \cap (C \cup D) = {} /\ C \cap D = {}
  /\ \A x \in L : h[x].next \in L \cup {Null}

Held == Shares(heap, lost, On(Main), On(Rest), On(new), On(copy))

Running ==
  /\ at \in {"caller", "del"} => ptr = Null
  /\ at \in {"caller", "del", "stale"} => prev = Null
  /\ at = "stale" => list = Null /\ ~first
  /\ at = "rev" => list \in On(prev) \cup On(ptr)
  /\ at = "map" => /\ list # Null /\ ptr \in On(list) \cup {Null}
                   /\ IF copy = Null THEN prev = Null ELSE prev = Path(copy)[Len(Path(copy))]
                   /\ ContentsOf(copy) \o ContentsOf(ptr) = ContentsOf(list)
  /\ at = "split" => list = Null /\ prev = Null /\ (first => ptr = Null)
  /\ new # Null => heap[new].next = Null

ListTypeOK ==
  /\ {list, new, copy, prev} \subseteq DOMAIN heap \cup {Null}
  /\ at # "stale" => ptr \in DOMAIN heap \cup {Null}
  /\ at \in {"caller", "del", "rev", "map", "split", "stale"}
  /\ words \in Seq(Contents)

ListInv == Sound(heap) /\ ListTypeOK /\ Held /\ Running

\* What a step may do to the caller's lists.
Simulates == Abstract!Next \/ UNCHANGED <<Seen, Copied>>

-----------------------------------------------------------------------------

\* In a state of the invariant every pointer has its nodes as a chain.
LEMMA Ground ==
  ASSUME ListInv
  PROVE  /\ Sound(heap) /\ HeapOK(heap) /\ Null \notin Cells /\ Null \notin DOMAIN heap
         /\ DOMAIN heap \subseteq Cells
         /\ {list, new, copy, prev} \subseteq DOMAIN heap \cup {Null}
         /\ at # "stale" => ptr \in DOMAIN heap \cup {Null}
         /\ \A p \in DOMAIN heap \cup {Null} : /\ Chain(heap, p, Path(p))
                                              /\ On(p) = ToSet(Path(p))
                                              /\ ContentsOf(p) = Texts(heap, Path(p))
         /\ Path(Null) = <<>> /\ On(Null) = {} /\ ContentsOf(Null) = <<>>
<1>1. /\ Sound(heap) /\ HeapOK(heap) /\ Null \notin Cells /\ Null \notin DOMAIN heap
      /\ DOMAIN heap \subseteq Cells
      /\ {list, new, copy, prev} \subseteq DOMAIN heap \cup {Null}
      /\ at # "stale" => ptr \in DOMAIN heap \cup {Null}
  BY DEF ListInv, ListTypeOK, Sound, HeapOK
<1>2. \A p \in DOMAIN heap \cup {Null} : /\ Chain(heap, p, Path(p))
                                        /\ On(p) = ToSet(Path(p))
                                        /\ ContentsOf(p) = Texts(heap, Path(p))
  BY <1>1, NodesChain DEF Path, On, ContentsOf, Texts
<1>3. Path(Null) = <<>> BY <1>1, <1>2, ChainSet
<1>4. On(Null) = {} BY <1>3, ToSetOne DEF On
<1>5. ContentsOf(Null) = <<>>
  <2>1. ContentsOf(Null) = Texts(heap, <<>>) BY <1>2, <1>3
  <2>2. <<>> \in Seq(DOMAIN heap) /\ Len(<<>>) = 0 BY EmptySeq
  <2>3. Texts(heap, <<>>) \in Seq(Contents) /\ Len(Texts(heap, <<>>)) = 0 BY <1>1, <2>2, TextsOf
  <2> QED BY <2>1, <2>3, EmptySeq
<1> QED BY <1>1, <1>2, <1>3, <1>4, <1>5

\* The state between two calls, or between two turns of ft_lstdel.
LEMMA Quiet ==
  ASSUME ListInv, at \in {"caller", "del"}
  PROVE  /\ Shares(heap, lost, On(list), {}, On(new), On(copy))
         /\ ptr = Null /\ prev = Null /\ words \in Seq(Contents)
         /\ Seen = Texts(heap, Path(list)) /\ Copied = Texts(heap, Path(copy))
         /\ new # Null => heap[new].next = Null /\ Path(new) = <<new>>
<1>1. Main = list /\ Rest = Null BY DEF Main, Rest
<1>2. Shares(heap, lost, On(list), {}, On(new), On(copy)) BY <1>1, Ground DEF ListInv, Held
<1>3. ptr = Null /\ prev = Null /\ (new # Null => heap[new].next = Null) BY DEF ListInv, Running
<1>4. Seen = Texts(heap, Path(list)) /\ Copied = Texts(heap, Path(copy)) BY Ground DEF Seen, Copied
<1>5. ASSUME new # Null PROVE Path(new) = <<new>>
  <2>1. Chain(heap, new, Path(new)) /\ new \in DOMAIN heap /\ Null \notin DOMAIN heap BY <1>5, Ground
  <2>2. Chain(heap, new, <<new>> \o <<>>)
    <3>1. Chain(heap, heap[new].next, <<>>) BY <1>3, <1>5, ChainOfNull
    <3> QED BY <2>1, <3>1, ChainCons
  <2>3. <<new>> \o <<>> = <<new>>
    <3>1. <<new>> \in Seq(DOMAIN heap) BY <2>1
    <3> QED BY <3>1, ConcatEmptySeq
  <2> QED BY <2>1, <2>2, <2>3, ChainUnique
<1> QED BY <1>2, <1>3, <1>4, <1>5 DEF ListInv, ListTypeOK

\* To show that the next state is such a state, and what the caller sees then.
LEMMA QuietNext ==
  ASSUME at' \in {"caller", "del"}, Sound(heap'), words' \in Seq(Contents),
         ptr' = Null, prev' = Null, {list', new', copy'} \subseteq DOMAIN heap' \cup {Null},
         NEW A, NEW C, NEW D,
         Chain(heap', list', A), Chain(heap', new', C), Chain(heap', copy', D),
         Shares(heap', lost', ToSet(A), {}, ToSet(C), ToSet(D)),
         new' # Null => heap'[new'].next = Null
  PROVE  ListInv' /\ Seen' = Texts(heap', A) /\ Copied' = Texts(heap', D)
<1>1. /\ Nodes(heap', list') = A /\ Nodes(heap', new') = C /\ Nodes(heap', copy') = D
      /\ Nodes(heap', Null) = <<>>
  BY NodesOfChain, ChainOfNull
<1>2. /\ Path(list)' = A /\ Path(new)' = C /\ Path(copy)' = D BY <1>1 DEF Path
<1>3. Main' = list' /\ Rest' = Null BY DEF Main, Rest
<1>4. On(Main)' = ToSet(A) /\ On(Rest)' = {} /\ On(new)' = ToSet(C) /\ On(copy)' = ToSet(D)
  BY <1>1, <1>3, ToSetOne DEF On, Path
<1>5. Held' BY <1>4 DEF Held
<1>6. Running' BY DEF Running
<1>7. ListTypeOK' BY DEF ListTypeOK
<1>8. Seen' = Texts(heap', A) /\ Copied' = Texts(heap', D) BY <1>1 DEF Seen, Copied, ContentsOf, Texts, Path
<1> QED BY <1>5, <1>6, <1>7, <1>8 DEF ListInv

-----------------------------------------------------------------------------
(* Every step keeps the invariant and is a step of ListSpec, or none. *)

\* ft_lstnew.
LEMMA NewKeeps ==
  ASSUME ListInv, NEW x \in Contents, New(x)
  PROVE  ListInv' /\ Simulates
<1> DEFINE A == Path(list)
           D == Path(copy)
<1>1. /\ at = "caller" /\ new = Null /\ UNCHANGED <<list, copy, at, ptr, prev, words>> /\ UNCHANGED lost
  BY DEF New
<1>2. PICK c \in Cells \ DOMAIN heap : heap' = Made(heap, c, x) /\ new' = c BY DEF New, Allocate
<1>3. /\ Sound(heap) /\ Null \notin Cells /\ {list, copy} \subseteq DOMAIN heap \cup {Null}
      /\ Chain(heap, list, A) /\ Chain(heap, copy, D) /\ On(Null) = {}
      /\ On(list) = ToSet(A) /\ On(copy) = ToSet(D)
  BY Ground
<1>4. /\ Shares(heap, lost, ToSet(A), {}, {}, ToSet(D)) /\ ptr = Null /\ prev = Null /\ words \in Seq(Contents)
      /\ Seen = Texts(heap, A) /\ Copied = Texts(heap, D)
  BY <1>1, <1>3, Quiet
<1>5. /\ Sound(heap') /\ DOMAIN heap' = DOMAIN heap \cup {c}
      /\ Chain(heap', c, <<c>>) /\ heap'[c].content = x /\ heap'[c].next = Null
      /\ \A p, s : Chain(heap, p, s) => Kept(heap, heap', p, s)
      /\ \A d \in DOMAIN heap : heap'[d] = heap[d]
  <2>1. Fresh(heap', heap, c, x) BY <1>2, <1>3, MadeHeap
  <2> QED BY <2>1 DEF Fresh
<1>6. /\ Chain(heap', list, A) /\ Texts(heap', A) = Texts(heap, A)
      /\ Chain(heap', copy, D) /\ Texts(heap', D) = Texts(heap, D)
  BY <1>3, <1>5 DEF Kept
<1> HIDE DEF A, D
<1>7. Shares(heap', lost', ToSet(A), {}, ToSet(<<c>>), ToSet(D))
  BY <1>1, <1>4, <1>5, ToSetOne DEF Shares
<1>8. ListInv' /\ Seen' = Texts(heap', A) /\ Copied' = Texts(heap', D)
  BY <1>1, <1>2, <1>3, <1>4, <1>5, <1>6, <1>7, QuietNext
<1> QED BY <1>4, <1>6, <1>8 DEF Simulates

\* ft_lstadd: one more content at the front.
LEMMA AddKeeps ==
  ASSUME ListInv, Add
  PROVE  ListInv' /\ Simulates
<1> DEFINE A == Path(list)
           D == Path(copy)
<1>1. /\ at = "caller" /\ new # Null /\ heap' = [heap EXCEPT ![new].next = list] /\ list' = new /\ new' = Null
      /\ UNCHANGED <<copy, at, ptr, prev, words, lost>>
  BY DEF Add
<1>2. /\ Sound(heap) /\ HeapOK(heap) /\ Null \notin Cells /\ Null \notin DOMAIN heap
      /\ {list, copy} \subseteq DOMAIN heap \cup {Null} /\ new \in DOMAIN heap
      /\ Chain(heap, list, A) /\ Chain(heap, copy, D)
      /\ On(list) = ToSet(A) /\ On(copy) = ToSet(D) /\ On(new) = ToSet(Path(new))
  BY <1>1, Ground
<1>3. /\ Shares(heap, lost, ToSet(A), {}, {new}, ToSet(D)) /\ ptr = Null /\ prev = Null /\ words \in Seq(Contents)
      /\ Seen = Texts(heap, A) /\ Copied = Texts(heap, D)
  BY <1>1, <1>2, Quiet, ToSetOne
<1> HIDE DEF A, D
<1>4. new \notin ToSet(A) /\ new \notin ToSet(D) /\ new \notin lost BY <1>3 DEF Shares
<1>5. /\ Sound(heap') /\ DOMAIN heap' = DOMAIN heap
      /\ Kept(heap, heap', list, A) /\ Kept(heap, heap', copy, D)
      /\ Chain(heap', new, <<new>> \o A)
      /\ \A d \in DOMAIN heap : /\ heap'[d].content = heap[d].content
                                /\ d # new => heap'[d].next = heap[d].next
  <2>1. /\ Sound(heap') /\ DOMAIN heap' = DOMAIN heap
        /\ \A p, s : Chain(heap, p, s) /\ new \notin ToSet(s) => Kept(heap, heap', p, s)
        /\ \A d \in DOMAIN heap : /\ heap'[d].content = heap[d].content
                                  /\ heap'[d].next = IF d = new THEN list ELSE heap[d].next
    <3>1. /\ Sound(heap) /\ new \in DOMAIN heap /\ Chain(heap, list, A)
          /\ new \notin ToSet(A) /\ Pointed(heap', heap, new, list)
      BY <1>1, <1>2, <1>4 DEF Pointed
    <3> QED BY <3>1, LinkedHeap
  <2>2. Chain(heap', new, <<new>> \o A) BY <1>1, <1>2, <1>4, LinkedFirst DEF Pointed
  <2> QED BY <1>2, <1>4, <2>1, <2>2
<1>6. Chain(heap', Null, <<>>) BY ChainOfNull
<1>7. <<new>> \in Seq(DOMAIN heap) /\ A \in Seq(DOMAIN heap) BY <1>2 DEF Chain
<1>8. ToSet(<<new>> \o A) = {new} \cup ToSet(A) BY <1>2, <1>7, ToSetEnd
<1>9. Shares(heap', lost', ToSet(<<new>> \o A), {}, ToSet(<<>>), ToSet(D))
  BY <1>1, <1>3, <1>4, <1>5, <1>8, ToSetOne DEF Shares
<1>10. ListInv' /\ Seen' = Texts(heap', <<new>> \o A) /\ Copied' = Texts(heap', D)
  BY <1>1, <1>2, <1>3, <1>5, <1>6, <1>9, QuietNext DEF Kept
<1>11. Texts(heap', <<new>> \o A) = <<heap[new].content>> \o Texts(heap, A) /\ heap[new].content \in Contents
  <2>1. HeapOK(heap') /\ new \in DOMAIN heap' BY <1>2, <1>5 DEF Sound
  <2>2. Texts(heap', <<new>> \o A) = Texts(heap', <<new>>) \o Texts(heap', A) BY <1>5, <1>7, <2>1, TextsCat
  <2>3. Texts(heap', <<new>>) = <<heap'[new].content>> /\ heap'[new].content \in Contents BY <2>1, TextsOne
  <2> QED BY <1>2, <1>5, <2>2, <2>3 DEF Kept
<1>12. Seen' = <<heap[new].content>> \o Seen /\ Copied' = Copied BY <1>3, <1>5, <1>10, <1>11 DEF Kept
<1> QED BY <1>10, <1>11, <1>12 DEF Simulates, Abstract!Next, Abstract!Change

\* ft_lstappend: one more at the end.
LEMMA AppendNewKeeps ==
  ASSUME ListInv, AppendNew
  PROVE  ListInv' /\ Simulates
<1> DEFINE A == Path(list)
           D == Path(copy)
<1>1. /\ at = "caller" /\ new # Null /\ list # Null /\ Pointed(heap', heap, A[Len(A)], new) /\ new' = Null
      /\ UNCHANGED <<list, copy, at, ptr, prev, words, lost>>
  BY DEF AppendNew, Linked, Last, Pointed
<1>2. /\ Sound(heap) /\ Null \notin Cells
      /\ {list, copy} \subseteq DOMAIN heap \cup {Null} /\ new \in DOMAIN heap
      /\ Chain(heap, list, A) /\ Chain(heap, copy, D) /\ Chain(heap, new, Path(new))
      /\ On(list) = ToSet(A) /\ On(copy) = ToSet(D) /\ On(new) = ToSet(Path(new))
  BY <1>1, Ground
<1>3. /\ Shares(heap, lost, ToSet(A), {}, {new}, ToSet(D)) /\ ptr = Null /\ prev = Null /\ words \in Seq(Contents)
      /\ Seen = Texts(heap, A) /\ Copied = Texts(heap, D) /\ Chain(heap, new, <<new>>)
  BY <1>1, <1>2, Quiet, ToSetOne
<1> HIDE DEF A, D
<1>4. /\ Sound(heap') /\ DOMAIN heap' = DOMAIN heap
      /\ Chain(heap', list, A \o <<new>>) /\ ToSet(A \o <<new>>) = ToSet(A) \cup {new}
      /\ Texts(heap', A \o <<new>>) = Append(Texts(heap, A), heap[new].content) /\ heap[new].content \in Contents
      /\ \A r, t : Chain(heap, r, t) /\ Far(t, A) => Kept(heap, heap', r, t)
      /\ \A d \in DOMAIN heap : d \notin ToSet(A) => heap'[d].next = heap[d].next
  <2>1. new \notin ToSet(A) BY <1>3 DEF Shares
  <2> QED BY <1>1, <1>2, <1>3, <2>1, AppendHeap
<1>5. Kept(heap, heap', copy, D) BY <1>2, <1>3, <1>4 DEF Shares, Far
<1>6. Chain(heap', Null, <<>>) BY ChainOfNull
<1>7. Shares(heap', lost', ToSet(A \o <<new>>), {}, ToSet(<<>>), ToSet(D))
  BY <1>1, <1>3, <1>4, ToSetOne DEF Shares
<1>8. ListInv' /\ Seen' = Texts(heap', A \o <<new>>) /\ Copied' = Texts(heap', D)
  BY <1>1, <1>2, <1>3, <1>4, <1>5, <1>6, <1>7, QuietNext DEF Kept
<1>9. Seen' = Append(Seen, heap[new].content) /\ Copied' = Copied BY <1>3, <1>4, <1>5, <1>8 DEF Kept
<1> QED BY <1>4, <1>8, <1>9 DEF Simulates, Abstract!Next, Abstract!Change

\* ft_lstiter: another content in every node of the list.
LEMMA IterKeeps ==
  ASSUME ListInv, NEW x \in Contents, Iter(x)
  PROVE  ListInv' /\ Simulates
<1> DEFINE A == Path(list)
           C == Path(new)
           D == Path(copy)
<1>1. /\ at = "caller" /\ Filled(heap', heap, ToSet(A), x)
      /\ UNCHANGED <<list, new, copy, at, ptr, prev, words, lost>>
  BY DEF Iter, Filled, On
<1>2. /\ Sound(heap) /\ Null \notin Cells
      /\ {list, new, copy} \subseteq DOMAIN heap \cup {Null}
      /\ Chain(heap, list, A) /\ Chain(heap, copy, D) /\ Chain(heap, new, C)
      /\ On(list) = ToSet(A) /\ On(copy) = ToSet(D) /\ On(new) = ToSet(C)
  BY Ground
<1>3. /\ Shares(heap, lost, ToSet(A), {}, ToSet(C), ToSet(D)) /\ ptr = Null /\ prev = Null
      /\ words \in Seq(Contents) /\ (new # Null => heap[new].next = Null)
      /\ Seen = Texts(heap, A) /\ Copied = Texts(heap, D)
  BY <1>1, <1>2, Quiet
<1> HIDE DEF A, C, D
<1>4. /\ Sound(heap') /\ DOMAIN heap' = DOMAIN heap
      /\ \A p, s : Chain(heap, p, s) => Chain(heap', p, s)
      /\ \A d \in DOMAIN heap : /\ heap'[d].next = heap[d].next
                                /\ d \in ToSet(A) => heap'[d].content = x
                                /\ d \notin ToSet(A) => heap'[d] = heap[d]
  BY <1>1, <1>2, IterHeap
<1>5. /\ Chain(heap', list, A) /\ Chain(heap', new, C) /\ Kept(heap, heap', copy, D)
  <2>1. \A y \in ToSet(D) : y \in DOMAIN heap' /\ heap'[y] = heap[y] BY <1>2, <1>3, <1>4 DEF Shares
  <2>2. Kept(heap, heap', copy, D) BY <1>2, <2>1, KeptIf
  <2> QED BY <1>2, <1>4, <2>2
<1>6. Shares(heap', lost', ToSet(A), {}, ToSet(C), ToSet(D)) BY <1>1, <1>3, <1>4 DEF Shares
<1>7. ListInv' /\ Seen' = Texts(heap', A) /\ Copied' = Texts(heap', D)
  BY <1>1, <1>2, <1>3, <1>4, <1>5, <1>6, QuietNext DEF Kept
<1>8. Texts(heap', A) = [i \in DOMAIN Texts(heap, A) |-> x]
  <2>1. \A i \in DOMAIN A : heap'[A[i]].content = x
    <3>1. DOMAIN A = 1..Len(A) /\ \A i \in 1..Len(A) : A[i] \in DOMAIN heap BY <1>2, ChainLen
    <3>2. \A i \in 1..Len(A) : A[i] \in ToSet(A) BY <1>2, ChainSet
    <3> QED BY <1>4, <3>1, <3>2
  <2> QED BY <2>1 DEF Texts
<1>9. Seen' = [i \in DOMAIN Seen |-> x] /\ Copied' = Copied BY <1>3, <1>5, <1>7, <1>8 DEF Kept
<1> QED BY <1>7, <1>9 DEF Simulates, Abstract!Next, Abstract!Change

\* Nothing points to the first node of the list.
LEMMA HeadFree ==
  ASSUME NEW h, Sound(h), NEW p, NEW a, Chain(h, p, a), p # Null,
         NEW q, NEW c, Chain(h, q, c), NEW r, NEW d, Chain(h, r, d),
         NEW L, Shares(h, L, ToSet(a), {}, ToSet(c), ToSet(d))
  PROVE  \A x \in DOMAIN h : h[x].next # p
<1>1. Null \notin DOMAIN h BY DEF Sound, HeapOK
<1>2. p \in ToSet(a) BY ChainSet
<1> TAKE x \in DOMAIN h
<1>3. CASE x \in L BY <1>2, <1>3 DEF Shares
<1>4. CASE x \in ToSet(a) BY <1>1, <1>4, ChainNext
<1>5. CASE x \in ToSet(c)
  <2>1. h[x].next \in ToSet(c) \cup {Null} BY <1>1, <1>5, ChainNext
  <2> QED BY <1>2, <2>1 DEF Shares
<1>6. CASE x \in ToSet(d)
  <2>1. h[x].next \in ToSet(d) \cup {Null} BY <1>1, <1>6, ChainNext
  <2> QED BY <1>2, <2>1 DEF Shares
<1> QED BY <1>3, <1>4, <1>5, <1>6 DEF Shares

\* ft_lstdelone: the list is empty, and what followed its first node is lost.
LEMMA DelOneKeeps ==
  ASSUME ListInv, DelOne
  PROVE  ListInv' /\ Simulates
<1> DEFINE A == Path(list)
           C == Path(new)
           D == Path(copy)
<1>1. /\ at = "caller" /\ list # Null /\ lost' = lost \cup (ToSet(A) \ {list}) /\ list' = Null
      /\ heap' = [d \in DOMAIN heap \ {list} |-> heap[d]]
      /\ UNCHANGED <<new, copy, at, ptr, prev, words>>
  BY DEF DelOne, Free, On
<1>2. /\ Sound(heap) /\ Null \notin Cells /\ Null \notin DOMAIN heap
      /\ {new, copy} \subseteq DOMAIN heap \cup {Null} /\ list \in DOMAIN heap
      /\ Chain(heap, list, A) /\ Chain(heap, copy, D) /\ Chain(heap, new, C)
      /\ On(list) = ToSet(A) /\ On(copy) = ToSet(D) /\ On(new) = ToSet(C)
  BY <1>1, Ground
<1>3. /\ Shares(heap, lost, ToSet(A), {}, ToSet(C), ToSet(D)) /\ ptr = Null /\ prev = Null
      /\ words \in Seq(Contents) /\ (new # Null => heap[new].next = Null)
      /\ Seen = Texts(heap, A) /\ Copied = Texts(heap, D)
  BY <1>1, <1>2, Quiet
<1> HIDE DEF A, C, D
<1>4. /\ Sound(heap') /\ DOMAIN heap' = DOMAIN heap \ {list}
      /\ \A p, s : Chain(heap, p, s) /\ list \notin ToSet(s) => Kept(heap, heap', p, s)
      /\ \A d \in DOMAIN heap \ {list} : heap'[d] = heap[d]
  <2>1. \A d \in DOMAIN heap : heap[d].next # list BY <1>1, <1>2, <1>3, HeadFree
  <2> QED BY <1>1, <1>2, <2>1, FreedHeap
<1>5. list \in ToSet(A) BY <1>1, <1>2, ChainSet
<1>6. list \notin ToSet(C) /\ list \notin ToSet(D) /\ list \notin lost BY <1>3, <1>5 DEF Shares
<1>7. Kept(heap, heap', new, C) /\ Kept(heap, heap', copy, D) BY <1>2, <1>4, <1>6
<1>8. list # new /\ list # copy
  <2>1. new # Null => new \in ToSet(C) BY <1>2, ChainSet
  <2>2. copy # Null => copy \in ToSet(D) BY <1>2, ChainSet
  <2> QED BY <1>1, <1>6, <2>1, <2>2
<1>9. {list', new', copy'} \subseteq DOMAIN heap' \cup {Null} BY <1>1, <1>2, <1>4, <1>8
<1>10. Shares(heap', lost', ToSet(<<>>), {}, ToSet(C), ToSet(D))
  <2>1. DOMAIN heap' = lost' \cup ToSet(C) \cup ToSet(D) BY <1>1, <1>3, <1>4, <1>5, <1>6 DEF Shares
  <2>2. lost' \cap (ToSet(C) \cup ToSet(D)) = {} /\ ToSet(C) \cap ToSet(D) = {} BY <1>1, <1>3 DEF Shares
  <2>3. ASSUME NEW x \in lost' PROVE heap'[x].next \in lost' \cup {Null}
    <3>1. x \in DOMAIN heap \ {list} BY <1>4, <2>1
    <3>2. heap'[x].next = heap[x].next BY <1>4, <3>1
    <3>3. CASE x \in lost BY <1>1, <1>3, <3>2, <3>3 DEF Shares
    <3>4. CASE x \in ToSet(A)
      <4>1. heap[x].next \in ToSet(A) \cup {Null} /\ heap[x].next # list BY <1>2, <3>4, ChainNext
      <4> QED BY <1>1, <3>2, <4>1
    <3> QED BY <1>1, <3>3, <3>4
  <2> QED BY <2>1, <2>2, <2>3, ToSetOne DEF Shares
<1>11. Chain(heap', Null, <<>>) BY ChainOfNull
<1>12. new' # Null => heap'[new'].next = Null BY <1>1, <1>2, <1>3, <1>4, <1>8
<1>13. ListInv' /\ Seen' = Texts(heap', <<>>) /\ Copied' = Texts(heap', D)
  BY <1>1, <1>3, <1>4, <1>7, <1>9, <1>10, <1>11, <1>12, QuietNext DEF Kept
<1>14. Texts(heap', <<>>) = <<>> BY DEF Texts
<1>15. Seen' = <<>> /\ Copied' = Copied BY <1>3, <1>7, <1>13, <1>14 DEF Kept
<1> QED BY <1>13, <1>15 DEF Simulates, Abstract!Next, Abstract!Change

\* The caller goes on with the copy.
LEMMA TakeCopyKeeps ==
  ASSUME ListInv, TakeCopy
  PROVE  ListInv' /\ Simulates
<1> DEFINE C == Path(new)
           D == Path(copy)
<1>1. /\ at = "caller" /\ list = Null /\ list' = copy /\ copy' = Null
      /\ UNCHANGED <<heap, new, at, ptr, prev, words, lost>>
  BY DEF TakeCopy
<1>2. /\ Sound(heap) /\ {new, copy} \subseteq DOMAIN heap \cup {Null}
      /\ Chain(heap, copy, D) /\ Chain(heap, new, C) /\ On(list) = {}
      /\ On(copy) = ToSet(D) /\ On(new) = ToSet(C)
  BY <1>1, Ground
<1>3. /\ Shares(heap, lost, {}, {}, ToSet(C), ToSet(D)) /\ ptr = Null /\ prev = Null
      /\ words \in Seq(Contents) /\ (new # Null => heap[new].next = Null)
      /\ Copied = Texts(heap, D)
  BY <1>1, <1>2, Quiet
<1> HIDE DEF C, D
<1>4. Shares(heap', lost', ToSet(D), {}, ToSet(C), ToSet(<<>>)) BY <1>1, <1>3, ToSetOne DEF Shares
<1>5. Chain(heap', Null, <<>>) BY ChainOfNull
<1>6. ListInv' /\ Seen' = Texts(heap', D) /\ Copied' = Texts(heap', <<>>)
  BY <1>1, <1>2, <1>3, <1>4, <1>5, QuietNext
<1>7. Texts(heap', <<>>) = <<>> BY DEF Texts
<1>8. Seen' = Copied /\ Copied' = <<>> BY <1>1, <1>3, <1>6, <1>7
<1> QED BY <1>6, <1>8 DEF Simulates, Abstract!Next

\* A turn of ft_lstdel: the first content goes.
LEMMA DelStepKeeps ==
  ASSUME ListInv, DelStep
  PROVE  ListInv' /\ Simulates
<1> DEFINE A == Path(list)
           C == Path(new)
           D == Path(copy)
<1>1. /\ at \in {"caller", "del"} /\ at' \in {"caller", "del"} /\ list # Null /\ list' = heap[list].next
      /\ heap' = [d \in DOMAIN heap \ {list} |-> heap[d]]
      /\ UNCHANGED <<new, copy, ptr, prev, words, lost>>
  BY DEF DelStep, Free
<1>2. /\ Sound(heap) /\ HeapOK(heap) /\ Null \notin Cells /\ Null \notin DOMAIN heap
      /\ {new, copy} \subseteq DOMAIN heap \cup {Null} /\ list \in DOMAIN heap
      /\ Chain(heap, list, A) /\ Chain(heap, copy, D) /\ Chain(heap, new, C)
      /\ On(list) = ToSet(A) /\ On(copy) = ToSet(D) /\ On(new) = ToSet(C)
  BY <1>1, Ground
<1>3. /\ Shares(heap, lost, ToSet(A), {}, ToSet(C), ToSet(D)) /\ ptr = Null /\ prev = Null
      /\ words \in Seq(Contents) /\ (new # Null => heap[new].next = Null)
      /\ Seen = Texts(heap, A) /\ Copied = Texts(heap, D)
  BY <1>1, <1>2, Quiet
<1> HIDE DEF A, C, D
<1>4. /\ Sound(heap') /\ DOMAIN heap' = DOMAIN heap \ {list}
      /\ \A p, s : Chain(heap, p, s) /\ list \notin ToSet(s) => Kept(heap, heap', p, s)
      /\ \A d \in DOMAIN heap \ {list} : heap'[d] = heap[d]
  <2>1. \A d \in DOMAIN heap : heap[d].next # list BY <1>1, <1>2, <1>3, HeadFree
  <2> QED BY <1>1, <1>2, <2>1, FreedHeap
<1> DEFINE T == Tail(A)
<1>5. /\ list \in ToSet(A) /\ Chain(heap, heap[list].next, T) /\ A = <<list>> \o T
      /\ ToSet(T) = ToSet(A) \ {list}
  BY <1>1, <1>2, ChainRest
<1> HIDE DEF T
<1>6. list \notin ToSet(C) /\ list \notin ToSet(D) /\ list \notin lost /\ list \notin ToSet(T)
  BY <1>3, <1>5 DEF Shares
<1>7. Kept(heap, heap', list', T) /\ Kept(heap, heap', new, C) /\ Kept(heap, heap', copy, D)
  BY <1>1, <1>2, <1>4, <1>5, <1>6
<1>8. list # new /\ list # copy /\ list # list'
  <2>1. new # Null => new \in ToSet(C) BY <1>2, ChainSet
  <2>2. copy # Null => copy \in ToSet(D) BY <1>2, ChainSet
  <2>3. list' # Null => list' \in ToSet(T) BY <1>1, <1>5, ChainSet
  <2> QED BY <1>1, <1>6, <2>1, <2>2, <2>3
<1>9. {list', new', copy'} \subseteq DOMAIN heap' \cup {Null}
  <2>1. list' \in DOMAIN heap \cup {Null} BY <1>1, <1>2 DEF HeapOK
  <2> QED BY <1>1, <1>2, <1>4, <1>8, <2>1
<1>10. Shares(heap', lost', ToSet(T), {}, ToSet(C), ToSet(D))
  <2>1. \A x \in lost : heap'[x].next = heap[x].next BY <1>3, <1>4, <1>6 DEF Shares
  <2> QED BY <1>1, <1>3, <1>4, <1>5, <1>6, <2>1 DEF Shares
<1>11. new' # Null => heap'[new'].next = Null BY <1>1, <1>2, <1>3, <1>4, <1>8
<1>12. ListInv' /\ Seen' = Texts(heap', T) /\ Copied' = Texts(heap', D)
  BY <1>1, <1>3, <1>4, <1>7, <1>9, <1>10, <1>11, QuietNext DEF Kept
<1>13. Texts(heap, A) # <<>> /\ Tail(Texts(heap, A)) = Texts(heap, T)
  <2>1. <<list>> \in Seq(DOMAIN heap) /\ T \in Seq(DOMAIN heap) BY <1>2, <1>5 DEF Chain
  <2>2. Texts(heap, A) = Texts(heap, <<list>>) \o Texts(heap, T) BY <1>2, <1>5, <2>1, TextsCat
  <2>3. Texts(heap, <<list>>) = <<heap[list].content>> /\ heap[list].content \in Contents BY <1>2, TextsOne
  <2>4. Texts(heap, T) \in Seq(Contents) BY <1>2, <2>1, TextsOf
  <2> DEFINE e == Texts(heap, T)
             x == heap[list].content
  <2>5. e \in Seq(Contents) /\ x \in Contents /\ Texts(heap, A) = <<x>> \o e BY <2>2, <2>3, <2>4
  <2> HIDE DEF e, x
  <2>6. Texts(heap, A) # <<>> /\ Tail(Texts(heap, A)) = e BY <2>5, TailOfCons
  <2> QED BY <2>6 DEF e
<1>14. Seen # <<>> /\ Seen' = Tail(Seen) /\ Copied' = Copied BY <1>3, <1>7, <1>12, <1>13 DEF Kept
<1> QED BY <1>12, <1>14 DEF Simulates, Abstract!Next, Abstract!Change

-----------------------------------------------------------------------------
(* ft_lstrev. *)

\* While it runs: what it has turned, and what it has still to turn.
LEMMA Turning ==
  ASSUME ListInv, at = "rev"
  PROVE  /\ Shares(heap, lost, On(prev), On(ptr), On(new), On(copy))
         /\ list \in On(prev) \cup On(ptr) /\ words \in Seq(Contents)
         /\ Seen = Reverse(Texts(heap, Path(prev))) \o Texts(heap, Path(ptr))
         /\ Copied = Texts(heap, Path(copy))
         /\ new # Null => heap[new].next = Null
<1>1. Main = prev /\ Rest = ptr BY DEF Main, Rest
<1>2. Shares(heap, lost, On(prev), On(ptr), On(new), On(copy)) BY <1>1 DEF ListInv, Held
<1>3. list \in On(prev) \cup On(ptr) /\ (new # Null => heap[new].next = Null) BY DEF ListInv, Running
<1>4. /\ Seen = Reverse(Texts(heap, Path(prev))) \o Texts(heap, Path(ptr))
      /\ Copied = Texts(heap, Path(copy))
  BY Ground DEF Seen, Copied
<1> QED BY <1>2, <1>3, <1>4 DEF ListInv, ListTypeOK

\* A state inside ft_lstrev whose chains share no node and link up has the invariant.
LEMMA TurningNext ==
  ASSUME at' = "rev", Sound(heap'), words' \in Seq(Contents),
         {list', new', copy', ptr', prev'} \subseteq DOMAIN heap' \cup {Null},
         NEW A, NEW B, NEW C, NEW D,
         Chain(heap', prev', A), Chain(heap', ptr', B), Chain(heap', new', C), Chain(heap', copy', D),
         Shares(heap', lost', ToSet(A), ToSet(B), ToSet(C), ToSet(D)),
         list' \in ToSet(A) \cup ToSet(B),
         new' # Null => heap'[new'].next = Null
  PROVE  /\ ListInv' /\ Copied' = Texts(heap', D)
         /\ Seen' = Reverse(Texts(heap', A)) \o Texts(heap', B)
<1>1. /\ Nodes(heap', prev') = A /\ Nodes(heap', ptr') = B /\ Nodes(heap', new') = C
      /\ Nodes(heap', copy') = D
  BY NodesOfChain
<1>2. Main' = prev' /\ Rest' = ptr' BY DEF Main, Rest
<1>3. /\ On(Main)' = ToSet(A) /\ On(Rest)' = ToSet(B) /\ On(new)' = ToSet(C) /\ On(copy)' = ToSet(D)
      /\ On(prev)' = ToSet(A) /\ On(ptr)' = ToSet(B)
  BY <1>1, <1>2 DEF On, Path
<1>4. Held' BY <1>3 DEF Held
<1>5. Running' BY <1>3 DEF Running
<1>6. ListTypeOK' BY DEF ListTypeOK
<1>7. /\ Seen' = Reverse(Texts(heap', A)) \o Texts(heap', B) /\ Copied' = Texts(heap', D)
  BY <1>1 DEF Seen, Copied, ContentsOf, Texts, Path
<1> QED BY <1>4, <1>5, <1>6, <1>7 DEF ListInv

\* Nothing is turned yet.
LEMMA RevStartKeeps ==
  ASSUME ListInv, RevStart
  PROVE  ListInv' /\ Simulates
<1> DEFINE A == Path(list)
           C == Path(new)
           D == Path(copy)
<1>1. /\ at = "caller" /\ list # Null /\ at' = "rev" /\ ptr' = list /\ prev' = Null
      /\ UNCHANGED <<heap, list, new, copy, words, lost>>
  BY DEF RevStart
<1>2. /\ Sound(heap) /\ HeapOK(heap) /\ {list, new, copy} \subseteq DOMAIN heap \cup {Null}
      /\ Chain(heap, list, A) /\ Chain(heap, copy, D) /\ Chain(heap, new, C)
      /\ On(list) = ToSet(A) /\ On(copy) = ToSet(D) /\ On(new) = ToSet(C)
  BY Ground
<1>3. /\ Shares(heap, lost, ToSet(A), {}, ToSet(C), ToSet(D))
      /\ words \in Seq(Contents) /\ (new # Null => heap[new].next = Null)
      /\ Seen = Texts(heap, A) /\ Copied = Texts(heap, D)
  BY <1>1, <1>2, Quiet
<1> HIDE DEF A, C, D
<1>4. list \in ToSet(A) BY <1>1, <1>2, ChainSet
<1>5. Shares(heap', lost', ToSet(<<>>), ToSet(A), ToSet(C), ToSet(D))
  BY <1>1, <1>3, ToSetOne DEF Shares
<1>6. Chain(heap', Null, <<>>) BY ChainOfNull
<1>7. /\ ListInv' /\ Copied' = Texts(heap', D)
      /\ Seen' = Reverse(Texts(heap', <<>>)) \o Texts(heap', A)
  BY <1>1, <1>2, <1>3, <1>4, <1>5, <1>6, TurningNext
<1>8. Reverse(Texts(heap, <<>>)) \o Texts(heap, A) = Texts(heap, A)
  <2>1. Texts(heap, <<>>) = <<>> BY DEF Texts
  <2>2. Reverse(<<>>) = <<>>
    <3>1. <<>> \in Seq(Contents) /\ Len(<<>>) = 0 BY EmptySeq
    <3>2. Reverse(<<>>) \in Seq(Contents) /\ Len(Reverse(<<>>)) = 0 BY <3>1, ReverseOf
    <3> QED BY <3>2, EmptySeq
  <2>3. Texts(heap, A) \in Seq(Contents) BY <1>2, TextsOf DEF Chain
  <2> QED BY <2>1, <2>2, <2>3, ConcatEmptySeq
<1>9. Seen' = Seen /\ Copied' = Copied BY <1>1, <1>3, <1>7, <1>8
<1> QED BY <1>7, <1>9 DEF Simulates

\* One more node is turned.
LEMMA RevStepKeeps ==
  ASSUME ListInv, RevStep
  PROVE  ListInv' /\ Simulates
<1> DEFINE A == Path(prev)
           B == Path(ptr)
           C == Path(new)
           D == Path(copy)
<1>1. /\ at = "rev" /\ at' = "rev" /\ ptr # Null /\ Pointed(heap', heap, ptr, prev) /\ prev' = ptr
      /\ ptr' = heap[ptr].next /\ UNCHANGED <<list, new, copy, words, lost>>
  BY DEF RevStep, Pointed
<1>2. /\ Sound(heap) /\ HeapOK(heap) /\ Null \notin Cells /\ Null \notin DOMAIN heap
      /\ {list, new, copy} \subseteq DOMAIN heap \cup {Null} /\ ptr \in DOMAIN heap
      /\ Chain(heap, prev, A) /\ Chain(heap, ptr, B) /\ Chain(heap, copy, D) /\ Chain(heap, new, C)
      /\ On(prev) = ToSet(A) /\ On(ptr) = ToSet(B) /\ On(copy) = ToSet(D) /\ On(new) = ToSet(C)
  BY <1>1, Ground
<1>3. /\ Shares(heap, lost, ToSet(A), ToSet(B), ToSet(C), ToSet(D)) /\ list \in ToSet(A) \cup ToSet(B)
      /\ words \in Seq(Contents) /\ (new # Null => heap[new].next = Null)
      /\ Seen = Reverse(Texts(heap, A)) \o Texts(heap, B) /\ Copied = Texts(heap, D)
  BY <1>1, <1>2, Turning
<1> HIDE DEF A, B, C, D
<1> DEFINE T == Tail(B)
<1>4. /\ ptr \in ToSet(B) /\ Chain(heap, ptr', T) /\ B = <<ptr>> \o T
      /\ ToSet(T) = ToSet(B) \ {ptr}
  BY <1>1, <1>2, ChainRest
<1> HIDE DEF T
<1>5. /\ ptr \notin ToSet(A) /\ ptr \notin ToSet(T) /\ ptr \notin ToSet(C) /\ ptr \notin ToSet(D)
      /\ ptr \notin lost
  BY <1>3, <1>4 DEF Shares
<1>6. /\ Sound(heap') /\ DOMAIN heap' = DOMAIN heap
      /\ \A p, s : Chain(heap, p, s) /\ ptr \notin ToSet(s) => Kept(heap, heap', p, s)
      /\ \A d \in DOMAIN heap : /\ heap'[d].content = heap[d].content
                                /\ heap'[d].next = IF d = ptr THEN prev ELSE heap[d].next
  BY <1>1, <1>2, <1>5, LinkedHeap
<1>7. /\ Kept(heap, heap', ptr', T) /\ Kept(heap, heap', new, C) /\ Kept(heap, heap', copy, D)
      /\ Kept(heap, heap', prev, A)
  BY <1>2, <1>4, <1>5, <1>6
<1>8. Chain(heap', ptr, <<ptr>> \o A) BY <1>1, <1>2, <1>5, LinkedFirst
<1>9. A \in Seq(DOMAIN heap) /\ T \in Seq(DOMAIN heap) /\ <<ptr>> \in Seq(DOMAIN heap) BY <1>2, <1>4 DEF Chain
<1>10. ToSet(<<ptr>> \o A) = {ptr} \cup ToSet(A) BY <1>2, <1>9, ToSetEnd
<1>11. Shares(heap', lost', ToSet(<<ptr>> \o A), ToSet(T), ToSet(C), ToSet(D))
  <2> DEFINE U == ToSet(<<ptr>> \o A)
             V == ToSet(T)
  <2>1. \A x \in lost : heap'[x].next = heap[x].next BY <1>3, <1>5, <1>6 DEF Shares
  <2>2. U = {ptr} \cup ToSet(A) /\ V = ToSet(B) \ {ptr} /\ ptr \in ToSet(B) BY <1>4, <1>10
  <2> HIDE DEF U, V
  <2>3. DOMAIN heap' = lost' \cup U \cup V \cup ToSet(C) \cup ToSet(D) BY <1>1, <1>3, <1>6, <2>2 DEF Shares
  <2>4. lost' \cap (U \cup V \cup ToSet(C) \cup ToSet(D)) = {} BY <1>1, <1>3, <2>2 DEF Shares
  <2>5. U \cap (V \cup ToSet(C) \cup ToSet(D)) = {} BY <1>3, <2>2 DEF Shares
  <2>6. V \cap (ToSet(C) \cup ToSet(D)) = {} /\ ToSet(C) \cap ToSet(D) = {} BY <1>3, <2>2 DEF Shares
  <2>7. \A x \in lost' : heap'[x].next \in lost' \cup {Null} BY <1>1, <1>3, <2>1 DEF Shares
  <2>8. Shares(heap', lost', U, V, ToSet(C), ToSet(D)) BY <2>3, <2>4, <2>5, <2>6, <2>7 DEF Shares
  <2> QED BY <2>8 DEF U, V
<1>12. {list', new', copy', ptr', prev'} \subseteq DOMAIN heap' \cup {Null}
  <2>1. ptr' \in DOMAIN heap \cup {Null} BY <1>1, <1>2 DEF HeapOK
  <2> QED BY <1>1, <1>2, <1>6, <2>1
<1>13. list' \in ToSet(<<ptr>> \o A) \cup ToSet(T) BY <1>1, <1>3, <1>4, <1>10
<1>14. new' # Null => heap'[new'].next = Null
  <2>1. new # Null => new \in ToSet(C) BY <1>2, ChainSet
  <2> QED BY <1>1, <1>2, <1>3, <1>5, <1>6, <2>1
<1>15. /\ ListInv' /\ Copied' = Texts(heap', D)
       /\ Seen' = Reverse(Texts(heap', <<ptr>> \o A)) \o Texts(heap', T)
  <2>1. Chain(heap', prev', <<ptr>> \o A) /\ Chain(heap', ptr', T) /\ Chain(heap', new', C) /\ Chain(heap', copy', D)
    BY <1>1, <1>7, <1>8 DEF Kept
  <2> QED BY <1>1, <1>3, <1>6, <1>11, <1>12, <1>13, <1>14, <2>1, TurningNext
<1> DEFINE x == heap[ptr].content
           a == Texts(heap, A)
           b == Texts(heap, T)
<1>16. x \in Contents /\ a \in Seq(Contents) /\ b \in Seq(Contents)
  BY <1>2, <1>9, TextsOne, TextsOf
<1>17. Texts(heap, B) = <<x>> \o b
  <2>1. Texts(heap, B) = Texts(heap, <<ptr>>) \o Texts(heap, T) BY <1>2, <1>4, <1>9, TextsCat
  <2> QED BY <1>2, <2>1, TextsOne
<1>18. Texts(heap', <<ptr>> \o A) = <<x>> \o a /\ Texts(heap', T) = b
  <2>1. HeapOK(heap') /\ ptr \in DOMAIN heap' BY <1>2, <1>6 DEF Sound
  <2>2. Texts(heap', <<ptr>> \o A) = Texts(heap', <<ptr>>) \o Texts(heap', A) BY <1>6, <1>9, <2>1, TextsCat
  <2>3. Texts(heap', <<ptr>>) = <<heap'[ptr].content>> BY <2>1, TextsOne
  <2> QED BY <1>2, <1>6, <1>7, <2>2, <2>3 DEF Kept
<1> HIDE DEF x, a, b
<1>19. Reverse(<<x>> \o a) \o b = Reverse(a) \o (<<x>> \o b)
  <2>1. Reverse(<<x>> \o a) = Reverse(a) \o <<x>> BY <1>16, ReverseCons
  <2>2. Reverse(a) \in Seq(Contents) /\ <<x>> \in Seq(Contents) BY <1>16, ReverseOf
  <2>3. (Reverse(a) \o <<x>>) \o b = Reverse(a) \o (<<x>> \o b) BY <1>16, <2>2, ConcatAssociative
  <2> QED BY <2>1, <2>3
<1>20. Seen = Reverse(a) \o (<<x>> \o b) /\ Seen' = Reverse(<<x>> \o a) \o b
  <2>1. Seen = Reverse(a) \o Texts(heap, B) BY <1>3 DEF a
  <2> QED BY <1>15, <1>17, <1>18, <2>1
<1>21. Seen' = Seen /\ Copied' = Copied BY <1>3, <1>7, <1>15, <1>19, <1>20 DEF Kept
<1> QED BY <1>15, <1>21 DEF Simulates

\* All is turned: the caller's list is reversed.
LEMMA RevEndKeeps ==
  ASSUME ListInv, RevEnd
  PROVE  ListInv' /\ Simulates
<1> DEFINE A == Path(prev)
           C == Path(new)
           D == Path(copy)
<1>1. /\ at = "rev" /\ at' = "caller" /\ ptr = Null /\ list' = prev /\ prev' = Null
      /\ UNCHANGED <<heap, new, copy, ptr, words, lost>>
  BY DEF RevEnd
<1>2. /\ Sound(heap) /\ HeapOK(heap) /\ {prev, new, copy} \subseteq DOMAIN heap \cup {Null}
      /\ Chain(heap, prev, A) /\ Chain(heap, copy, D) /\ Chain(heap, new, C)
      /\ On(prev) = ToSet(A) /\ On(copy) = ToSet(D) /\ On(new) = ToSet(C)
      /\ On(ptr) = {} /\ Texts(heap, Path(ptr)) = <<>>
  BY <1>1, Ground
<1>3. /\ Shares(heap, lost, ToSet(A), {}, ToSet(C), ToSet(D))
      /\ words \in Seq(Contents) /\ (new # Null => heap[new].next = Null)
      /\ Seen = Reverse(Texts(heap, A)) \o <<>> /\ Copied = Texts(heap, D)
  BY <1>1, <1>2, Turning
<1> HIDE DEF A, C, D
<1>4. /\ ListInv' /\ Seen' = Texts(heap', A) /\ Copied' = Texts(heap', D)
  BY <1>1, <1>2, <1>3, QuietNext
<1> DEFINE a == Texts(heap, A)
<1>5. a \in Seq(Contents) BY <1>2, TextsOf DEF Chain
<1>6. Seen = Reverse(a) \o <<>> /\ Seen' = a BY <1>1, <1>3, <1>4
<1> HIDE DEF a
<1>7. Reverse(a) \in Seq(Contents) BY <1>5, ReverseOf
<1>8. Reverse(a) \o <<>> = Reverse(a) BY <1>7, ConcatEmptySeq
<1>9. Seen' = Reverse(Seen) BY <1>5, <1>6, <1>8, ReverseTwice
<1>10. Copied' = Copied BY <1>1, <1>3, <1>4
<1>11. Abstract!Reverse(Seen) = Reverse(Seen) BY DEF Abstract!Reverse, Reverse
<1> QED BY <1>4, <1>9, <1>10, <1>11 DEF Simulates, Abstract!Next, Abstract!Change

-----------------------------------------------------------------------------
(* ft_lstmap. *)

\* While it runs: the copy so far and the nodes still to copy make the list.
LEMMA Mapping ==
  ASSUME ListInv, at = "map"
  PROVE  /\ Shares(heap, lost, On(list), {}, On(new), On(copy))
         /\ list # Null /\ ptr \in On(list) \cup {Null} /\ words \in Seq(Contents)
         /\ IF copy = Null THEN prev = Null ELSE prev = Path(copy)[Len(Path(copy))]
         /\ Texts(heap, Path(copy)) \o Texts(heap, Path(ptr)) = Texts(heap, Path(list))
         /\ Seen = Texts(heap, Path(list)) /\ Copied = <<>>
         /\ new # Null => heap[new].next = Null
<1>1. Main = list /\ Rest = Null BY DEF Main, Rest
<1>2. Shares(heap, lost, On(list), {}, On(new), On(copy)) BY <1>1, Ground DEF ListInv, Held
<1>3. /\ list # Null /\ ptr \in On(list) \cup {Null} /\ (new # Null => heap[new].next = Null)
      /\ IF copy = Null THEN prev = Null ELSE prev = Path(copy)[Len(Path(copy))]
      /\ ContentsOf(copy) \o ContentsOf(ptr) = ContentsOf(list)
  BY DEF ListInv, Running
<1>4. Texts(heap, Path(copy)) \o Texts(heap, Path(ptr)) = Texts(heap, Path(list)) BY <1>3, Ground
<1>5. Seen = Texts(heap, Path(list)) /\ Copied = <<>> BY Ground DEF Seen, Copied
<1> QED BY <1>2, <1>3, <1>4, <1>5 DEF ListInv, ListTypeOK

\* A state inside ft_lstmap whose chains share no node and link up has the invariant.
LEMMA MappingNext ==
  ASSUME at' = "map", Sound(heap'), words' \in Seq(Contents),
         {list', new', copy', ptr', prev'} \subseteq DOMAIN heap' \cup {Null},
         NEW A, NEW B, NEW C, NEW D,
         Chain(heap', list', A), Chain(heap', ptr', B), Chain(heap', new', C), Chain(heap', copy', D),
         Shares(heap', lost', ToSet(A), {}, ToSet(C), ToSet(D)),
         list' # Null, ptr' \in ToSet(A) \cup {Null},
         IF copy' = Null THEN prev' = Null ELSE prev' = D[Len(D)],
         Texts(heap', D) \o Texts(heap', B) = Texts(heap', A),
         new' # Null => heap'[new'].next = Null
  PROVE  /\ ListInv' /\ Copied' = <<>> /\ Seen' = Texts(heap', A)
<1>1. /\ Nodes(heap', list') = A /\ Nodes(heap', ptr') = B /\ Nodes(heap', new') = C
      /\ Nodes(heap', copy') = D /\ Nodes(heap', Null) = <<>>
  BY NodesOfChain, ChainOfNull
<1>2. Main' = list' /\ Rest' = Null BY DEF Main, Rest
<1>3. /\ On(Main)' = ToSet(A) /\ On(Rest)' = {} /\ On(new)' = ToSet(C) /\ On(copy)' = ToSet(D)
      /\ On(list)' = ToSet(A) /\ Path(copy)' = D
  BY <1>1, <1>2, ToSetOne DEF On, Path
<1>4. Held' BY <1>3 DEF Held
<1>5. /\ ContentsOf(copy)' = Texts(heap', D) /\ ContentsOf(ptr)' = Texts(heap', B)
      /\ ContentsOf(list)' = Texts(heap', A)
  BY <1>1 DEF ContentsOf, Texts, Path
<1>6. Running' BY <1>3, <1>5 DEF Running
<1>7. ListTypeOK' BY DEF ListTypeOK
<1>8. Seen' = Texts(heap', A) /\ Copied' = <<>> BY <1>5 DEF Seen, Copied
<1> QED BY <1>4, <1>6, <1>7, <1>8 DEF ListInv

\* Nothing is copied yet.
LEMMA MapStartKeeps ==
  ASSUME ListInv, MapStart
  PROVE  ListInv' /\ Simulates
<1> DEFINE A == Path(list)
           C == Path(new)
<1>1. /\ at = "caller" /\ list # Null /\ copy = Null /\ at' = "map" /\ ptr' = list
      /\ UNCHANGED <<heap, list, new, copy, prev, words, lost>>
  BY DEF MapStart
<1>2. /\ Sound(heap) /\ {list, new} \subseteq DOMAIN heap \cup {Null}
      /\ Chain(heap, list, A) /\ Chain(heap, new, C) /\ Path(copy) = <<>>
      /\ On(list) = ToSet(A) /\ On(copy) = {} /\ On(new) = ToSet(C)
  BY <1>1, Ground
<1>3. /\ Shares(heap, lost, ToSet(A), {}, ToSet(C), {}) /\ prev = Null
      /\ words \in Seq(Contents) /\ (new # Null => heap[new].next = Null)
      /\ Seen = Texts(heap, A) /\ Copied = Texts(heap, <<>>)
  BY <1>1, <1>2, Quiet
<1> HIDE DEF A, C
<1>4. list \in ToSet(A) BY <1>1, <1>2, ChainSet
<1>5. Shares(heap', lost', ToSet(A), {}, ToSet(C), ToSet(<<>>)) BY <1>1, <1>3, ToSetOne DEF Shares
<1>6. Chain(heap', Null, <<>>) BY ChainOfNull
<1>7. Texts(heap, <<>>) = <<>> BY DEF Texts
<1>8. Texts(heap', <<>>) \o Texts(heap', A) = Texts(heap', A)
  <2>1. Texts(heap, A) \in Seq(Contents) BY <1>2, TextsOf DEF Chain, Sound
  <2>2. <<>> \o Texts(heap, A) = Texts(heap, A) BY <2>1, ConcatEmptySeq
  <2> QED BY <1>1, <1>7, <2>2
<1>9. ListInv' /\ Copied' = <<>> /\ Seen' = Texts(heap', A)
  BY <1>1, <1>2, <1>3, <1>4, <1>5, <1>6, <1>8, MappingNext
<1>10. Seen' = Seen /\ Copied' = Copied BY <1>1, <1>3, <1>7, <1>9
<1> QED BY <1>9, <1>10 DEF Simulates

\* One more node is copied.
LEMMA MapStepKeeps ==
  ASSUME ListInv, MapStep
  PROVE  ListInv' /\ Simulates
<1> DEFINE A == Path(list)
           B == Path(ptr)
           C == Path(new)
           D == Path(copy)
           x == heap[ptr].content
<1>1. /\ at = "map" /\ at' = "map" /\ ptr # Null /\ ptr' = heap[ptr].next
      /\ UNCHANGED <<list, new, words, lost>>
  BY DEF MapStep
<1>2. /\ Sound(heap) /\ HeapOK(heap) /\ Null \notin Cells /\ Null \notin DOMAIN heap
      /\ {list, new, copy} \subseteq DOMAIN heap \cup {Null} /\ ptr \in DOMAIN heap
      /\ Chain(heap, list, A) /\ Chain(heap, ptr, B) /\ Chain(heap, copy, D) /\ Chain(heap, new, C)
      /\ On(list) = ToSet(A) /\ On(copy) = ToSet(D) /\ On(new) = ToSet(C)
  BY <1>1, Ground
<1>3. /\ Shares(heap, lost, ToSet(A), {}, ToSet(C), ToSet(D)) /\ list # Null /\ ptr \in ToSet(A)
      /\ words \in Seq(Contents) /\ (new # Null => heap[new].next = Null)
      /\ IF copy = Null THEN prev = Null ELSE prev = D[Len(D)]
      /\ Texts(heap, D) \o Texts(heap, B) = Texts(heap, A)
      /\ Seen = Texts(heap, A) /\ Copied = <<>>
  BY <1>1, <1>2, Mapping
<1>4. x \in Contents BY <1>2, TextsOne
<1>5. PICK c \in Cells \ DOMAIN heap :
        /\ heap' = IF copy = Null THEN Made(heap, c, x) ELSE [Made(heap, c, x) EXCEPT ![prev].next = c]
        /\ copy' = IF copy = Null THEN c ELSE copy
        /\ prev' = c
  BY DEF MapStep
<1> HIDE DEF A, B, C, D, x
<1>6. Extended(heap', copy', heap, copy, D, c, x) BY <1>3, <1>5 DEF Pointed, Extended
<1> DEFINE E == D \o <<c>>
<1>7. /\ Sound(heap') /\ DOMAIN heap' = DOMAIN heap \cup {c}
      /\ Chain(heap', copy', E) /\ ToSet(E) = ToSet(D) \cup {c}
      /\ Texts(heap', E) = Append(Texts(heap, D), x)
      /\ \A r, t : Chain(heap, r, t) /\ Far(t, D) => Kept(heap, heap', r, t)
      /\ \A d \in DOMAIN heap : d \notin ToSet(D) => heap'[d].next = heap[d].next
  <2>1. /\ Sound(heap) /\ Chain(heap, copy, D) /\ c \in Cells \ DOMAIN heap /\ x \in Contents
        /\ Extended(heap', copy', heap, copy, D, c, x)
    BY <1>2, <1>4, <1>6
  <2>2. Longer(E, D, c) BY DEF Longer
  <2> HIDE DEF E
  <2>3. Grown(heap', copy', heap, D, E, c, x) BY <2>1, <2>2, ExtendedHeap
  <2> QED BY <2>3 DEF Grown
<1>8. E[Len(E)] = c
  <2>1. D \in Seq(Cells) /\ c \in Cells
    <3>1. D \in Seq(DOMAIN heap) BY <1>2 DEF Chain
    <3> QED BY <1>2, <3>1, SeqMonotonic DEF HeapOK
  <2> QED BY <2>1, LastOfCat
<1> HIDE DEF E
<1> DEFINE T == Tail(B)
<1>9. Chain(heap, ptr', T) /\ B = <<ptr>> \o T /\ ToSet(T) = ToSet(B) \ {ptr}
  BY <1>1, <1>2, ChainRest
<1> HIDE DEF T
<1>10. ToSet(B) \subseteq ToSet(A) BY <1>2, <1>3, ChainWithin
<1>11. Kept(heap, heap', list, A) /\ Kept(heap, heap', new, C) /\ Kept(heap, heap', ptr', T)
  <2>1. Far(A, D) /\ Far(C, D) BY <1>3 DEF Shares, Far
  <2>2. Far(T, D) BY <1>9, <1>10, <2>1 DEF Far
  <2> QED BY <1>2, <1>7, <1>9, <2>1, <2>2
<1>12. Shares(heap', lost', ToSet(A), {}, ToSet(C), ToSet(E))
  <2>1. c \notin ToSet(A) /\ c \notin ToSet(C) /\ c \notin lost BY <1>3 DEF Shares
  <2>2. \A y \in lost : heap'[y].next = heap[y].next BY <1>3, <1>7 DEF Shares
  <2> QED BY <1>1, <1>3, <1>7, <2>1, <2>2 DEF Shares
<1>13. {list', new', copy', ptr', prev'} \subseteq DOMAIN heap' \cup {Null}
  <2>1. ptr' \in DOMAIN heap \cup {Null} BY <1>1, <1>2 DEF HeapOK
  <2> QED BY <1>1, <1>2, <1>5, <1>7, <2>1
<1>14. ptr' \in ToSet(A) \cup {Null} BY <1>1, <1>2, <1>3, ChainNext
<1>15. copy' # Null /\ prev' = E[Len(E)] BY <1>2, <1>5, <1>8
<1>16. new' # Null => heap'[new'].next = Null
  <2>1. new # Null => new \in ToSet(C) BY <1>2, ChainSet
  <2>2. ToSet(C) \cap ToSet(D) = {} BY <1>3 DEF Shares
  <2> QED BY <1>1, <1>2, <1>3, <1>7, <2>1, <2>2
<1> DEFINE a == Texts(heap, D)
           b == Texts(heap, T)
<1>17. a \in Seq(Contents) /\ b \in Seq(Contents) /\ Texts(heap, B) = <<x>> \o b
  <2>1. D \in Seq(DOMAIN heap) /\ T \in Seq(DOMAIN heap) /\ <<ptr>> \in Seq(DOMAIN heap)
    BY <1>2, <1>9 DEF Chain
  <2>2. Texts(heap, B) = Texts(heap, <<ptr>>) \o Texts(heap, T) BY <1>2, <1>9, <2>1, TextsCat
  <2>3. Texts(heap, <<ptr>>) = <<x>> BY <1>2, TextsOne DEF x
  <2> QED BY <1>2, <2>1, <2>2, <2>3, TextsOf
<1>18. Texts(heap', E) = Append(a, x) /\ Texts(heap', T) = b /\ Texts(heap', A) = a \o (<<x>> \o b)
  BY <1>3, <1>7, <1>11, <1>17 DEF Kept
<1> HIDE DEF a, b
<1>19. Append(a, x) \o b = a \o (<<x>> \o b)
  <2>1. Append(a, x) = a \o <<x>> BY <1>4, <1>17, AppendIsConcat
  <2>2. <<x>> \in Seq(Contents) BY <1>4
  <2>3. (a \o <<x>>) \o b = a \o (<<x>> \o b) BY <1>17, <2>2, ConcatAssociative
  <2> QED BY <2>1, <2>3
<1>20. Texts(heap', E) \o Texts(heap', T) = Texts(heap', A) BY <1>18, <1>19
<1>21. ListInv' /\ Copied' = <<>> /\ Seen' = Texts(heap', A)
  <2>1. Chain(heap', list', A) /\ Chain(heap', ptr', T) /\ Chain(heap', new', C) BY <1>1, <1>11 DEF Kept
  <2>2. words' \in Seq(Contents) /\ list' # Null BY <1>1, <1>3
  <2> QED BY <1>1, <1>7, <1>12, <1>13, <1>14, <1>15, <1>16, <1>20, <2>1, <2>2, MappingNext
<1>22. Seen' = Seen /\ Copied' = Copied BY <1>3, <1>11, <1>21 DEF Kept
<1> QED BY <1>21, <1>22 DEF Simulates

\* No memory: what was copied is lost, and the caller has no copy.
LEMMA MapFailsKeeps ==
  ASSUME ListInv, MapFails
  PROVE  ListInv' /\ Simulates
<1> DEFINE A == Path(list)
           C == Path(new)
           D == Path(copy)
<1>1. /\ at = "map" /\ at' = "caller" /\ lost' = lost \cup ToSet(D) /\ copy' = Null /\ ptr' = Null /\ prev' = Null
      /\ UNCHANGED <<heap, list, new, words>>
  BY DEF MapFails, On
<1>2. /\ Sound(heap) /\ Null \notin DOMAIN heap /\ {list, new} \subseteq DOMAIN heap \cup {Null}
      /\ Chain(heap, list, A) /\ Chain(heap, copy, D) /\ Chain(heap, new, C)
      /\ On(list) = ToSet(A) /\ On(copy) = ToSet(D) /\ On(new) = ToSet(C)
  BY Ground
<1>3. /\ Shares(heap, lost, ToSet(A), {}, ToSet(C), ToSet(D)) /\ words \in Seq(Contents)
      /\ (new # Null => heap[new].next = Null) /\ Seen = Texts(heap, A) /\ Copied = <<>>
  BY <1>1, <1>2, Mapping
<1> HIDE DEF A, C, D
<1>4. Shares(heap', lost', ToSet(A), {}, ToSet(C), ToSet(<<>>))
  <2>1. \A y \in ToSet(D) : heap[y].next \in ToSet(D) \cup {Null} BY <1>2, ChainNext
  <2>2. \A y \in lost' : heap'[y].next \in lost' \cup {Null} BY <1>1, <1>3, <2>1 DEF Shares
  <2>3. /\ DOMAIN heap' = lost' \cup ToSet(A) \cup ToSet(C)
        /\ lost' \cap (ToSet(A) \cup ToSet(C)) = {} /\ ToSet(A) \cap ToSet(C) = {}
    BY <1>1, <1>3 DEF Shares
  <2> QED BY <2>2, <2>3, ToSetOne DEF Shares
<1>5. Chain(heap', Null, <<>>) BY ChainOfNull
<1>6. ListInv' /\ Seen' = Texts(heap', A) /\ Copied' = Texts(heap', <<>>)
  BY <1>1, <1>2, <1>3, <1>4, <1>5, QuietNext
<1>7. Texts(heap', <<>>) = <<>> BY DEF Texts
<1>8. Seen' = Seen /\ Copied' = Copied BY <1>1, <1>3, <1>6, <1>7
<1> QED BY <1>6, <1>8 DEF Simulates

\* All is copied: the caller's copy is the list.
LEMMA MapEndKeeps ==
  ASSUME ListInv, MapEnd
  PROVE  ListInv' /\ Simulates
<1> DEFINE A == Path(list)
           C == Path(new)
           D == Path(copy)
<1>1. /\ at = "map" /\ at' = "caller" /\ ptr = Null /\ prev' = Null
      /\ UNCHANGED <<heap, list, new, copy, ptr, words, lost>>
  BY DEF MapEnd
<1>2. /\ Sound(heap) /\ HeapOK(heap) /\ {list, new, copy} \subseteq DOMAIN heap \cup {Null}
      /\ Chain(heap, list, A) /\ Chain(heap, copy, D) /\ Chain(heap, new, C)
      /\ On(list) = ToSet(A) /\ On(copy) = ToSet(D) /\ On(new) = ToSet(C)
      /\ Texts(heap, Path(ptr)) = <<>>
  BY <1>1, Ground
<1>3. /\ Shares(heap, lost, ToSet(A), {}, ToSet(C), ToSet(D)) /\ words \in Seq(Contents)
      /\ (new # Null => heap[new].next = Null) /\ Seen = Texts(heap, A)
      /\ Texts(heap, D) \o <<>> = Texts(heap, A)
  BY <1>1, <1>2, Mapping
<1> HIDE DEF A, C, D
<1>4. ListInv' /\ Seen' = Texts(heap', A) /\ Copied' = Texts(heap', D)
  BY <1>1, <1>2, <1>3, QuietNext
<1>5. Texts(heap, D) \in Seq(Contents) BY <1>2, TextsOf DEF Chain
<1>6. Texts(heap, D) = Texts(heap, A) BY <1>3, <1>5, ConcatEmptySeq
<1>7. Seen' = Seen /\ Copied' = Seen BY <1>1, <1>3, <1>4, <1>6
<1> QED BY <1>4, <1>7 DEF Simulates, Abstract!Next

-----------------------------------------------------------------------------
(* ft_strsplit_lst. *)

\* While a list is made of words, the caller sees what is made of it.
LEMMA Gathering ==
  ASSUME ListInv, at = "split"
  PROVE  /\ Shares(heap, lost, On(ptr), {}, On(new), On(copy))
         /\ list = Null /\ prev = Null /\ (first => ptr = Null) /\ words \in Seq(Contents)
         /\ Seen = Texts(heap, Path(ptr)) /\ Copied = Texts(heap, Path(copy))
         /\ new # Null => heap[new].next = Null
<1>1. Main = ptr /\ Rest = Null BY DEF Main, Rest
<1>2. Shares(heap, lost, On(ptr), {}, On(new), On(copy)) BY <1>1, Ground DEF ListInv, Held
<1>3. list = Null /\ prev = Null /\ (first => ptr = Null) /\ (new # Null => heap[new].next = Null)
  BY DEF ListInv, Running
<1>4. Seen = Texts(heap, Path(ptr)) /\ Copied = Texts(heap, Path(copy)) BY Ground DEF Seen, Copied
<1> QED BY <1>2, <1>3, <1>4 DEF ListInv, ListTypeOK

\* To show that the next state is one where a list is made.
LEMMA GatheringNext ==
  ASSUME at' = "split", Sound(heap'), words' \in Seq(Contents),
         list' = Null, prev' = Null, first' => ptr' = Null,
         {new', copy', ptr'} \subseteq DOMAIN heap' \cup {Null},
         NEW A, NEW C, NEW D,
         Chain(heap', ptr', A), Chain(heap', new', C), Chain(heap', copy', D),
         Shares(heap', lost', ToSet(A), {}, ToSet(C), ToSet(D)),
         new' # Null => heap'[new'].next = Null
  PROVE  ListInv' /\ Seen' = Texts(heap', A) /\ Copied' = Texts(heap', D)
<1>1. /\ Nodes(heap', ptr') = A /\ Nodes(heap', new') = C /\ Nodes(heap', copy') = D
      /\ Nodes(heap', Null) = <<>>
  BY NodesOfChain, ChainOfNull
<1>2. Main' = ptr' /\ Rest' = Null BY DEF Main, Rest
<1>3. On(Main)' = ToSet(A) /\ On(Rest)' = {} /\ On(new)' = ToSet(C) /\ On(copy)' = ToSet(D)
  BY <1>1, <1>2, ToSetOne DEF On, Path
<1>4. Held' BY <1>3 DEF Held
<1>5. Running' BY DEF Running
<1>6. ListTypeOK' BY DEF ListTypeOK
<1>7. Seen' = Texts(heap', A) /\ Copied' = Texts(heap', D) BY <1>1 DEF Seen, Copied, ContentsOf, Texts, Path
<1> QED BY <1>4, <1>5, <1>6, <1>7 DEF ListInv

\* The first words are read.  From a stale pointer nothing is followed, and the lists
\* are still as they were.
LEMMA SplitStartKeeps ==
  ASSUME ListInv, SplitStart
  PROVE  ListInv' /\ Simulates
<1> DEFINE C == Path(new)
           D == Path(copy)
<1>1. /\ at = "caller" /\ list = Null
      /\ \/ at' = "split" /\ ptr' = ptr
         \/ at' = "stale" /\ ~first
      /\ UNCHANGED <<heap, list, new, copy, prev, first, lost>>
  BY DEF SplitStart
<1>2. words' \in Seq(Contents)
  <2>1. PICK n \in 1..MaxWords : words' \in [1..n -> Contents] BY DEF SplitStart
  <2>2. n \in Nat OBVIOUS
  <2> QED BY <2>1, <2>2, SeqDef
<1>3. /\ Sound(heap) /\ {new, copy} \subseteq DOMAIN heap \cup {Null}
      /\ Chain(heap, copy, D) /\ Chain(heap, new, C)
      /\ On(copy) = ToSet(D) /\ On(new) = ToSet(C) /\ On(list) = {} /\ Path(list) = <<>>
  BY <1>1, Ground
<1>4. /\ Shares(heap, lost, {}, {}, ToSet(C), ToSet(D)) /\ ptr = Null /\ prev = Null
      /\ (new # Null => heap[new].next = Null)
      /\ Seen = Texts(heap, <<>>) /\ Copied = Texts(heap, D)
  BY <1>1, <1>3, Quiet
<1>5. CASE at' = "split"
  <2> HIDE DEF C, D
  <2>0. ptr' = Null /\ heap' = heap BY <1>1, <1>4, <1>5
  <2>1. Chain(heap', ptr', <<>>) BY <1>3, <1>4, <2>0, ChainOfNull
  <2>2. Shares(heap', lost', ToSet(<<>>), {}, ToSet(C), ToSet(D)) BY <1>1, <1>4, ToSetOne
  <2>3. ListInv' /\ Seen' = Texts(heap', <<>>) /\ Copied' = Texts(heap', D)
    BY <1>1, <1>2, <1>3, <1>4, <1>5, <2>0, <2>1, <2>2, GatheringNext
  <2>4. Seen' = Seen /\ Copied' = Copied BY <1>1, <1>4, <2>3
  <2> QED BY <2>3, <2>4 DEF Simulates
<1>6. CASE at' = "stale"
  <2>1. Main' = Main /\ Rest' = Rest BY <1>1, <1>6 DEF Main, Rest
  <2>2. Held' BY <1>1, <2>1 DEF ListInv, Held, On, Path
  <2>3. Running' BY <1>1, <1>4, <1>6 DEF Running
  <2>4. ListTypeOK' BY <1>1, <1>2, <1>6 DEF ListInv, ListTypeOK
  <2>5. Sound(heap') BY <1>1, <1>3
  <2>6. Seen' = Seen /\ Copied' = Copied BY <1>1, <1>6 DEF Seen, Copied, ContentsOf, Path
  <2> QED BY <2>2, <2>3, <2>4, <2>5, <2>6 DEF ListInv, Simulates
<1> QED BY <1>1, <1>5, <1>6

\* One more word.
LEMMA SplitWordKeeps ==
  ASSUME ListInv, SplitWord
  PROVE  ListInv' /\ Simulates
<1> DEFINE A == Path(ptr)
           C == Path(new)
           D == Path(copy)
           x == Head(words)
<1>1. /\ at = "split" /\ at' = "split" /\ words # <<>> /\ words' = Tail(words) /\ first' = FALSE
      /\ (first \/ ptr # Null) /\ UNCHANGED <<list, new, copy, prev, lost>>
  BY DEF SplitWord, Splitting
<1>2. /\ Sound(heap) /\ Null \notin Cells /\ Null \notin DOMAIN heap
      /\ {new, copy, ptr} \subseteq DOMAIN heap \cup {Null}
      /\ Chain(heap, ptr, A) /\ Chain(heap, copy, D) /\ Chain(heap, new, C)
      /\ On(ptr) = ToSet(A) /\ On(copy) = ToSet(D) /\ On(new) = ToSet(C)
  BY <1>1, Ground
<1>3. /\ Shares(heap, lost, ToSet(A), {}, ToSet(C), ToSet(D)) /\ list = Null /\ prev = Null
      /\ (first => ptr = Null) /\ words \in Seq(Contents)
      /\ (new # Null => heap[new].next = Null)
      /\ Seen = Texts(heap, A) /\ Copied = Texts(heap, D)
  BY <1>1, <1>2, Gathering
<1>4. x \in Contents /\ words' \in Seq(Contents) BY <1>1, <1>3, HeadTailProperties
<1>5. PICK c \in Cells \ DOMAIN heap :
        /\ heap' = IF first THEN Made(heap, c, x) ELSE Linked(Made(heap, c, x), ptr, c)
        /\ ptr' = IF first THEN c ELSE ptr
  BY DEF SplitWord
<1>6. first <=> ptr = Null BY <1>1, <1>3
<1>7. Last(Path(ptr)) = A[Len(A)] BY DEF Last
<1> HIDE DEF A, C, D, x
<1>8. Extended(heap', ptr', heap, ptr, A, c, x) BY <1>5, <1>6, <1>7 DEF Linked, Pointed, Extended
<1> DEFINE E == A \o <<c>>
<1>9. Grown(heap', ptr', heap, A, E, c, x)
  <2>1. /\ Sound(heap) /\ Chain(heap, ptr, A) /\ c \in Cells \ DOMAIN heap /\ x \in Contents
        /\ Extended(heap', ptr', heap, ptr, A, c, x)
    BY <1>2, <1>4, <1>8
  <2>2. Longer(E, A, c) BY DEF Longer
  <2> HIDE DEF E
  <2> QED BY <2>1, <2>2, ExtendedHeap
<1> HIDE DEF E
<1>10. /\ Sound(heap') /\ DOMAIN heap' = DOMAIN heap \cup {c}
       /\ Chain(heap', ptr', E) /\ ToSet(E) = ToSet(A) \cup {c} /\ Texts(heap', E) = Append(Texts(heap, A), x)
       /\ \A r, t : Chain(heap, r, t) /\ Far(t, A) => Kept(heap, heap', r, t)
       /\ \A d \in DOMAIN heap : d \notin ToSet(A) => heap'[d].next = heap[d].next
  BY <1>9 DEF Grown
<1>11. Kept(heap, heap', new, C) /\ Kept(heap, heap', copy, D)
  <2>1. Far(C, A) /\ Far(D, A) BY <1>3 DEF Shares, Far
  <2> QED BY <1>2, <1>10, <2>1
<1>12. Shares(heap', lost', ToSet(E), {}, ToSet(C), ToSet(D))
  <2>1. c \notin ToSet(A) /\ c \notin ToSet(C) /\ c \notin ToSet(D) /\ c \notin lost BY <1>3 DEF Shares
  <2>2. \A y \in lost : heap'[y].next = heap[y].next BY <1>3, <1>10 DEF Shares
  <2> QED BY <1>1, <1>3, <1>10, <2>1, <2>2 DEF Shares
<1>13. new' # Null => heap'[new'].next = Null
  <2>1. new # Null => new \in ToSet(C) BY <1>2, ChainSet
  <2>2. ToSet(C) \cap ToSet(A) = {} BY <1>3 DEF Shares
  <2> QED BY <1>1, <1>2, <1>3, <1>10, <2>1, <2>2
<1>14. {new', copy', ptr'} \subseteq DOMAIN heap' \cup {Null} BY <1>1, <1>2, <1>5, <1>10
<1>15. ListInv' /\ Seen' = Texts(heap', E) /\ Copied' = Texts(heap', D)
  <2>1. Chain(heap', new', C) /\ Chain(heap', copy', D) BY <1>1, <1>11 DEF Kept
  <2>2. list' = Null /\ prev' = Null /\ ~first' BY <1>1, <1>3
  <2> QED BY <1>1, <1>4, <1>10, <1>12, <1>13, <1>14, <2>1, <2>2, GatheringNext
<1>16. Seen' = Append(Seen, x) /\ Copied' = Copied BY <1>3, <1>10, <1>11, <1>15 DEF Kept
<1> QED BY <1>4, <1>15, <1>16 DEF Simulates, Abstract!Next, Abstract!Change

\* ft_strsplit_lst returns: what the caller has then.
LEMMA SplitReturn ==
  ASSUME ListInv, at = "split", NEW p, SplitReturns(p), Sound(heap'),
         {p, new, copy} \subseteq DOMAIN heap' \cup {Null},
         NEW A, Chain(heap', p, A), Kept(heap, heap', new, Path(new)), Kept(heap, heap', copy, Path(copy)),
         new # Null => heap'[new].next = heap[new].next,
         Shares(heap', lost', ToSet(A), {}, On(new), On(copy))
  PROVE  ListInv' /\ Seen' = Texts(heap', A) /\ Copied' = Copied
<1> DEFINE C == Path(new)
           D == Path(copy)
<1>1. /\ at' = "caller" /\ list' = p /\ ptr' = Null /\ words' = <<>> /\ UNCHANGED <<new, copy, prev>>
  BY DEF SplitReturns
<1>2. /\ prev = Null /\ (new # Null => heap[new].next = Null) /\ Copied = Texts(heap, D)
      /\ On(new) = ToSet(C) /\ On(copy) = ToSet(D)
  BY Gathering, Ground
<1>3. <<>> \in Seq(Contents) BY EmptySeq
<1>4. /\ Chain(heap', new', C) /\ Chain(heap', copy', D) /\ Texts(heap', D) = Texts(heap, D)
  BY <1>1 DEF Kept
<1> HIDE DEF C, D
<1>5. ListInv' /\ Seen' = Texts(heap', A) /\ Copied' = Texts(heap', D)
  BY <1>1, <1>2, <1>3, <1>4, QuietNext
<1> QED BY <1>2, <1>4, <1>5

\* What is not changed is kept.
LEMMA KeptSame == ASSUME NEW h, NEW p, NEW s, Chain(h, p, s) PROVE Kept(h, h, p, s)
BY DEF Kept

\* A new node, which nobody holds.
LEMMA LostNode ==
  ASSUME ListInv, NEW c \in Cells \ DOMAIN heap, NEW x \in Contents, heap' = Made(heap, c, x)
  PROVE  /\ Sound(heap') /\ DOMAIN heap' = DOMAIN heap \cup {c}
         /\ heap'[c].next = Null /\ \A d \in DOMAIN heap : heap'[d] = heap[d]
         /\ \A p \in DOMAIN heap \cup {Null} : Kept(heap, heap', p, Path(p))
<1>1. Sound(heap) BY Ground
<1>2. Fresh(heap', heap, c, x) BY <1>1, MadeHeap
<1>3. \A p \in DOMAIN heap \cup {Null} : Chain(heap, p, Path(p)) BY Ground
<1> QED BY <1>2, <1>3 DEF Fresh

\* No list yet: the word is lost.
LEMMA SplitOnNullKeeps ==
  ASSUME ListInv, SplitOnNull
  PROVE  ListInv' /\ Simulates
<1>1. at = "split" /\ words # <<>> /\ ptr = Null /\ SplitReturns(Null)
  BY DEF SplitOnNull, Splitting
<1>2. /\ Shares(heap, lost, {}, {}, On(new), On(copy)) /\ words \in Seq(Contents)
      /\ Seen = Texts(heap, <<>>) /\ {new, copy} \subseteq DOMAIN heap \cup {Null} /\ Null \notin DOMAIN heap
  BY <1>1, Gathering, Ground
<1>3. Head(words) \in Contents BY <1>1, <1>2, HeadTailProperties
<1>4. PICK c \in Cells \ DOMAIN heap : heap' = Made(heap, c, Head(words)) /\ lost' = lost \cup {c}
  BY DEF SplitOnNull, Allocate
<1>5. /\ Sound(heap') /\ DOMAIN heap' = DOMAIN heap \cup {c}
      /\ heap'[c].next = Null /\ \A d \in DOMAIN heap : heap'[d] = heap[d]
      /\ \A p \in DOMAIN heap \cup {Null} : Kept(heap, heap', p, Path(p))
  BY <1>3, <1>4, LostNode
<1>6. Shares(heap', lost', ToSet(<<>>), {}, On(new), On(copy))
  <2>1. \A y \in lost' : heap'[y].next \in lost' \cup {Null} BY <1>2, <1>4, <1>5 DEF Shares
  <2>2. /\ DOMAIN heap' = lost' \cup On(new) \cup On(copy)
        /\ lost' \cap (On(new) \cup On(copy)) = {} /\ On(new) \cap On(copy) = {}
    <3>1. /\ DOMAIN heap = lost \cup On(new) \cup On(copy)
          /\ lost \cap (On(new) \cup On(copy)) = {} /\ On(new) \cap On(copy) = {}
      BY <1>2 DEF Shares
    <3> QED BY <1>4, <1>5, <3>1
  <2> QED BY <2>1, <2>2, ToSetOne DEF Shares
<1>7. Chain(heap', Null, <<>>) BY ChainOfNull
<1>8. ListInv' /\ Seen' = Texts(heap', <<>>) /\ Copied' = Copied
  BY <1>1, <1>2, <1>5, <1>6, <1>7, SplitReturn
<1>9. Seen' = Seen BY <1>2, <1>8 DEF Texts
<1> QED BY <1>8, <1>9 DEF Simulates

\* No memory: the list made so far is lost.
LEMMA SplitFailsKeeps ==
  ASSUME ListInv, SplitFails
  PROVE  ListInv' /\ Simulates
<1>1. at = "split" /\ words # <<>> /\ SplitReturns(Null) BY DEF SplitFails, Splitting
<1>2. /\ Shares(heap, lost, On(ptr), {}, On(new), On(copy)) /\ words \in Seq(Contents)
      /\ {new, copy, ptr} \subseteq DOMAIN heap \cup {Null} /\ Null \notin DOMAIN heap /\ Sound(heap)
      /\ \A p \in DOMAIN heap \cup {Null} : Chain(heap, p, Path(p)) /\ On(p) = ToSet(Path(p))
  BY <1>1, Gathering, Ground
<1>3. Head(words) \in Contents BY <1>1, <1>2, HeadTailProperties
<1>4. \A y \in On(ptr) : heap[y].next \in On(ptr) \cup {Null} BY <1>2, ChainNext
<1>5. /\ Sound(heap') /\ DOMAIN heap \subseteq DOMAIN heap' /\ \A d \in DOMAIN heap : heap'[d] = heap[d]
      /\ Kept(heap, heap', new, Path(new)) /\ Kept(heap, heap', copy, Path(copy))
      /\ Shares(heap', lost', ToSet(<<>>), {}, On(new), On(copy))
  <2>1. CASE UNCHANGED heap /\ lost' = lost \cup On(ptr)
    <3>1. Shares(heap, lost', ToSet(<<>>), {}, On(new), On(copy))
      BY <1>2, <1>4, <2>1, ToSetOne DEF Shares
    <3>2. heap' = heap /\ Kept(heap, heap, new, Path(new)) /\ Kept(heap, heap, copy, Path(copy))
      BY <1>2, <2>1, KeptSame
    <3> QED BY <1>2, <3>1, <3>2
  <2>2. CASE \E c \in Cells : Allocate(c, Head(words)) /\ lost' = lost \cup On(ptr) \cup {c}
    <3>1. PICK c \in Cells \ DOMAIN heap :
            heap' = Made(heap, c, Head(words)) /\ lost' = lost \cup On(ptr) \cup {c}
      BY <2>2 DEF Allocate
    <3>2. /\ Sound(heap') /\ DOMAIN heap' = DOMAIN heap \cup {c}
          /\ heap'[c].next = Null /\ \A d \in DOMAIN heap : heap'[d] = heap[d]
          /\ \A p \in DOMAIN heap \cup {Null} : Kept(heap, heap', p, Path(p))
      BY <1>3, <3>1, LostNode
    <3>3. Shares(heap', lost', ToSet(<<>>), {}, On(new), On(copy))
      <4>1. \A y \in lost \cup On(ptr) : heap'[y].next \in lost \cup On(ptr) \cup {Null}
        BY <1>2, <1>4, <3>2 DEF Shares
      <4>2. \A y \in lost' : heap'[y].next \in lost' \cup {Null} BY <3>1, <3>2, <4>1
      <4>3. /\ DOMAIN heap' = lost' \cup On(new) \cup On(copy)
            /\ lost' \cap (On(new) \cup On(copy)) = {} /\ On(new) \cap On(copy) = {}
        <5>1. /\ DOMAIN heap = lost \cup On(ptr) \cup On(new) \cup On(copy)
              /\ (lost \cup On(ptr)) \cap (On(new) \cup On(copy)) = {} /\ On(new) \cap On(copy) = {}
          BY <1>2 DEF Shares
        <5> QED BY <3>1, <3>2, <5>1
      <4> QED BY <4>2, <4>3, ToSetOne DEF Shares
    <3> QED BY <1>2, <3>2, <3>3
  <2> QED BY <2>1, <2>2 DEF SplitFails
<1>6. Chain(heap', Null, <<>>) BY ChainOfNull
<1>7. new # Null => heap'[new].next = heap[new].next BY <1>2, <1>5
<1>8. ListInv' /\ Seen' = Texts(heap', <<>>) /\ Copied' = Copied
  BY <1>1, <1>2, <1>5, <1>6, <1>7, SplitReturn
<1>9. Seen' = <<>> BY <1>8 DEF Texts
<1> QED BY <1>8, <1>9 DEF Simulates, Abstract!Next, Abstract!Change

\* All the words are in the list.
LEMMA SplitEndKeeps ==
  ASSUME ListInv, SplitEnd
  PROVE  ListInv' /\ Simulates
<1>1. at = "split" /\ SplitReturns(ptr) /\ UNCHANGED <<heap, lost>> BY DEF SplitEnd
<1>2. /\ Shares(heap, lost, ToSet(Path(ptr)), {}, On(new), On(copy)) /\ Seen = Texts(heap, Path(ptr))
      /\ {new, copy, ptr} \subseteq DOMAIN heap \cup {Null} /\ Sound(heap)
      /\ \A p \in DOMAIN heap \cup {Null} : Chain(heap, p, Path(p))
  BY <1>1, Gathering, Ground
<1>3. Kept(heap, heap, new, Path(new)) /\ Kept(heap, heap, copy, Path(copy)) BY <1>2, KeptSame
<1>4. ListInv' /\ Seen' = Texts(heap', Path(ptr)) /\ Copied' = Copied
  <2>1. heap' = heap /\ lost' = lost BY <1>1
  <2> QED BY <1>1, <1>2, <1>3, <2>1, SplitReturn
<1>5. Seen' = Seen BY <1>1, <1>2, <1>4
<1> QED BY <1>4, <1>5 DEF Simulates

-----------------------------------------------------------------------------
(* The theorems. *)

\* The chains of the invariant are all that the pointers lead to.
LEMMA RootsReach ==
  ASSUME ListInv
  PROVE  On(list) \cup On(new) \cup On(copy) \cup On(prev) \cup (IF at = "stale" THEN {} ELSE On(ptr))
         = On(Main) \cup On(Rest) \cup On(new) \cup On(copy)
<1>1. /\ Null \notin DOMAIN heap /\ {list, new, copy, prev} \subseteq DOMAIN heap \cup {Null}
      /\ (at # "stale" => ptr \in DOMAIN heap \cup {Null}) /\ On(Null) = {}
      /\ \A p \in DOMAIN heap \cup {Null} : Chain(heap, p, Path(p)) /\ On(p) = ToSet(Path(p))
  BY Ground
<1>2. \A p, q \in DOMAIN heap \cup {Null} : q \in On(p) \cup {Null} => On(q) \subseteq On(p)
  <2> TAKE p, q \in DOMAIN heap \cup {Null}
  <2> HAVE q \in On(p) \cup {Null}
  <2>1. CASE q = Null BY <1>1, <2>1
  <2>2. CASE q # Null BY <1>1, <2>2, ChainWithin
  <2> QED BY <2>1, <2>2
<1>3. CASE at \in {"caller", "del"}
  <2>1. Main = list /\ Rest = Null /\ ptr = Null /\ prev = Null BY <1>3, Quiet DEF Main, Rest
  <2> QED BY <1>1, <2>1
<1>4. CASE at = "rev"
  <2>1. Main = prev /\ Rest = ptr /\ list \in On(prev) \cup On(ptr) BY <1>4, Turning DEF Main, Rest
  <2>2. On(list) \subseteq On(prev) \cup On(ptr) BY <1>1, <1>2, <1>4, <2>1
  <2> QED BY <1>4, <2>1, <2>2
<1>5. CASE at = "map"
  <2>1. Main = list /\ Rest = Null BY <1>5 DEF Main, Rest
  <2>2. /\ ptr \in On(list) \cup {Null}
        /\ IF copy = Null THEN prev = Null ELSE prev = Path(copy)[Len(Path(copy))]
    BY <1>5 DEF ListInv, Running
  <2>3. prev \in On(copy) \cup {Null}
    <3>1. CASE copy = Null BY <2>2, <3>1
    <3>2. CASE copy # Null
      <4>1. Chain(heap, copy, Path(copy)) /\ On(copy) = ToSet(Path(copy)) BY <1>1
      <4>2. Path(copy) # <<>> BY <3>2, <4>1 DEF Chain
      <4>3. Len(Path(copy)) \in 1..Len(Path(copy)) BY <4>1, <4>2, ChainLen
      <4> QED BY <2>2, <3>2, <4>1, <4>3, ChainSet
    <3> QED BY <3>1, <3>2
  <2>4. On(ptr) \subseteq On(list) /\ On(prev) \subseteq On(copy) BY <1>1, <1>2, <1>5, <2>2, <2>3
  <2> QED BY <1>1, <1>5, <2>1, <2>4
<1>6. CASE at = "split"
  <2>1. Main = ptr /\ Rest = Null /\ list = Null /\ prev = Null BY <1>6, Gathering DEF Main, Rest
  <2> QED BY <1>1, <1>6, <2>1
<1>7. CASE at = "stale"
  <2>1. Main = list /\ Rest = Null /\ prev = Null BY <1>7 DEF Main, Rest, ListInv, Running
  <2> QED BY <1>1, <1>7, <2>1
<1> QED BY <1>3, <1>4, <1>5, <1>6, <1>7 DEF ListInv, ListTypeOK

\* The invariant accounts for every node.
LEMMA InvAccounts == ASSUME ListInv PROVE Accounted
<1> DEFINE roots == {list, new, copy, prev} \cup IF at = "stale" THEN {} ELSE {ptr}
           reach == UNION {On(p) : p \in roots}
<1>1. roots \subseteq DOMAIN heap \cup {Null} /\ \A c \in DOMAIN heap : heap[c].next \in DOMAIN heap \cup {Null}
  BY Ground DEF HeapOK
<1>2. reach = On(Main) \cup On(Rest) \cup On(new) \cup On(copy)
  <2>1. reach = On(list) \cup On(new) \cup On(copy) \cup On(prev) \cup (IF at = "stale" THEN {} ELSE On(ptr))
    OBVIOUS
  <2> QED BY <2>1, RootsReach
<1>3. DOMAIN heap = lost \cup reach /\ lost \cap reach = {}
  BY <1>2 DEF ListInv, Held, Shares
<1>4. at = "caller" => /\ On(list) \cap On(copy) = {}
                       /\ On(new) \cap (On(list) \cup On(copy)) = {}
  <2> HAVE at = "caller"
  <2>1. Shares(heap, lost, On(list), {}, On(new), On(copy)) BY Quiet
  <2> QED BY <2>1 DEF Shares
<1>5. at = "stale" => ~first BY DEF ListInv, Running
<1> QED BY <1>1, <1>3, <1>4, <1>5 DEF Accounted

\* With an empty heap every list is empty.
LEMMA ListInit ==
  ASSUME Null \notin Cells, Init
  PROVE  ListInv /\ Abstract!Init
<1>1. /\ DOMAIN heap = {} /\ heap = <<>> /\ list = Null /\ new = Null /\ copy = Null /\ at = "caller"
      /\ ptr = Null /\ prev = Null /\ words = <<>> /\ lost = {}
  BY DEF Init
<1>2. HeapOK(heap) BY <1>1 DEF HeapOK
<1>3. Sound(heap) BY <1>1, <1>2, ChainOfNull DEF Sound
<1>4. Nodes(heap, Null) = <<>> BY <1>3, ChainOfNull, NodesOfChain
<1>5. Path(Null) = <<>> /\ On(Null) = {} BY <1>4, ToSetOne DEF Path, On
<1>6. Main = Null /\ Rest = Null BY <1>1 DEF Main, Rest
<1>7. Held BY <1>1, <1>5, <1>6 DEF Held, Shares
<1>8. Running BY <1>1 DEF Running
<1>9. <<>> \in Seq(Contents) BY EmptySeq
<1>10. ListTypeOK BY <1>1, <1>9 DEF ListTypeOK
<1>11. ListInv BY <1>3, <1>7, <1>8, <1>10 DEF ListInv
<1>12. ContentsOf(Null) = <<>> BY <1>11, Ground
<1>13. Seen = <<>> /\ Copied = <<>> BY <1>1, <1>12 DEF Seen, Copied
<1> QED BY <1>11, <1>13 DEF Abstract!Init

\* Whatever the calls do, the invariant stays and ListSpec agrees.
LEMMA ListNext ==
  ASSUME ListInv, [Next]_listVars
  PROVE  ListInv' /\ Simulates
<1>1. ASSUME NEW x \in Contents, New(x) PROVE ListInv' /\ Simulates BY <1>1, NewKeeps
<1>2. ASSUME NEW x \in Contents, Iter(x) PROVE ListInv' /\ Simulates BY <1>2, IterKeeps
<1>3. CASE Add BY <1>3, AddKeeps
<1>4. CASE AppendNew BY <1>4, AppendNewKeeps
<1>5. CASE DelOne BY <1>5, DelOneKeeps
<1>6. CASE TakeCopy BY <1>6, TakeCopyKeeps
<1>7. CASE DelStep BY <1>7, DelStepKeeps
<1>8. CASE RevStart BY <1>8, RevStartKeeps
<1>9. CASE RevStep BY <1>9, RevStepKeeps
<1>10. CASE RevEnd BY <1>10, RevEndKeeps
<1>11. CASE MapStart BY <1>11, MapStartKeeps
<1>12. CASE MapStep BY <1>12, MapStepKeeps
<1>13. CASE MapFails BY <1>13, MapFailsKeeps
<1>14. CASE MapEnd BY <1>14, MapEndKeeps
<1>15. CASE SplitStart BY <1>15, SplitStartKeeps
<1>16. CASE SplitWord BY <1>16, SplitWordKeeps
<1>17. CASE SplitOnNull BY <1>17, SplitOnNullKeeps
<1>18. CASE SplitFails BY <1>18, SplitFailsKeeps
<1>19. CASE SplitEnd BY <1>19, SplitEndKeeps
<1>20. CASE UNCHANGED listVars
  <2>1. UNCHANGED <<heap, list, new, copy, at, ptr, prev, words, first, lost>> BY <1>20 DEF listVars
  <2>2. Main' = Main /\ Rest' = Rest BY <2>1 DEF Main, Rest
  <2>3. Path(list)' = Path(list) /\ Path(copy)' = Path(copy) /\ Path(ptr)' = Path(ptr) /\ Path(prev)' = Path(prev)
    BY <2>1 DEF Path
  <2>4. On(list)' = On(list) /\ On(ptr)' = On(ptr) /\ On(prev)' = On(prev) /\ On(new)' = On(new) /\ On(copy)' = On(copy)
    BY <2>1, <2>3 DEF On, Path
  <2>5. On(Main)' = On(Main) /\ On(Rest)' = On(Rest) BY <2>1, <2>2 DEF On, Path
  <2>6. Held' BY <2>1, <2>4, <2>5 DEF ListInv, Held
  <2>7. /\ ContentsOf(list)' = ContentsOf(list) /\ ContentsOf(ptr)' = ContentsOf(ptr)
        /\ ContentsOf(prev)' = ContentsOf(prev) /\ ContentsOf(copy)' = ContentsOf(copy)
    BY <2>1 DEF ContentsOf, Path
  <2>8. Running' BY <2>1, <2>3, <2>4, <2>7 DEF ListInv, Running
  <2>9. ListTypeOK' BY <2>1 DEF ListInv, ListTypeOK
  <2>10. Sound(heap') BY <2>1 DEF ListInv
  <2>11. UNCHANGED <<Seen, Copied>> BY <2>1, <2>7 DEF Seen, Copied
  <2> QED BY <2>6, <2>8, <2>9, <2>10, <2>11 DEF ListInv, Simulates
<1> QED
  BY <1>1, <1>2, <1>3, <1>4, <1>5, <1>6, <1>7, <1>8, <1>9, <1>10, <1>11, <1>12, <1>13, <1>14,
     <1>15, <1>16, <1>17, <1>18, <1>19, <1>20 DEF Next

\* The heap is without cycles and dangling pointers, and its nodes are those of the
\* chains the running call holds, each in one of them, or lost, up to where a later
\* ft_strsplit_lst starts from a stale pointer.
THEOREM ListsKeepInv == ASSUME Null \notin Cells PROVE Spec => []ListInv
<1>1. Init => ListInv BY ListInit
<1>2. ListInv /\ [Next]_listVars => ListInv' BY ListNext
<1> QED BY <1>1, <1>2, PTL DEF Spec

\* However the lists are used, wherever memory runs out and whatever the length of
\* the lists: no node is out of reach but those that three functions are known to
\* lose, none is used after it is freed, and no two lists share one, until a second or
\* later ft_strsplit_lst starts from a stale pointer; the first one never does.
THEOREM ListsAccounted == ASSUME Null \notin Cells PROVE Spec => []Accounted
<1>1. ListInv => Accounted BY InvAccounts
<1> QED BY <1>1, ListsKeepInv, PTL

\* The pointer code implements ListSpec: every turn of every loop changes the
\* caller's sequences as its function is meant to, or not at all, up to the same place.
THEOREM ListsRefine == ASSUME Null \notin Cells PROVE Spec => ListsAreSequences
<1>1. Init => Abstract!Init BY ListInit
<1>2. ListInv /\ [Next]_listVars => [Abstract!Next]_<<Seen, Copied>> BY ListNext DEF Simulates
<1> QED BY <1>1, <1>2, ListsKeepInv, PTL DEF Spec, ListsAreSequences, Abstract!Spec

-----------------------------------------------------------------------------
(***************************************************************************)
(* The bar.  Its buffer is big enough for any size of a file that, with    *)
(* the calls of a transfer, is small beside 2^Bits: on the code's machine  *)
(* 53 / 51 of 2^63 at most, beside 2^64.                                   *)
(***************************************************************************)
BarAssumption ==
  /\ Bits \in Nat /\ 2^Bits \in Nat
  /\ BarSize \in Nat /\ BarSize >= 2 /\ MaxSize \in Nat /\ MaxBlock \in Nat /\ MaxCalls \in Nat
  /\ MaxCalls < 2^Bits
  /\ (BarSize + 2) * MaxSize < BarSize * (2^Bits - MaxCalls)

\* What is drawn is always the mark of what is counted; with nothing but failed
\* calls the count has wrapped once.
BarInv ==
  /\ file_size \in 0..MaxSize /\ moved \in Nat /\ calls \in 0..MaxCalls /\ failed \in 0..calls
  /\ total \in 0..(2^Bits - 1)
  /\ file_size > 0 => marks = Bar!Marks(total, file_size)
  /\ moved = 0 => total = IF failed = 0 THEN 0 ELSE 2^Bits - failed

\* The marks of what is not more than the file leave two places in the buffer.
LEMMA FewMarks ==
  ASSUME BarAssumption, NEW size \in Nat \ {0}, NEW sent \in 0..size
  PROVE  Bar!Marks(sent, size) < BarSize - 1
<1> DEFINE rest == sent * BarSize - 2 * size
<1>1. BarSize \in Nat /\ BarSize >= 2 BY DEF BarAssumption
<1>2. CASE sent * BarSize <= 2 * size BY <1>1, <1>2 DEF Bar!Marks
<1>3. CASE ~(sent * BarSize <= 2 * size)
  <2>1. sent * BarSize \in Nat /\ size * BarSize \in Nat /\ sent * BarSize <= size * BarSize BY <1>1
  <2>2. rest \in Nat /\ rest <= size * (BarSize - 2) BY <1>1, <1>3, <2>1
  <2>3. Bar!Marks(sent, size) = (rest + size - 1) \div size BY <1>3 DEF Bar!Marks
  <2> HIDE DEF rest
  <2>4. size * (BarSize - 2) + size = size * (BarSize - 1) BY <1>1
  <2>5. rest + size - 1 < size * (BarSize - 1) BY <1>1, <2>2, <2>4
  <2>6. (rest + size - 1) \div size < BarSize - 1
    <3> DEFINE a == rest + size - 1
               k == BarSize - 1
    <3>1. a \in Nat /\ k \in Nat /\ a < size * k BY <1>1, <2>2, <2>5
    <3> HIDE DEF a, k
    <3>2. a \div size < k BY <3>1
    <3> QED BY <3>2 DEF a, k
  <2> QED BY <2>3, <2>6
<1> QED BY <1>2, <1>3

\* A count that has wrapped has more marks than places.
LEMMA ManyMarks ==
  ASSUME BarAssumption, NEW size \in 1..MaxSize, NEW n \in 1..MaxCalls
  PROVE  Bar!Marks(2^Bits - n, size) > BarSize
<1> DEFINE w == 2^Bits
           sent == w - n
           rest == sent * BarSize - 2 * size
<1>1. /\ w \in Nat /\ BarSize \in Nat /\ MaxSize \in Nat /\ MaxCalls \in Nat /\ MaxCalls < w
      /\ (BarSize + 2) * MaxSize < BarSize * (w - MaxCalls)
  BY DEF BarAssumption
<1>2. Bar!Marks(sent, size) = IF sent * BarSize <= 2 * size THEN 0 ELSE (rest + size - 1) \div size
  BY DEF Bar!Marks
<1> HIDE DEF w
<1>3. sent \in Nat /\ w - MaxCalls <= sent BY <1>1
<1> HIDE DEF sent
<1>4. BarSize * (w - MaxCalls) <= sent * BarSize BY <1>1, <1>3
<1>5. (BarSize + 2) * size <= (BarSize + 2) * MaxSize BY <1>1
<1>6. (BarSize + 2) * size < sent * BarSize /\ sent * BarSize \in Nat BY <1>1, <1>3, <1>4, <1>5
<1>7. (BarSize + 2) * size = size * BarSize + 2 * size /\ size * BarSize \in Nat BY <1>1
<1>8. rest > size * BarSize /\ rest \in Nat BY <1>6, <1>7
<1> HIDE DEF rest
<1>9. ~(sent * BarSize <= 2 * size) BY <1>1, <1>6, <1>7
<1>10. (rest + size - 1) \div size > BarSize
  <2> DEFINE a == rest + size - 1
             k == BarSize + 1
  <2>1. size * k = size * BarSize + size BY <1>1
  <2>2. a \in Nat /\ k \in Nat /\ size * k <= a BY <1>1, <1>7, <1>8, <2>1
  <2> HIDE DEF a, k
  <2>3. k <= a \div size BY <2>2
  <2>4. a \div size \in Nat BY <2>2
  <2> QED BY <1>1, <2>3, <2>4 DEF a, k
<1> QED BY <1>2, <1>9, <1>10 DEF sent, w

\* Before the first call nothing is counted or drawn.
LEMMA BarInit == ASSUME BarAssumption, Bar!Init PROVE BarInv
<1>1. /\ 2^Bits \in Nat /\ BarSize \in Nat /\ MaxSize \in Nat /\ MaxCalls \in Nat /\ MaxCalls < 2^Bits
  BY DEF BarAssumption
<1>2. ASSUME file_size > 0 PROVE Bar!Marks(0, file_size) = 0
  <2>1. file_size \in Nat BY <1>1 DEF Bar!Init
  <2> QED BY <1>1, <1>2, <2>1 DEF Bar!Marks
<1> QED BY <1>1, <1>2 DEF Bar!Init, BarInv

\* A turn of the loop, whether its call failed or not.
LEMMA BarStep ==
  ASSUME BarAssumption, BarInv, [Bar!Next]_Bar!barVars
  PROVE  BarInv'
<1> DEFINE w == 2^Bits
<1>1. w \in Nat /\ MaxCalls \in Nat /\ MaxCalls < w /\ MaxBlock \in Nat /\ MaxSize \in Nat BY DEF BarAssumption
<1>2. CASE UNCHANGED Bar!barVars BY <1>2 DEF BarInv, Bar!barVars
<1>3. ASSUME NEW len \in Nat, Bar!Count(len)
      PROVE  /\ file_size' = file_size /\ calls' = calls + 1 /\ calls + 1 \in 0..MaxCalls
             /\ total' = (total + len) % w /\ total' \in 0..(w - 1)
             /\ file_size > 0 => marks' = Bar!Marks(total', file_size)
  <2>1. calls \in 0..MaxCalls /\ total \in Nat /\ calls < MaxCalls /\ calls' = calls + 1
        /\ total' = (total + len) % w /\ file_size' = file_size /\ file_size \in Nat
        /\ marks' = IF file_size = 0 THEN marks ELSE Bar!Marks(total', file_size)
    BY <1>1, <1>3 DEF BarInv, Bar!Count
  <2> HIDE DEF w
  <2>2. (total + len) % w \in 0..(w - 1) BY <1>1, <2>1
  <2> QED BY <1>1, <2>1, <2>2
<1>4. ASSUME NEW len \in 1..MaxBlock, Bar!Moves(len) PROVE BarInv'
  <2>1. Bar!Count(len) /\ moved' = moved + len /\ failed' = failed /\ len \in Nat BY <1>1, <1>4 DEF Bar!Moves
  <2>2. moved' \in Nat /\ moved' # 0 /\ failed' \in 0..calls' BY <1>1, <1>3, <2>1 DEF BarInv
  <2> QED BY <1>3, <2>1, <2>2 DEF BarInv
<1>5. CASE Bar!Fails
  <2>1. Bar!Count(w - 1) /\ moved' = moved /\ failed' = failed + 1 /\ w - 1 \in Nat BY <1>1, <1>5 DEF Bar!Fails
  <2>2. moved' \in Nat /\ failed' \in 0..calls' /\ failed' # 0 BY <1>1, <1>3, <2>1 DEF BarInv
  <2>3. moved' = 0 => total' = w - failed'
    <3> HAVE moved' = 0
    <3>1. failed \in 0..MaxCalls /\ failed + 1 < w BY <1>1, <1>3, <2>1 DEF BarInv
    <3>2. total = IF failed = 0 THEN 0 ELSE w - failed BY <2>1 DEF BarInv
    <3> HIDE DEF w
    <3>3. CASE failed = 0
      <4>1. (w - 1) % w = w - 1 BY <1>1
      <4> QED BY <1>1, <1>3, <2>1, <3>2, <3>3, <4>1
    <3>4. CASE failed # 0
      <4> DEFINE a == (w - failed) + (w - 1)
      <4>1. a \in Nat /\ w <= a /\ a < 2 * w /\ a - w = w - (failed + 1) BY <1>1, <3>1, <3>4
      <4>2. total' = a % w BY <1>1, <1>3, <2>1, <3>2, <3>4
      <4> HIDE DEF a
      <4>3. a % w = a - w BY <1>1, <4>1
      <4> QED BY <2>1, <4>1, <4>2, <4>3
    <3> QED BY <3>3, <3>4
  <2> QED BY <1>3, <2>1, <2>2, <2>3 DEF BarInv
<1> QED BY <1>2, <1>4, <1>5 DEF Bar!Next

\* For every file and every order of calls and failures: a bar of what is really
\* there fits, and one that is drawn after failures alone never does.
THEOREM BarAlwaysFits == ASSUME BarAssumption PROVE Bar!Spec => []BarFits
<1>1. Bar!Init => BarInv BY BarInit
<1>2. BarInv /\ [Bar!Next]_Bar!barVars => BarInv' BY BarStep
<1>3. BarInv => BarFits
  <2> SUFFICES ASSUME BarInv, file_size > 0
               PROVE  /\ failed <= moved /\ moved <= file_size /\ total = moved - failed => marks < BarSize - 1
                      /\ failed > 0 /\ moved = 0 => marks > BarSize
    BY DEF BarFits, Bar!BarFits
  <2>1. /\ MaxSize \in Nat /\ MaxCalls \in Nat BY DEF BarAssumption
  <2>2. /\ file_size \in 1..MaxSize /\ moved \in Nat /\ failed \in 0..MaxCalls /\ total \in Nat
        /\ marks = Bar!Marks(total, file_size)
        /\ moved = 0 => total = IF failed = 0 THEN 0 ELSE 2^Bits - failed
    BY <2>1 DEF BarInv, BarAssumption
  <2>3. ASSUME failed <= moved, moved <= file_size, total = moved - failed PROVE marks < BarSize - 1
    <3>1. total \in 0..file_size /\ file_size \in Nat \ {0} BY <2>1, <2>2, <2>3
    <3> QED BY <2>2, <3>1, FewMarks
  <2>4. ASSUME failed > 0, moved = 0 PROVE marks > BarSize
    <3>1. failed \in 1..MaxCalls /\ total = 2^Bits - failed BY <2>1, <2>2, <2>4
    <3> QED BY <2>2, <3>1, ManyMarks
  <2> QED BY <2>3, <2>4
<1> QED BY <1>1, <1>2, <1>3, PTL DEF Bar!Spec

-----------------------------------------------------------------------------
(***************************************************************************)
(* The functions on memory.  A copy or a reversal is a fold over its bytes *)
(* that the lemmas turn into what is at each address afterwards; a search  *)
(* is the least of a set.  Each function is then what it is meant to be.   *)
(***************************************************************************)
\* A set of naturals with a bound has a greatest element.
LEMMA GreatestOf ==
  ASSUME NEW n \in Nat, NEW S, S \subseteq 1..n, S # {}
  PROVE  \E x \in S : \A y \in S : x >= y
<1> DEFINE R == {n - x : x \in S}
<1>0. \A x \in S : x \in 1..n /\ n - x \in Nat OBVIOUS
<1>1. R \subseteq Nat /\ R # {} BY <1>0
<1> HIDE DEF R
<1>2. PICK r \in R : \A y \in R : r <= y BY <1>1, LeastOf
<1>3. PICK x \in S : r = n - x BY DEF R
<1>4. \A y \in S : n - y \in R BY DEF R
<1>5. \A y \in S : r <= n - y BY <1>2, <1>4
<1> QED BY <1>3, <1>5

\* The greatest of a set.
LEMMA MaxIs ==
  ASSUME NEW n \in Nat, NEW S, S \subseteq 1..n, S # {}
  PROVE  Mem!Max(S) \in S /\ \A y \in S : Mem!Max(S) >= y
BY GreatestOf DEF Mem!Max

\* FoldLeft takes the last of the first k elements off.
LEMMA LastOff ==
  ASSUME NEW n \in Nat, NEW k \in 1..n
  PROVE  /\ 1..k \in SUBSET (1..n) /\ 1..k # {} /\ Mem!Max(1..k) = k
         /\ (1..k) \ {k} = 1..(k - 1)
<1> DEFINE S == 1..k
<1>1. \A x \in S : x \in 1..n /\ (x # k => x \in 1..(k - 1)) OBVIOUS
<1>2. k \in S /\ \A x \in 1..(k - 1) : x \in S /\ x # k OBVIOUS
<1>3. \A x \in S : x <= k /\ x \in Nat OBVIOUS
<1> HIDE DEF S
<1>4. S \subseteq 1..n /\ S # {} BY <1>1, <1>2
<1>5. Mem!Max(S) \in S /\ \A y \in S : Mem!Max(S) >= y BY <1>4, MaxIs
<1>6. Mem!Max(S) = k
  <2> DEFINE x == Mem!Max(S)
  <2>1. x \in S /\ x >= k /\ x <= k /\ x \in Nat BY <1>2, <1>3, <1>5
  <2> HIDE DEF x
  <2>2. x = k BY <2>1
  <2> QED BY <2>2 DEF x
<1>7. S \ {k} = 1..(k - 1) BY <1>1, <1>2
<1> QED BY <1>4, <1>6, <1>7 DEF S

\* Two functions that agree on the empty set, and on one more element whenever they
\* agree on those before it.
LEMMA OneByOne ==
  ASSUME NEW n \in Nat, NEW f, NEW g, f[{}] = g[{}],
         \A k \in 1..n : f[1..(k - 1)] = g[1..(k - 1)] => f[1..k] = g[1..k]
  PROVE  f[1..n] = g[1..n]
<1> DEFINE W == {k \in 0..n : f[1..k] # g[1..k]}
<1>1. W = {}
  <2> SUFFICES ASSUME W # {} PROVE FALSE OBVIOUS
  <2>1. PICK k \in W : \A j \in W : k <= j
    <3>1. W \subseteq Nat OBVIOUS
    <3> HIDE DEF W
    <3> QED BY <3>1, LeastOf
  <2>2. k \in 0..n /\ f[1..k] # g[1..k] OBVIOUS
  <2>3. CASE k = 0
    <3>1. 1..k = {} BY <2>3
    <3> QED BY <2>2, <3>1
  <2>4. CASE k # 0
    <3>1. k \in 1..n /\ k - 1 \in 0..n /\ ~(k <= k - 1) BY <2>2, <2>4
    <3>2. k - 1 \notin W BY <2>1, <3>1
    <3>3. f[1..(k - 1)] = g[1..(k - 1)] BY <3>1, <3>2
    <3> QED BY <2>2, <3>1, <3>3
  <2> QED BY <2>3, <2>4
<1>2. n \in 0..n OBVIOUS
<1> QED BY <1>1, <1>2

\* Bytes copied one after the other, none of them from where another has been put.
CopiedFrom(m, d, s, is, S) ==
  [x \in Mem!Address |-> IF \E i \in S : x = d + is[i] THEN m[s + (x - d)] ELSE m[x]]

\* b is a with one more byte copied.
Follows(b, a, d, s, i) == b = [a EXCEPT ![d + i] = a[s + i]]

\* The byte that is copied last.
LEMMA CopiedOneMore ==
  ASSUME NEW V, NEW m \in [Mem!Address -> V], NEW d \in Int, NEW s \in Int, NEW n \in Nat, NEW is \in [1..n -> Int],
         \A i \in 1..n : d + is[i] \in Mem!Address /\ s + is[i] \in Mem!Address,
         \A i, j \in 1..n : i < j => d + is[i] # s + is[j],
         NEW S \in SUBSET (1..n), S # {}, NEW k, k = Mem!Max(S), NEW a, a = CopiedFrom(m, d, s, is, S \ {k})
  PROVE  Follows(CopiedFrom(m, d, s, is, S), a, d, s, is[k])
<1> DEFINE T == S \ {k}
           b == CopiedFrom(m, d, s, is, S)
<1>1. k \in S /\ k \in 1..n /\ \A i \in T : i < k /\ i \in 1..n
  <2>1. S \subseteq 1..n OBVIOUS
  <2>2. k \in S /\ \A y \in S : k >= y BY <2>1, MaxIs
  <2>3. \A i \in T : i \in S /\ i # k OBVIOUS
  <2> HIDE DEF T
  <2>4. \A i \in T : i \in 1..n /\ k \in 1..n /\ k >= i BY <2>1, <2>2, <2>3
  <2>5. \A i \in T : i < k BY <2>3, <2>4
  <2> QED BY <2>1, <2>2, <2>4, <2>5
<1>2. is[k] \in Int /\ \A i \in T : is[i] \in Int BY <1>1
<1>3. d + is[k] \in Mem!Address /\ s + is[k] \in Mem!Address BY <1>1
<1>4. ASSUME NEW R \in SUBSET (1..n) PROVE CopiedFrom(m, d, s, is, R) \in [Mem!Address -> V]
  <2>1. ASSUME NEW x \in Mem!Address, NEW i \in R, x = d + is[i] PROVE m[s + (x - d)] \in V
    <3>1. i \in 1..n /\ is[i] \in Int OBVIOUS
    <3>2. s + (x - d) = s + is[i] BY <2>1, <3>1
    <3> QED BY <3>1, <3>2
  <2> QED BY <2>1 DEF CopiedFrom
<1>5. a \in [Mem!Address -> V] /\ b \in [Mem!Address -> V] BY <1>4
<1>6. a[s + is[k]] = m[s + is[k]]
  <2>1. \A i \in T : s + is[k] # d + is[i] BY <1>1
  <2> QED BY <1>3, <2>1 DEF CopiedFrom
<1>7. S = T \cup {k} BY <1>1
<1>8. ASSUME NEW x \in Mem!Address PROVE b[x] = [a EXCEPT ![d + is[k]] = a[s + is[k]]][x]
  <2>1. CASE x = d + is[k]
    <3>1. s + (x - d) = s + is[k] BY <1>2, <2>1
    <3>2. b[x] = m[s + (x - d)] BY <1>1, <2>1 DEF CopiedFrom
    <3> HIDE DEF b
    <3> QED BY <1>3, <1>5, <1>6, <2>1, <3>1, <3>2
  <2>2. CASE x # d + is[k]
    <3>1. b[x] = a[x] BY <1>7, <2>2 DEF CopiedFrom
    <3> HIDE DEF b
    <3> QED BY <1>5, <2>2, <3>1
  <2> QED BY <2>1, <2>2
<1> HIDE DEF b
<1>9. b = [a EXCEPT ![d + is[k]] = a[s + is[k]]] BY <1>5, <1>8
<1> QED BY <1>9 DEF b, Follows

\* The fold of Move.
LEMMA MoveIs ==
  ASSUME NEW V, NEW m \in [Mem!Address -> V], NEW d \in Int, NEW s \in Int, NEW n \in Nat, NEW is \in [1..n -> Int],
         \A i \in 1..n : d + is[i] \in Mem!Address /\ s + is[i] \in Mem!Address,
         \A i, j \in 1..n : i < j => d + is[i] # s + is[j]
  PROVE  Mem!Move(m, d, s, is) = CopiedFrom(m, d, s, is, 1..n)
<1> DEFINE F(f) == [S \in SUBSET (1..n) |->
                      IF S = {} THEN m
                      ELSE [f[S \ {Mem!Max(S)}] EXCEPT ![d + is[Mem!Max(S)]] = f[S \ {Mem!Max(S)}][s + is[Mem!Max(S)]]]]
           g == [S \in SUBSET (1..n) |-> CopiedFrom(m, d, s, is, S)]
           it == CHOOSE f : f = F(f)
<1>1. Mem!Move(m, d, s, is) = it[1..n]
  <2>1. DOMAIN is = 1..n OBVIOUS
  <2> QED BY <2>1 DEF Mem!Move, Mem!FoldLeft, Mem!MapThenFoldSet
<1>2. CopiedFrom(m, d, s, is, {}) = m BY DEF CopiedFrom
<1>3. ASSUME NEW S \in SUBSET (1..n), S # {}, NEW k, k = Mem!Max(S), NEW a, a = CopiedFrom(m, d, s, is, S \ {k})
      PROVE  Follows(CopiedFrom(m, d, s, is, S), a, d, s, is[k])
  <2> HIDE DEF F, g, it
  <2> QED BY <1>3, CopiedOneMore
<1>4. g = F(g)
  <2>1. \A S \in SUBSET (1..n) : g[S] = F(g)[S]
    <3> TAKE S \in SUBSET (1..n)
    <3>1. CASE S = {} BY <1>2, <3>1
    <3>2. CASE S # {}
      <4> DEFINE k == Mem!Max(S)
      <4>1. S \ {k} \in SUBSET (1..n) OBVIOUS
      <4>2. LET a == g[S \ {k}] IN g[S] = [a EXCEPT ![d + is[k]] = a[s + is[k]]]
        <5>1. g[S] = CopiedFrom(m, d, s, is, S) /\ g[S \ {k}] = CopiedFrom(m, d, s, is, S \ {k}) BY <4>1
        <5> HIDE DEF g
        <5> QED BY <1>3, <3>2, <5>1 DEF Follows
      <4> QED BY <3>2, <4>2
    <3> QED BY <3>1, <3>2
  <2> QED BY <2>1
<1>5. it = F(it)
  <2> HIDE DEF g, F
  <2> QED BY <1>4
<1>6. it[{}] = g[{}]
  <2>1. it[{}] = m /\ g[{}] = m BY <1>2, <1>5
  <2> QED BY <2>1
<1>7. ASSUME NEW k \in 1..n, it[1..(k - 1)] = g[1..(k - 1)] PROVE it[1..k] = g[1..k]
  <2> DEFINE S == 1..k
  <2>1. S \in SUBSET (1..n) /\ S # {} /\ Mem!Max(S) = k /\ S \ {k} = 1..(k - 1) BY LastOff
  <2> HIDE DEF S
  <2>2. S \ {k} \in SUBSET (1..n) BY <2>1
  <2>3. LET a == it[S \ {k}] IN it[S] = [a EXCEPT ![d + is[k]] = a[s + is[k]]]
    <3> HIDE DEF it
    <3> QED BY <1>5, <2>1
  <2> HIDE DEF it
  <2>4. it[S \ {k}] = CopiedFrom(m, d, s, is, S \ {k}) BY <1>7, <2>1, <2>2
  <2>5. it[S] = CopiedFrom(m, d, s, is, S)
    <3> DEFINE a == it[S \ {k}]
    <3>1. a = CopiedFrom(m, d, s, is, S \ {k}) /\ it[S] = [a EXCEPT ![d + is[k]] = a[s + is[k]]] BY <2>3, <2>4
    <3> HIDE DEF a
    <3>2. Follows(CopiedFrom(m, d, s, is, S), a, d, s, is[k]) BY <1>3, <2>1, <3>1
    <3> QED BY <3>1, <3>2 DEF Follows
  <2> QED BY <2>1, <2>5 DEF S
<1>8. it[1..n] = g[1..n]
  <2> HIDE DEF it, g
  <2> QED BY <1>6, <1>7, OneByOne
<1>9. g[1..n] = CopiedFrom(m, d, s, is, 1..n) OBVIOUS
<1> HIDE DEF it, g
<1> QED BY <1>1, <1>8, <1>9

\* n bytes of memory from s on.
Within(s, n) == \A x \in s..(s + n - 1) : x \in Mem!Address

\* The string of length len at s, with the outermost pairs S of its bytes swapped.
Turned(m, s, len, S) ==
  [x \in Mem!Address |-> IF \E i \in S : x = s + (i - 1) \/ x = s + len - i THEN m[2 * s + len - 1 - x] ELSE m[x]]

\* b is a with two bytes swapped.
Exchanged(b, a, p, q) == b = [a EXCEPT ![p] = a[q], ![q] = a[p]]

\* The innermost pair.
LEMMA TurnedOneMore ==
  ASSUME NEW V, NEW m \in [Mem!Address -> V], NEW s \in Int, NEW len \in Nat, NEW n \in Nat, 2 * n <= len,
         Within(s, len),
         NEW S \in SUBSET (1..n), S # {}, NEW k, k = Mem!Max(S), NEW a, a = Turned(m, s, len, S \ {k})
  PROVE  Exchanged(Turned(m, s, len, S), a, s + (k - 1), s + len - 1 - (k - 1))
<1> DEFINE T == S \ {k}
           b == Turned(m, s, len, S)
           p == s + (k - 1)
           q == s + len - 1 - (k - 1)
<1>1. k \in S /\ k \in 1..n /\ \A i \in T : i < k /\ i \in 1..n
  <2>1. S \subseteq 1..n OBVIOUS
  <2>2. k \in S /\ \A y \in S : k >= y BY <2>1, MaxIs
  <2>3. \A i \in T : i \in S /\ i # k OBVIOUS
  <2> HIDE DEF T, b, p, q
  <2>4. \A i \in T : i \in 1..n /\ k \in 1..n /\ k >= i BY <2>1, <2>2, <2>3
  <2>5. \A i \in T : i < k BY <2>3, <2>4
  <2> QED BY <2>1, <2>2, <2>4, <2>5
<1>2. /\ p \in s..(s + len - 1) /\ q \in s..(s + len - 1) /\ p < q /\ p = s + (k - 1) /\ q = s + len - k
      /\ 2 * s + len - 1 - p = q /\ 2 * s + len - 1 - q = p
  BY <1>1
<1>3. ASSUME NEW i \in T PROVE s + (i - 1) < p /\ s + len - i > q /\ s + (i - 1) # q /\ s + len - i # p
  <2>1. i \in 1..n /\ i < k /\ k \in 1..n BY <1>1
  <2> HIDE DEF T, b
  <2> QED BY <1>2, <2>1
<1> HIDE DEF p, q
<1>4. p \in Mem!Address /\ q \in Mem!Address /\ p \in Int /\ q \in Int BY <1>2 DEF Within
<1>5. ASSUME NEW R \in SUBSET (1..n) PROVE Turned(m, s, len, R) \in [Mem!Address -> V]
  <2>1. ASSUME NEW x \in Mem!Address, NEW i \in R, x = s + (i - 1) \/ x = s + len - i
        PROVE  m[2 * s + len - 1 - x] \in V
    <3>1. i \in 1..n OBVIOUS
    <3>2. 2 * s + len - 1 - x \in s..(s + len - 1) BY <2>1, <3>1
    <3> QED BY <3>2 DEF Within
  <2> QED BY <2>1 DEF Turned
<1>6. a \in [Mem!Address -> V] /\ b \in [Mem!Address -> V] BY <1>5
<1>7. a[p] = m[p] /\ a[q] = m[q]
  <2>1. \A i \in T : p # s + (i - 1) /\ p # s + len - i /\ q # s + (i - 1) /\ q # s + len - i
    <3> TAKE i \in T
    <3>1. s + (i - 1) < p /\ s + len - i > q /\ s + (i - 1) # q /\ s + len - i # p BY <1>3
    <3>2. i \in Int BY <1>1
    <3> QED BY <1>4, <3>1, <3>2
  <2> QED BY <1>4, <2>1 DEF Turned
<1>8. S = T \cup {k} BY <1>1
<1>9. b[p] = m[q] /\ b[q] = m[p]
  <2>1. k \in S /\ p = s + (k - 1) /\ q = s + len - k BY <1>1, <1>2
  <2> QED BY <1>2, <1>4, <2>1 DEF Turned
<1>10. ASSUME NEW x \in Mem!Address, x # p, x # q PROVE b[x] = a[x]
  <2>1. (\E i \in S : x = s + (i - 1) \/ x = s + len - i) <=> (\E i \in T : x = s + (i - 1) \/ x = s + len - i)
    BY <1>2, <1>8, <1>10
  <2> QED BY <2>1 DEF Turned
<1> HIDE DEF b, T
<1>11. b = [a EXCEPT ![p] = a[q], ![q] = a[p]]
  <2>1. p # q BY <1>2, <1>4
  <2>2. \A x \in Mem!Address : b[x] = [a EXCEPT ![p] = a[q], ![q] = a[p]][x]
    <3> TAKE x \in Mem!Address
    <3>1. CASE x = p BY <1>4, <1>6, <1>7, <1>9, <2>1, <3>1
    <3>2. CASE x = q BY <1>4, <1>6, <1>7, <1>9, <2>1, <3>2
    <3>3. CASE x # p /\ x # q BY <1>4, <1>6, <1>10, <3>3
    <3> QED BY <3>1, <3>2, <3>3
  <2> QED BY <1>6, <2>2
<1> QED BY <1>11 DEF b, p, q, Exchanged

\* The fold of Strrev.
LEMMA StrrevIs ==
  ASSUME NEW V, NEW m \in [Mem!Address -> V], NEW s \in Int, Mem!StrLen(m, s) \in Nat,
         Within(s, Mem!StrLen(m, s))
  PROVE  Mem!Strrev(m, s) = Turned(m, s, Mem!StrLen(m, s), 1..(Mem!StrLen(m, s) \div 2))
<1> DEFINE len == Mem!StrLen(m, s)
           n == len \div 2
           is == Mem!Up(n)
           F(f) == [S \in SUBSET (1..n) |->
                      IF S = {} THEN m
                      ELSE [f[S \ {Mem!Max(S)}] EXCEPT
                              ![s + is[Mem!Max(S)]] = f[S \ {Mem!Max(S)}][s + len - 1 - is[Mem!Max(S)]],
                              ![s + len - 1 - is[Mem!Max(S)]] = f[S \ {Mem!Max(S)}][s + is[Mem!Max(S)]]]]
           g == [S \in SUBSET (1..n) |-> Turned(m, s, len, S)]
           it == CHOOSE f : f = F(f)
<1>1. n \in Nat /\ 2 * n <= len OBVIOUS
<1>2. DOMAIN is = 1..n /\ \A k \in 1..n : is[k] = k - 1 BY DEF Mem!Up
<1>3. Mem!Strrev(m, s) = it[1..n]
  <2> HIDE DEF is
  <2> QED BY <1>2 DEF Mem!Strrev, Mem!FoldLeft, Mem!MapThenFoldSet, is
<1> HIDE DEF len, n, is
<1>4. Turned(m, s, len, {}) = m BY DEF Turned
<1>5. ASSUME NEW S \in SUBSET (1..n), S # {}, NEW k, k = Mem!Max(S), NEW a, a = Turned(m, s, len, S \ {k})
      PROVE  Exchanged(Turned(m, s, len, S), a, s + is[k], s + len - 1 - is[k])
  <2> HIDE DEF F, g, it
  <2>1. Exchanged(Turned(m, s, len, S), a, s + (k - 1), s + len - 1 - (k - 1))
    BY <1>1, <1>5, TurnedOneMore DEF len
  <2>2. k \in 1..n
    <3>1. S \subseteq 1..n OBVIOUS
    <3> QED BY <1>1, <1>5, <3>1, MaxIs
  <2> QED BY <1>2, <2>1, <2>2
<1>6. g = F(g)
  <2>1. \A S \in SUBSET (1..n) : g[S] = F(g)[S]
    <3> TAKE S \in SUBSET (1..n)
    <3>1. CASE S = {} BY <1>4, <3>1
    <3>2. CASE S # {}
      <4> DEFINE k == Mem!Max(S)
      <4>1. S \ {k} \in SUBSET (1..n) OBVIOUS
      <4>2. LET a == g[S \ {k}]
            IN  g[S] = [a EXCEPT ![s + is[k]] = a[s + len - 1 - is[k]], ![s + len - 1 - is[k]] = a[s + is[k]]]
        <5>1. g[S] = Turned(m, s, len, S) /\ g[S \ {k}] = Turned(m, s, len, S \ {k}) BY <4>1
        <5> HIDE DEF g
        <5> QED BY <1>5, <3>2, <5>1 DEF Exchanged
      <4> QED BY <3>2, <4>2
    <3> QED BY <3>1, <3>2
  <2> QED BY <2>1
<1>7. it = F(it)
  <2> HIDE DEF g, F
  <2> QED BY <1>6
<1>8. it[{}] = g[{}]
  <2>1. it[{}] = m /\ g[{}] = m BY <1>4, <1>7
  <2> QED BY <2>1
<1>9. ASSUME NEW k \in 1..n, it[1..(k - 1)] = g[1..(k - 1)] PROVE it[1..k] = g[1..k]
  <2> DEFINE S == 1..k
  <2>1. S \in SUBSET (1..n) /\ S # {} /\ Mem!Max(S) = k /\ S \ {k} = 1..(k - 1) BY <1>1, LastOff
  <2> HIDE DEF S
  <2>2. S \ {k} \in SUBSET (1..n) BY <2>1
  <2>3. LET a == it[S \ {k}]
        IN  it[S] = [a EXCEPT ![s + is[k]] = a[s + len - 1 - is[k]], ![s + len - 1 - is[k]] = a[s + is[k]]]
    <3> HIDE DEF it
    <3> QED BY <1>7, <2>1
  <2> HIDE DEF it
  <2>4. it[S \ {k}] = Turned(m, s, len, S \ {k}) BY <1>9, <2>1, <2>2
  <2>5. it[S] = Turned(m, s, len, S)
    <3> DEFINE a == it[S \ {k}]
    <3>1. /\ a = Turned(m, s, len, S \ {k})
          /\ it[S] = [a EXCEPT ![s + is[k]] = a[s + len - 1 - is[k]], ![s + len - 1 - is[k]] = a[s + is[k]]]
      BY <2>3, <2>4
    <3> HIDE DEF a
    <3>2. Exchanged(Turned(m, s, len, S), a, s + is[k], s + len - 1 - is[k]) BY <1>5, <2>1, <3>1
    <3> QED BY <3>1, <3>2 DEF Exchanged
  <2> QED BY <2>1, <2>5 DEF S
<1>10. it[1..n] = g[1..n]
  <2> HIDE DEF it, g
  <2> QED BY <1>1, <1>8, <1>9, OneByOne
<1>11. g[1..n] = Turned(m, s, len, 1..n) OBVIOUS
<1> HIDE DEF it, g
<1> QED BY <1>3, <1>10, <1>11 DEF len, n

\* The least of a set.
LEMMA MinIs ==
  ASSUME NEW S, S \subseteq Nat, S # {}
  PROVE  Mem!Min(S) \in S /\ \A y \in S : Mem!Min(S) <= y
BY LeastOf DEF Mem!Min

\* An element below the others is the least.
LEMMA MinOf ==
  ASSUME NEW S, S \subseteq Nat, NEW x \in S, \A y \in S : x <= y
  PROVE  Mem!Min(S) = x
<1> DEFINE y == Mem!Min(S)
<1>1. y \in S /\ y <= x /\ x <= y BY MinIs
<1>2. x \in Nat /\ y \in Nat BY <1>1
<1> HIDE DEF y
<1>3. y = x BY <1>1, <1>2
<1> QED BY <1>3 DEF y

\* The lesser of two.
LEMMA MinOfTwo ==
  ASSUME NEW a \in Nat, NEW b \in Nat
  PROVE  Mem!Min({a, b}) = IF a <= b THEN a ELSE b
<1>1. {a, b} \subseteq Nat /\ a \in {a, b} /\ b \in {a, b} OBVIOUS
<1>2. CASE a <= b
  <2>1. \A y \in {a, b} : a <= y BY <1>2
  <2> QED BY <1>1, <1>2, <2>1, MinOf
<1>3. CASE ~(a <= b)
  <2>1. \A y \in {a, b} : b <= y BY <1>3
  <2> QED BY <1>1, <1>3, <2>1, MinOf
<1> QED BY <1>2, <1>3

\* The sequence b holds them.
Holding(b, V, m, s, n) ==
  b \in Seq(V) /\ Len(b) = n /\ DOMAIN b = 1..n /\ \A i \in 1..n : b[i] = m[s + i - 1]

\* The bytes in a region of memory.
LEMMA BytesIs ==
  ASSUME NEW V, NEW m \in [Mem!Address -> V], NEW s \in Int, NEW n \in Nat,
         Within(s, n)
  PROVE  Holding(Mem!Bytes(m, s, n), V, m, s, n)
<1> DEFINE b == Mem!Bytes(m, s, n)
<1>1. DOMAIN b = 1..n /\ \A i \in 1..n : b[i] = m[s + i - 1] BY DEF Mem!Bytes
<1>2. b \in [1..n -> V]
  <2>1. \A i \in 1..n : m[s + i - 1] \in V BY DEF Within
  <2> QED BY <2>1 DEF Mem!Bytes
<1> HIDE DEF b
<1>3. b \in Seq(V) BY <1>2, SeqDef
<1>4. Len(b) = n BY <1>2, <1>3, LenProperties
<1> QED BY <1>1, <1>3, <1>4 DEF b, Holding

\* Bytes copied upwards, to a region below or apart.
LEMMA MoveUp ==
  ASSUME NEW V, NEW m \in [Mem!Address -> V], NEW d \in Int, NEW s \in Int, NEW n \in Nat,
         Within(d, n), Within(s, n),
         d <= s \/ s + n <= d
  PROVE  Mem!Move(m, d, s, Mem!Up(n)) = Mem!Put(m, d, Mem!Bytes(m, s, n))
<1> DEFINE is == Mem!Up(n)
<1>1. is \in [1..n -> Int] /\ \A i \in 1..n : is[i] = i - 1 BY DEF Mem!Up
<1> HIDE DEF is
<1>2. \A i \in 1..n : d + is[i] \in Mem!Address /\ s + is[i] \in Mem!Address
  <2> TAKE i \in 1..n
  <2>1. d + is[i] \in d..(d + n - 1) /\ s + is[i] \in s..(s + n - 1) BY <1>1
  <2> QED BY <2>1 DEF Within
<1>3. \A i, j \in 1..n : i < j => d + is[i] # s + is[j] BY <1>1
<1>4. Mem!Move(m, d, s, is) = CopiedFrom(m, d, s, is, 1..n) BY <1>1, <1>2, <1>3, MoveIs
<1>5. CopiedFrom(m, d, s, is, 1..n) = Mem!Put(m, d, Mem!Bytes(m, s, n))
  <2>1. ASSUME NEW x \in Mem!Address
        PROVE  (IF \E i \in 1..n : x = d + is[i] THEN m[s + (x - d)] ELSE m[x])
                 = (IF x - d + 1 \in DOMAIN Mem!Bytes(m, s, n) THEN Mem!Bytes(m, s, n)[x - d + 1] ELSE m[x])
    <3>0. x \in Int BY DEF Mem!Address
    <3>1. (\E i \in 1..n : x = d + is[i]) <=> x - d + 1 \in 1..n
      <4>1. ASSUME NEW i \in 1..n, x = d + is[i] PROVE x - d + 1 \in 1..n BY <1>1, <3>0, <4>1
      <4>2. ASSUME x - d + 1 \in 1..n PROVE x = d + is[x - d + 1] BY <1>1, <3>0, <4>2
      <4> QED BY <4>1, <4>2
    <3>2. x - d + 1 \in 1..n => Mem!Bytes(m, s, n)[x - d + 1] = m[s + (x - d + 1) - 1] BY DEF Mem!Bytes
    <3>3. s + (x - d + 1) - 1 = s + (x - d) BY <3>0
    <3>4. DOMAIN Mem!Bytes(m, s, n) = 1..n BY DEF Mem!Bytes
    <3> QED BY <3>1, <3>2, <3>3, <3>4
  <2> QED BY <2>1 DEF CopiedFrom, Mem!Put
<1> QED BY <1>4, <1>5 DEF is

\* Bytes copied downwards, to a region above.
LEMMA MoveDown ==
  ASSUME NEW V, NEW m \in [Mem!Address -> V], NEW d \in Int, NEW s \in Int, NEW n \in Nat,
         Within(d, n), Within(s, n),
         d > s
  PROVE  Mem!Move(m, d, s, Mem!Down(n)) = Mem!Put(m, d, Mem!Bytes(m, s, n))
<1> DEFINE is == Mem!Down(n)
<1>1. is \in [1..n -> Int] /\ \A i \in 1..n : is[i] = n - i BY DEF Mem!Down
<1> HIDE DEF is
<1>2. \A i \in 1..n : d + is[i] \in Mem!Address /\ s + is[i] \in Mem!Address
  <2> TAKE i \in 1..n
  <2>1. d + is[i] \in d..(d + n - 1) /\ s + is[i] \in s..(s + n - 1) BY <1>1
  <2> QED BY <2>1 DEF Within
<1>3. \A i, j \in 1..n : i < j => d + is[i] # s + is[j] BY <1>1
<1>4. Mem!Move(m, d, s, is) = CopiedFrom(m, d, s, is, 1..n) BY <1>1, <1>2, <1>3, MoveIs
<1>5. CopiedFrom(m, d, s, is, 1..n) = Mem!Put(m, d, Mem!Bytes(m, s, n))
  <2>1. ASSUME NEW x \in Mem!Address
        PROVE  (IF \E i \in 1..n : x = d + is[i] THEN m[s + (x - d)] ELSE m[x])
                 = (IF x - d + 1 \in DOMAIN Mem!Bytes(m, s, n) THEN Mem!Bytes(m, s, n)[x - d + 1] ELSE m[x])
    <3>0. x \in Int BY DEF Mem!Address
    <3>1. (\E i \in 1..n : x = d + is[i]) <=> x - d + 1 \in 1..n
      <4>1. ASSUME NEW i \in 1..n, x = d + is[i] PROVE x - d + 1 \in 1..n BY <1>1, <3>0, <4>1
      <4>2. ASSUME x - d + 1 \in 1..n PROVE n - (x - d) \in 1..n /\ x = d + is[n - (x - d)]
        BY <1>1, <3>0, <4>2
      <4> QED BY <4>1, <4>2
    <3>2. x - d + 1 \in 1..n => Mem!Bytes(m, s, n)[x - d + 1] = m[s + (x - d + 1) - 1] BY DEF Mem!Bytes
    <3>3. s + (x - d + 1) - 1 = s + (x - d) BY <3>0
    <3>4. DOMAIN Mem!Bytes(m, s, n) = 1..n BY DEF Mem!Bytes
    <3> QED BY <3>1, <3>2, <3>3, <3>4
  <2> QED BY <2>1 DEF CopiedFrom, Mem!Put
<1> QED BY <1>4, <1>5 DEF is

\* ft_memmove, whether the regions overlap or not.
LEMMA MemmoveMeant ==
  ASSUME NEW V, NEW m \in [Mem!Address -> V], NEW d \in Int, NEW s \in Int, NEW n \in Nat,
         Within(d, n), Within(s, n)
  PROVE  Mem!Memmove(m, d, s, n) = Mem!Put(m, d, Mem!Bytes(m, s, n))
<1>1. CASE d <= s BY <1>1, MoveUp DEF Mem!Memmove
<1>2. CASE ~(d <= s) BY <1>2, MoveDown DEF Mem!Memmove
<1> QED BY <1>1, <1>2

\* len bytes at s are followed by the first NUL.
Ends(m, s, len) == len \in 0..(Size - s - 1) /\ m[s + len] = NUL /\ \A i \in 0..(len - 1) : m[s + i] # NUL

\* The length of a string.
LEMMA StrLenIs ==
  ASSUME Size \in Nat, NEW m, NEW s \in Nat, Mem!IsString(m, s)
  PROVE  s < Size /\ Mem!StrLen(m, s) \in Nat /\ Ends(m, s, Mem!StrLen(m, s))
<1> DEFINE S == {i \in 0..(Size - s - 1) : m[s + i] = NUL}
<1>1. PICK a \in s..(Size - 1) : m[a] = NUL BY DEF Mem!IsString
<1>2. a - s \in 0..(Size - s - 1) /\ s + (a - s) = a BY <1>1
<1>3. S # {} BY <1>1, <1>2
<1>4. S \subseteq Nat OBVIOUS
<1>5. Mem!StrLen(m, s) = Mem!Min(S) BY DEF Mem!StrLen
<1>6. Mem!Min(S) \in S /\ \A y \in S : Mem!Min(S) <= y
  <2> HIDE DEF S
  <2> QED BY <1>3, <1>4, MinIs
<1> DEFINE l == Mem!Min(S)
<1>7. l \in 0..(Size - s - 1) /\ m[s + l] = NUL BY <1>6
<1>8. ASSUME NEW i \in 0..(l - 1) PROVE m[s + i] # NUL
  <2>1. i \in 0..(Size - s - 1) /\ ~(l <= i) BY <1>7
  <2>2. i \notin S BY <1>6, <2>1
  <2> QED BY <2>1, <2>2
<1> HIDE DEF l
<1> QED BY <1>1, <1>5, <1>7, <1>8 DEF Ends, l

\* A string has one length.
LEMMA OneEnd ==
  ASSUME Size \in Nat, NEW m, NEW s \in Nat, NEW k, NEW l, Ends(m, s, k), Ends(m, s, l)
  PROVE  k = l
<1>1. k \in 0..(Size - s - 1) /\ l \in 0..(Size - s - 1) BY DEF Ends
<1>2. CASE k < l
  <2>1. k \in 0..(l - 1) BY <1>1, <1>2
  <2> QED BY <2>1 DEF Ends
<1>3. CASE l < k
  <2>1. l \in 0..(k - 1) BY <1>1, <1>3
  <2> QED BY <2>1 DEF Ends
<1> QED BY <1>1, <1>2, <1>3

\* The piece of a sequence from a to b has length k; held from s on, it begins at u.
Cut(s, a, b, u, k) == u = s + a - 1 /\ k = b - a + 1

\* A piece of the bytes of a region.
LEMMA PieceHeld ==
  ASSUME NEW V, NEW m, NEW s \in Int, NEW n \in Nat, NEW t, Holding(t, V, m, s, n),
         NEW a \in 1..(n + 1), NEW b \in 0..n, a <= b + 1, NEW u, NEW k, Cut(s, a, b, u, k)
  PROVE  Holding(SubSeq(t, a, b), V, m, u, k)
<1> DEFINE p == SubSeq(t, a, b)
<1>0. u = s + a - 1 /\ k = b - a + 1 BY DEF Cut
<1>1. t \in Seq(V) /\ Len(t) = n /\ \A i \in 1..n : t[i] = m[s + i - 1] BY DEF Holding
<1>2. p \in Seq(V) /\ Len(p) = (IF a <= b THEN b - a + 1 ELSE 0) /\ \A i \in 1..(b - a + 1) : p[i] = t[a + i - 1]
  BY <1>1, Piece
<1> HIDE DEF p
<1>3. ASSUME NEW i \in 1..k PROVE p[i] = m[u + i - 1]
  <2>1. i \in 1..(b - a + 1) /\ a + i - 1 \in 1..n /\ s + (a + i - 1) - 1 = u + i - 1 BY <1>0
  <2> QED BY <1>1, <1>2, <2>1
<1>4. Len(p) = k BY <1>0, <1>2
<1>5. DOMAIN p = 1..k BY <1>2, <1>4, LenProperties
<1>6. Holding(p, V, m, u, k) BY <1>2, <1>3, <1>4, <1>5 DEF Holding
<1> QED BY <1>6 DEF p

\* The first of them.
LEMMA PrefixHeld ==
  ASSUME NEW V, NEW m, NEW s \in Int, NEW n \in Nat, NEW t, Holding(t, V, m, s, n), NEW k \in 0..n
  PROVE  Holding(SubSeq(t, 1, k), V, m, s, k)
<1>1. 1 \in 1..(n + 1) /\ 1 <= k + 1 /\ Cut(s, 1, k, s, k) BY DEF Cut
<1> QED BY <1>1, PieceHeld

\* Two sequences that hold the same bytes.
LEMMA SameHeld ==
  ASSUME NEW V, NEW m, NEW s, NEW n, NEW t, Holding(t, V, m, s, n), NEW u, Holding(u, V, m, s, n)
  PROVE  t = u
BY Same DEF Holding

\* The bytes src up to the first c put at d, and the address behind it.
CopiedTo(m, d, c, src) ==
  LET upto == {i \in DOMAIN src : src[i] = c}
  IN IF upto = {} THEN <<Mem!Put(m, d, src), Null>>
     ELSE <<Mem!Put(m, d, SubSeq(src, 1, Mem!Min(upto))), d + Mem!Min(upto)>>

\* ft_memccpy, to a region apart.
LEMMA MemccpyMeant ==
  ASSUME NEW V, NEW m \in [Mem!Address -> V], NEW d \in Int, NEW s \in Int, NEW c, NEW n \in Nat,
         Within(d, n), Within(s, n),
         s + n <= d
  PROVE  Mem!Memccpy(m, d, s, c, n) = CopiedTo(m, d, c, Mem!Bytes(m, s, n))
<1> DEFINE src  == Mem!Bytes(m, s, n)
           upto == {i \in DOMAIN src : src[i] = c}
           hits == Mem!Hits(m, s, c, n)
<1>0. Holding(src, V, m, s, n) BY BytesIs
<1>1. DOMAIN src = 1..n /\ \A i \in 1..n : src[i] = m[s + i - 1] BY <1>0 DEF Holding
<1>2. /\ \A i \in hits : i \in 0..(n - 1) /\ m[s + i] = c
      /\ \A i \in 0..(n - 1) : m[s + i] = c => i \in hits
  BY DEF Mem!Hits
<1> HIDE DEF src, hits
<1>3. ASSUME NEW i \in hits PROVE i + 1 \in upto
  <2>1. i + 1 \in 1..n /\ s + (i + 1) - 1 = s + i BY <1>2
  <2> QED BY <1>1, <1>2, <2>1
<1>4. ASSUME NEW i \in upto PROVE i \in 1..n /\ i - 1 \in hits
  <2>1. i \in 1..n /\ src[i] = c BY <1>1
  <2>2. i - 1 \in 0..(n - 1) /\ s + (i - 1) = s + i - 1 BY <2>1
  <2> QED BY <1>1, <1>2, <2>1, <2>2
<1> HIDE DEF upto
<1>5. CASE hits = {}
  <2>1. upto = {} BY <1>4, <1>5
  <2>2. Mem!Move(m, d, s, Mem!Up(n)) = Mem!Put(m, d, src) BY MoveUp DEF src
  <2> QED BY <1>5, <2>1, <2>2 DEF Mem!Memccpy, hits, upto, src, CopiedTo
<1>6. CASE hits # {}
  <2> DEFINE h == Mem!Min(hits)
             k == h + 1
  <2>1. hits \subseteq Nat BY <1>2
  <2>2. h \in hits /\ \A i \in hits : h <= i BY <1>6, <2>1, MinIs
  <2> HIDE DEF h
  <2>3. h \in 0..(n - 1) /\ k \in 1..n /\ k \in upto BY <1>2, <1>3, <2>2
  <2>4. upto \subseteq Nat BY <1>4
  <2>5. \A i \in upto : k <= i
    <3> TAKE i \in upto
    <3>1. h <= i - 1 /\ i \in Nat BY <1>4, <2>2, <2>4
    <3> QED BY <2>3, <3>1
  <2> HIDE DEF k
  <2>6. Mem!Min(upto) = k BY <2>3, <2>4, <2>5, MinOf
  <2>7. k \in Nat /\ k <= n BY <2>3
  <2>8. Within(d, k) /\ Within(s, k) /\ s + k <= d BY <2>7 DEF Within
  <2>9. Mem!Move(m, d, s, Mem!Up(k)) = Mem!Put(m, d, Mem!Bytes(m, s, k)) BY <2>7, <2>8, MoveUp
  <2>10. SubSeq(src, 1, k) = Mem!Bytes(m, s, k)
    <3>1. k \in 0..n BY <2>7
    <3>2. Holding(SubSeq(src, 1, k), V, m, s, k) BY <1>0, <3>1, PrefixHeld
    <3>3. Holding(Mem!Bytes(m, s, k), V, m, s, k) BY <2>7, <2>8, BytesIs
    <3> QED BY <3>2, <3>3, SameHeld
  <2>11. upto # {} BY <2>3
  <2>12. Mem!Memccpy(m, d, s, c, n) = <<Mem!Move(m, d, s, Mem!Up(k)), d + k>> BY <1>6 DEF Mem!Memccpy, hits, h, k
  <2>13. Mem!Memccpy(m, d, s, c, n) = <<Mem!Put(m, d, SubSeq(src, 1, Mem!Min(upto))), d + Mem!Min(upto)>>
    BY <2>6, <2>9, <2>10, <2>12
  <2> QED BY <2>11, <2>13 DEF upto, src, CopiedTo
<1> QED BY <1>5, <1>6

\* The characters of a string.
LEMMA TextIs ==
  ASSUME Size \in Nat, NEW V, NEW m \in [Mem!Address -> V], NEW s \in Nat, Mem!IsString(m, s), NEW l, l = Mem!StrLen(m, s)
  PROVE  /\ l \in Nat /\ Ends(m, s, l) /\ Within(s, l + 1) /\ Within(s, l)
         /\ Mem!Text(m, s) = Mem!Bytes(m, s, l) /\ Holding(Mem!Text(m, s), V, m, s, l)
<1>1. l \in Nat /\ Ends(m, s, l) BY StrLenIs
<1>2. Within(s, l + 1) /\ Within(s, l) BY <1>1 DEF Within, Ends, Mem!Address
<1>3. Mem!Text(m, s) = Mem!Bytes(m, s, l) BY DEF Mem!Text
<1>4. Holding(Mem!Bytes(m, s, l), V, m, s, l) BY <1>1, <1>2, BytesIs
<1> QED BY <1>1, <1>2, <1>3, <1>4

\* ft_strncpy of a string below the destination: the string, cut off or padded.
LEMMA StrncpyMeant ==
  ASSUME Size \in Nat, NEW V, NEW m \in [Mem!Address -> V], NEW d \in Nat, NEW s \in Nat, NEW n \in Nat,
         d + n <= Size, Mem!IsString(m, s), s + Mem!StrLen(m, s) < d
  PROVE  Mem!Strncpy(m, d, s, n) = Mem!Put(m, d, Mem!Padded(Mem!Text(m, s), n))
<1> DEFINE l == Mem!StrLen(m, s)
           t == Mem!Text(m, s)
           b == Mem!Padded(t, n)
<1>1. l \in Nat /\ s + l < d /\ m[s + l] = NUL BY StrLenIs DEF Ends
<1>2. Len(t) = l /\ \A i \in 1..l : t[i] = m[s + i - 1]
  <2>1. Holding(t, V, m, s, l) BY TextIs
  <2> QED BY <2>1 DEF Holding
<1>3. Mem!Strncpy(m, d, s, n) =
        IF n <= l + 1 THEN Mem!Move(m, d, s, Mem!Up(n))
        ELSE Mem!Fill(Mem!Move(m, d, s, Mem!Up(l + 1)), d + (l + 1), n - (l + 1))
  BY DEF Mem!Strncpy
<1> HIDE DEF l, t
<1>4. DOMAIN b = 1..n /\ \A i \in 1..n : b[i] = IF i <= l THEN m[s + i - 1] ELSE NUL
  <2>1. DOMAIN b = 1..n /\ \A i \in 1..n : b[i] = IF i <= Len(t) THEN t[i] ELSE NUL BY DEF Mem!Padded
  <2> HIDE DEF b
  <2>2. \A i \in 1..n : i <= l => i \in 1..l OBVIOUS
  <2> QED BY <1>1, <1>2, <2>1, <2>2
<1> HIDE DEF b
<1>5. ASSUME NEW k \in Nat, k <= n, k <= l + 1
      PROVE  Mem!Move(m, d, s, Mem!Up(k)) = Mem!Put(m, d, Mem!Bytes(m, s, k))
  <2>1. Within(d, k) BY <1>5 DEF Within, Mem!Address
  <2>2. Within(s, k) BY <1>1, <1>5 DEF Within, Mem!Address
  <2>3. d <= s \/ s + k <= d BY <1>1, <1>5
  <2>4. d \in Int /\ s \in Int OBVIOUS
  <2> QED BY <1>5, <2>1, <2>2, <2>3, <2>4, MoveUp, ZenonT(40)
<1>6. ASSUME NEW k \in Nat, k <= l + 1, NEW i \in 1..k
      PROVE  m[s + i - 1] = IF i <= l THEN m[s + i - 1] ELSE NUL
  <2>1. CASE i <= l BY <2>1
  <2>2. CASE ~(i <= l)
    <3>1. i = l + 1 /\ s + i - 1 = s + l BY <1>1, <1>6, <2>2
    <3> QED BY <1>1, <2>2, <3>1
  <2> QED BY <2>1, <2>2
<1>7. ASSUME NEW k \in Nat
      PROVE  DOMAIN Mem!Bytes(m, s, k) = 1..k /\ \A i \in 1..k : Mem!Bytes(m, s, k)[i] = m[s + i - 1]
  BY DEF Mem!Bytes
<1>8. CASE n <= l + 1
  <2>1. Mem!Strncpy(m, d, s, n) = Mem!Put(m, d, Mem!Bytes(m, s, n)) BY <1>3, <1>5, <1>8
  <2>2. ASSUME NEW x \in Mem!Address
        PROVE  (IF x - d + 1 \in DOMAIN Mem!Bytes(m, s, n) THEN Mem!Bytes(m, s, n)[x - d + 1] ELSE m[x])
                 = (IF x - d + 1 \in DOMAIN b THEN b[x - d + 1] ELSE m[x])
    BY <1>4, <1>6, <1>7, <1>8
  <2>3. Mem!Put(m, d, Mem!Bytes(m, s, n)) = Mem!Put(m, d, b) BY <2>2 DEF Mem!Put
  <2> QED BY <2>1, <2>3 DEF b, t
<1>9. CASE ~(n <= l + 1)
  <2> DEFINE k == l + 1
             p == Mem!Put(m, d, Mem!Bytes(m, s, k))
  <2>1. k \in Nat /\ k <= l + 1 /\ k <= n BY <1>1, <1>9
  <2> HIDE DEF k
  <2>2. Mem!Strncpy(m, d, s, n) = Mem!Fill(p, d + k, n - k) BY <1>3, <1>5, <1>9, <2>1 DEF k
  <2>3. ASSUME NEW x \in Mem!Address
        PROVE  (IF x \in (d + k)..((d + k) + (n - k) - 1) THEN NUL ELSE p[x])
                 = (IF x - d + 1 \in DOMAIN b THEN b[x - d + 1] ELSE m[x])
    <3>0. x \in Int BY DEF Mem!Address
    <3>1. p[x] = IF x - d + 1 \in 1..k THEN m[s + (x - d + 1) - 1] ELSE m[x] BY <1>7, <2>1 DEF Mem!Put
    <3> HIDE DEF p
    <3>2. CASE x - d + 1 \in 1..k
      <4>1. x - d + 1 \in 1..n /\ x \notin (d + k)..((d + k) + (n - k) - 1) BY <2>1, <3>0, <3>2
      <4> QED BY <1>4, <1>6, <2>1, <3>1, <3>2, <4>1
    <3>3. CASE x - d + 1 \in (k + 1)..n
      <4>1. /\ x - d + 1 \in 1..n /\ x \in (d + k)..((d + k) + (n - k) - 1) /\ ~(x - d + 1 <= l)
        BY <1>1, <2>1, <3>0, <3>3 DEF k
      <4> QED BY <1>4, <4>1
    <3>4. CASE x - d + 1 \notin 1..n
      <4>1. x - d + 1 \notin 1..k /\ x \notin (d + k)..((d + k) + (n - k) - 1) BY <2>1, <3>0, <3>4
      <4> QED BY <1>4, <3>1, <3>4, <4>1
    <3> QED BY <2>1, <3>0, <3>2, <3>3, <3>4
  <2>4. Mem!Fill(p, d + k, n - k) = Mem!Put(m, d, b) BY <2>3 DEF Mem!Put, Mem!Fill
  <2> QED BY <2>2, <2>4 DEF b, t
<1> QED BY <1>8, <1>9

\* ft_strrev: the byte in the middle stays where it is.
LEMMA StrrevMeant ==
  ASSUME Size \in Nat, NEW V, NEW m \in [Mem!Address -> V], NEW s \in Nat, Mem!IsString(m, s)
  PROVE  Mem!Strrev(m, s) = Mem!Put(m, s, Mem!Reverse(Mem!Text(m, s)))
<1> DEFINE l == Mem!StrLen(m, s)
           n == l \div 2
           t == Mem!Text(m, s)
           b == Mem!Reverse(t)
<1>0. l \in Nat /\ Within(s, l) /\ Holding(t, V, m, s, l) BY TextIs
<1>1. /\ l \in Nat /\ \A x \in s..(s + l - 1) : x \in Mem!Address
      /\ Len(t) = l /\ \A i \in 1..l : t[i] = m[s + i - 1]
  BY <1>0 DEF Within, Holding
<1>2. Mem!Strrev(m, s) = Turned(m, s, l, 1..n)
  <2> HIDE DEF t, b
  <2>1. m \in [Mem!Address -> V] /\ s \in Int OBVIOUS
  <2>2. Mem!StrLen(m, s) \in Nat /\ Within(s, Mem!StrLen(m, s)) BY <1>0
  <2>3. Mem!Strrev(m, s) = Turned(m, s, Mem!StrLen(m, s), 1..(Mem!StrLen(m, s) \div 2)) BY <2>1, <2>2, StrrevIs, ZenonT(20)
  <2> QED BY <2>3
<1> HIDE DEF l, t
<1>3. n \in Nat /\ 2 * n <= l /\ l <= 2 * n + 1 BY <1>1
<1> HIDE DEF n
<1>4. DOMAIN b = 1..l /\ \A i \in 1..l : b[i] = m[s + (l - i + 1) - 1]
  <2>1. DOMAIN b = 1..l /\ \A i \in 1..l : b[i] = t[l - i + 1] BY <1>1 DEF Mem!Reverse
  <2> HIDE DEF b
  <2>2. \A i \in 1..l : l - i + 1 \in 1..l BY <1>1
  <2> QED BY <1>1, <2>1, <2>2
<1> HIDE DEF b
<1>5. ASSUME NEW x \in Mem!Address
      PROVE  (IF \E i \in 1..n : x = s + (i - 1) \/ x = s + l - i THEN m[2 * s + l - 1 - x] ELSE m[x])
               = (IF x - s + 1 \in DOMAIN b THEN b[x - s + 1] ELSE m[x])
  <2>0. x \in Int BY DEF Mem!Address
  <2>1. CASE x - s + 1 \in 1..l
    <3>1. b[x - s + 1] = m[s + (l - (x - s + 1) + 1) - 1] BY <1>4, <2>1
    <3>2. s + (l - (x - s + 1) + 1) - 1 = 2 * s + l - 1 - x BY <1>1, <2>0
    <3>3. CASE \E i \in 1..n : x = s + (i - 1) \/ x = s + l - i BY <1>4, <2>1, <3>1, <3>2, <3>3
    <3>4. CASE ~ \E i \in 1..n : x = s + (i - 1) \/ x = s + l - i
      <4>1. x - s + 1 \notin 1..n /\ s + l - x \notin 1..n
        <5>1. x = s + ((x - s + 1) - 1) /\ x = s + l - (s + l - x) BY <1>1, <2>0
        <5> QED BY <3>4, <5>1
      <4>2. 2 * s + l - 1 - x = x BY <1>1, <1>3, <2>0, <2>1, <4>1
      <4> QED BY <1>4, <2>1, <3>1, <3>2, <3>4, <4>2
    <3> QED BY <3>3, <3>4
  <2>2. CASE x - s + 1 \notin 1..l
    <3>1. \A i \in 1..n : x # s + (i - 1) /\ x # s + l - i BY <1>1, <1>3, <2>0, <2>2
    <3> QED BY <1>4, <2>2, <3>1
  <2> QED BY <2>1, <2>2
<1>6. Turned(m, s, l, 1..n) = Mem!Put(m, s, b) BY <1>5 DEF Turned, Mem!Put
<1> QED BY <1>2, <1>6 DEF b, t

\* The l bytes from x on are those from y on.
Alike(m, x, y, l) == \A j \in 0..(l - 1) : m[x + j] = m[y + j]

\* Sequences that hold two regions are equal if the bytes there are alike.
LEMMA AlikeHeld ==
  ASSUME NEW V, NEW m, NEW x \in Int, NEW y \in Int, NEW l \in Nat,
         NEW q, Holding(q, V, m, x, l), NEW t, Holding(t, V, m, y, l)
  PROVE  q = t <=> Alike(m, x, y, l)
<1>1. q \in Seq(V) /\ Len(q) = l /\ \A i \in 1..l : q[i] = m[x + i - 1] BY DEF Holding
<1>2. t \in Seq(V) /\ Len(t) = l /\ \A i \in 1..l : t[i] = m[y + i - 1] BY DEF Holding
<1>3. ASSUME q = t, NEW j \in 0..(l - 1) PROVE m[x + j] = m[y + j]
  <2>1. j + 1 \in 1..l /\ x + (j + 1) - 1 = x + j /\ y + (j + 1) - 1 = y + j OBVIOUS
  <2> QED BY <1>1, <1>2, <1>3, <2>1
<1>4. ASSUME \A j \in 0..(l - 1) : m[x + j] = m[y + j] PROVE q = t
  <2>1. ASSUME NEW i \in 1..l PROVE q[i] = t[i]
    <3>1. i - 1 \in 0..(l - 1) /\ x + i - 1 = x + (i - 1) /\ y + i - 1 = y + (i - 1) OBVIOUS
    <3>2. m[x + (i - 1)] = m[y + (i - 1)] BY <1>4, <3>1
    <3> QED BY <1>1, <1>2, <3>1, <3>2
  <2> QED BY <1>1, <1>2, <2>1, Same
<1> QED BY <1>3, <1>4 DEF Alike

\* ft_strnstr: no match runs over the end of the haystack or of its first len bytes.
LEMMA StrnstrMeant ==
  ASSUME Size \in Nat, NEW V, NEW m \in [Mem!Address -> V], NEW h \in Nat, NEW n \in Nat, NEW len \in Nat,
         Mem!IsString(m, h), Mem!IsString(m, n)
  PROVE  LET hay == Mem!Text(m, h)
             found  == Mem!Found(SubSeq(hay, 1, Mem!Min({len, Len(hay)})), Mem!Text(m, n))
         IN  Mem!Strnstr(m, h, n, len) =
               IF Mem!Text(m, n) = <<>> THEN h ELSE IF found = {} THEN Null ELSE h + Mem!Min(found)
<1> DEFINE lh  == Mem!StrLen(m, h)
           ln  == Mem!StrLen(m, n)
           hay == Mem!Text(m, h)
           t   == Mem!Text(m, n)
           c   == Mem!Min({len, Len(hay)})
           p   == SubSeq(hay, 1, c)
           found  == Mem!Found(p, t)
           on  == {k \in 0..(lh - 1) : Mem!Matches(m, h, n, k, len)}
<1>1. lh \in Nat /\ Ends(m, h, lh) /\ Within(h, lh) /\ hay = Mem!Bytes(m, h, lh) /\ Holding(hay, V, m, h, lh)
  BY TextIs
<1>2. ln \in Nat /\ Ends(m, n, ln) /\ Holding(t, V, m, n, ln) BY TextIs
<1>3. Mem!Strnstr(m, h, n, len) = IF ln = 0 THEN h ELSE IF on = {} THEN Null ELSE h + Mem!Min(on)
  BY DEF Mem!Strnstr
<1>4. ASSUME NEW k PROVE Mem!Matches(m, h, n, k, len) <=> \A j \in 0..(ln - 1) : m[h + k + j] = m[n + j] /\ k + j < len
  BY DEF Mem!Matches
<1> HIDE DEF lh, ln, t, hay
<1>5. c \in Nat /\ c <= len /\ c <= lh /\ (c = len \/ c = lh)
  <2>1. Len(hay) = lh BY <1>1 DEF Holding
  <2>2. c = IF len <= lh THEN len ELSE lh BY <1>1, <2>1, MinOfTwo
  <2> QED BY <1>1, <2>2
<1> HIDE DEF c
<1>6. Holding(p, V, m, h, c)
  <2>1. c \in 0..lh BY <1>1, <1>5
  <2> QED BY <1>1, <2>1, PrefixHeld
<1> HIDE DEF p
<1>7. t = <<>> <=> ln = 0 BY <1>2, EmptySeq DEF Holding
<1>8. CASE ln = 0 BY <1>3, <1>7, <1>8 DEF t
<1>9. CASE ln # 0
  <2>1. \A k : k \in found <=> k \in 0..(c - ln) /\ \A j \in 0..(ln - 1) : m[h + k + j] = m[n + j]
    <3>1. Len(p) = c /\ Len(t) = ln BY <1>2, <1>6 DEF Holding
    <3>2. found = {k \in 0..(c - ln) : SubSeq(p, k + 1, k + ln) = t} BY <3>1 DEF Mem!Found
    <3>3. \A k \in 0..(c - ln) : SubSeq(p, k + 1, k + ln) = t <=> \A j \in 0..(ln - 1) : m[h + k + j] = m[n + j]
      <4> TAKE k \in 0..(c - ln)
      <4> DEFINE x == k + 1
                 y == k + ln
                 z == h + k
      <4>1. /\ Cut(h, x, y, z, ln) /\ x \in 1..(c + 1) /\ y \in 0..c /\ x <= y + 1
            /\ z \in Int /\ h \in Int /\ n \in Int
        BY <1>2, <1>5 DEF Cut
      <4> HIDE DEF found, x, y, z
      <4> DEFINE q == SubSeq(p, x, y)
      <4>2. Holding(q, V, m, z, ln) BY <1>5, <1>6, <4>1, PieceHeld
      <4> HIDE DEF q
      <4>3. q = t <=> Alike(m, z, n, ln)
        <5>1. ln \in Nat /\ Holding(t, V, m, n, ln) BY <1>2
        <5> QED BY <4>1, <4>2, <5>1, AlikeHeld
      <4> QED BY <4>3 DEF q, x, y, z, Alike
    <3> HIDE DEF found
    <3> QED BY <3>2, <3>3
  <2> HIDE DEF found
  <2>2. ASSUME NEW k \in found PROVE k \in on
    <3>1. k \in 0..(c - ln) /\ \A j \in 0..(ln - 1) : m[h + k + j] = m[n + j] BY <2>1
    <3>2. k \in 0..(lh - 1) /\ \A j \in 0..(ln - 1) : k + j < len BY <1>1, <1>2, <1>5, <1>9, <3>1
    <3> QED BY <1>4, <3>1, <3>2
  <2>3. ASSUME NEW k \in on PROVE k \in found
    <3>1. k \in 0..(lh - 1) /\ \A j \in 0..(ln - 1) : m[h + k + j] = m[n + j] /\ k + j < len BY <1>4
    <3>2. ~(lh - k \in 0..(ln - 1))
      <4>1. SUFFICES ASSUME lh - k \in 0..(ln - 1) PROVE FALSE OBVIOUS
      <4>2. m[h + k + (lh - k)] = m[n + (lh - k)] BY <3>1, <4>1
      <4>3. h + k + (lh - k) = h + lh BY <1>1, <3>1
      <4>4. m[h + lh] = NUL BY <1>1 DEF Ends
      <4>5. m[n + (lh - k)] # NUL BY <1>2, <4>1 DEF Ends
      <4> QED BY <4>2, <4>3, <4>4, <4>5
    <3>3. k + ln <= lh BY <1>1, <1>2, <3>1, <3>2
    <3>4. ln - 1 \in 0..(ln - 1) BY <1>2, <1>9
    <3>5. k + (ln - 1) < len BY <3>1, <3>4
    <3>6. k \in 0..(c - ln) BY <1>1, <1>2, <1>5, <3>1, <3>3, <3>5
    <3> QED BY <2>1, <3>1, <3>6
  <2> HIDE DEF on
  <2>4. on = found BY <2>2, <2>3
  <2> QED BY <1>3, <1>7, <1>9, <2>4 DEF found, p, c, hay, t
<1> QED BY <1>8, <1>9

\* What is left of the string at start, in len + 1 bytes.
RestOf(m, s, start, len) ==
  Mem!Padded(SubSeq(Mem!Text(m, s), start + 1, Mem!Min({start + len, Mem!StrLen(m, s)})), len + 1)

\* ft_strsub.
LEMMA StrsubMeant ==
  ASSUME Size \in Nat, NEW V, NEW m \in [Mem!Address -> V], NEW s \in Nat, NEW start \in Nat, NEW len \in Nat,
         Mem!IsString(m, s), start <= Mem!StrLen(m, s)
  PROVE  Mem!Strsub(m, s, start, len) = RestOf(m, s, start, len)
<1> DEFINE l == Mem!StrLen(m, s)
           t == Mem!Text(m, s)
           e == Mem!Min({start + len, l})
           q == SubSeq(t, start + 1, e)
           a == s + start
           n == Mem!Min({len, Mem!StrLen(m, a)})
<1>1. l \in Nat /\ Ends(m, s, l) /\ Holding(t, V, m, s, l) /\ start <= l BY TextIs
<1> HIDE DEF l, t
<1>2. Mem!StrLen(m, a) = l - start
  <2>1. a \in Nat OBVIOUS
  <2>2. Ends(m, a, l - start)
    <3>1. l - start \in 0..(Size - a - 1) /\ a + (l - start) = s + l BY <1>1 DEF Ends
    <3>2. ASSUME NEW i \in 0..((l - start) - 1) PROVE m[a + i] # NUL
      <4>1. start + i \in 0..(l - 1) /\ a + i = s + (start + i) BY <1>1
      <4>2. m[s + (start + i)] # NUL BY <1>1, <4>1 DEF Ends
      <4> QED BY <4>1, <4>2
    <3>3. m[s + l] = NUL BY <1>1 DEF Ends
    <3> HIDE DEF a
    <3> QED BY <3>1, <3>2, <3>3 DEF Ends
  <2>3. Mem!IsString(m, a)
    <3>1. a + (l - start) \in a..(Size - 1) /\ m[a + (l - start)] = NUL BY <1>1, <2>1, <2>2 DEF Ends
    <3> QED BY <3>1 DEF Mem!IsString
  <2> HIDE DEF a
  <2>4. Ends(m, a, Mem!StrLen(m, a)) BY <2>1, <2>3, StrLenIs
  <2> QED BY <2>1, <2>2, <2>4, OneEnd
<1> HIDE DEF a
<1>3. n \in Nat /\ e \in Nat /\ e = start + n /\ e <= l /\ n <= len
  <2>1. l - start \in Nat BY <1>1
  <2>2. n = IF len <= l - start THEN len ELSE l - start BY <1>2, <2>1, MinOfTwo
  <2>3. e = IF start + len <= l THEN start + len ELSE l
    <3>1. start + len \in Nat OBVIOUS
    <3> QED BY <1>1, <3>1, MinOfTwo
  <2> QED BY <1>1, <2>1, <2>2, <2>3
<1>4. Mem!Strsub(m, s, start, len) = [i \in 1..(len + 1) |-> IF i <= n THEN m[s + start + i - 1] ELSE NUL]
  BY DEF Mem!Strsub, a
<1> HIDE DEF n, e
<1>5. Holding(q, V, m, s + start, n)
  <2> DEFINE x == start + 1
  <2>1. x \in 1..(l + 1) /\ e \in 0..l /\ x <= e + 1 BY <1>1, <1>3
  <2>2. Cut(s, x, e, s + start, n) BY <1>3 DEF Cut
  <2> HIDE DEF x, q
  <2>3. Holding(SubSeq(t, x, e), V, m, s + start, n) BY <1>1, <2>1, <2>2, PieceHeld
  <2> QED BY <2>3 DEF x, q
<1> HIDE DEF q
<1>6. Len(q) = n /\ \A i \in 1..n : q[i] = m[s + start + i - 1] BY <1>5 DEF Holding
<1>7. ASSUME NEW i \in 1..(len + 1)
      PROVE  (IF i <= n THEN m[s + start + i - 1] ELSE NUL) = (IF i <= Len(q) THEN q[i] ELSE NUL)
  <2>1. i <= n => i \in 1..n BY <1>3
  <2> QED BY <1>6, <2>1
<1>8. Mem!Strsub(m, s, start, len) = Mem!Padded(q, len + 1) BY <1>4, <1>7 DEF Mem!Padded
<1> QED BY <1>8 DEF q, e, t, l, RestOf

\* An element above the others is the greatest.
LEMMA MaxOf ==
  ASSUME NEW S, S \subseteq Int, NEW x \in S, \A y \in S : x >= y
  PROVE  Mem!Max(S) = x
<1> DEFINE y == Mem!Max(S)
<1>1. y \in S /\ \A z \in S : y >= z BY DEF Mem!Max
<1> HIDE DEF y
<1>2. y >= x /\ x >= y /\ x \in Int /\ y \in Int BY <1>1
<1>3. y = x BY <1>2
<1> QED BY <1>3 DEF y

\* Without a blank before the string there are none before it.
LEMMA NoBlanksBefore ==
  ASSUME NEW m, NEW s \in Nat, m[s - 1] # Blank
  PROVE  Mem!BlanksBefore(m, s) = 0
<1> DEFINE P(k) == (\A a \in (s - k)..(s - 1) : m[a] = Blank) /\ (k = s + 2 \/ m[s - k - 1] # Blank)
<1>1. 0 \in 0..(s + 2) OBVIOUS
<1>2. P(0)
  <2>1. (s - 0)..(s - 1) = {} /\ s - 0 - 1 = s - 1 OBVIOUS
  <2> QED BY <2>1
<1>3. ASSUME NEW k \in 0..(s + 2), P(k) PROVE k = 0
  <2>1. k # 0 => s - 1 \in (s - k)..(s - 1) OBVIOUS
  <2> QED BY <1>3, <2>1
<1>4. Mem!BlanksBefore(m, s) = CHOOSE k \in 0..(s + 2) : P(k) BY DEF Mem!BlanksBefore
<1> HIDE DEF P
<1> QED BY <1>1, <1>2, <1>3, <1>4

\* ft_strtrim: the string between its blanks, unless it is blank and follows a blank.
LEMMA StrtrimMeant ==
  ASSUME Size \in Nat, NUL # Blank, NEW V, NEW m \in [Mem!Address -> V], NEW s \in Nat, Mem!IsString(m, s)
  PROVE  \/ Mem!Strtrim(m, s) = Mem!Trimmed(Mem!Text(m, s))
         \/ /\ Mem!Strtrim(m, s) \in {Null, Overrun}
            /\ Mem!Trimmed(Mem!Text(m, s)) = <<>> /\ m[s - 1] = Blank
<1> DEFINE l == Mem!StrLen(m, s)
           t == Mem!Text(m, s)
           I == {k \in 0..l : m[s + k] # Blank}
           i == Mem!Min(I)
           W == {k \in 1..l : m[s + k - 1] # Blank}
           E == {i} \cup W
           end == Mem!Max(E)
<1>1. /\ l \in Nat /\ Ends(m, s, l) /\ Within(s, l) /\ t = Mem!Bytes(m, s, l)
      /\ Holding(t, V, m, s, l)
  BY TextIs
<1>2. Mem!Strtrim(m, s) =
        IF i < l \/ Mem!BlanksBefore(m, s) = 0 THEN Mem!Bytes(m, s + i, end - i)
        ELSE IF i = 0 /\ Mem!BlanksBefore(m, s) = 1 THEN Overrun ELSE Null
  BY DEF Mem!Strtrim, Mem!Bytes
<1>3. Mem!Trimmed(t) = IF W = {} THEN <<>> ELSE SubSeq(t, Mem!Min(W), Mem!Max(W))
  <2>1. {k \in DOMAIN t : t[k] # Blank} = W BY <1>1 DEF Holding
  <2> HIDE DEF W, t
  <2> QED BY <2>1 DEF Mem!Trimmed
<1>4. m[s + l] # Blank BY <1>1 DEF Ends
<1> HIDE DEF l, t
<1>5. I \subseteq Nat /\ l \in I /\ \A k \in W : k \in 1..l /\ k - 1 \in I
  <2>1. \A k \in 1..l : k - 1 \in 0..l /\ s + (k - 1) = s + k - 1 BY <1>1
  <2> QED BY <1>1, <1>4, <2>1
<1>6. i \in I /\ \A k \in I : i <= k
  <2> HIDE DEF I
  <2> QED BY <1>5, MinIs
<1>7. i \in 0..l /\ m[s + i] # Blank BY <1>6
<1> HIDE DEF I, i
<1>8. CASE i < l
  <2>1. i + 1 \in W
    <3>1. i + 1 \in 1..l /\ s + (i + 1) - 1 = s + i BY <1>1, <1>7, <1>8
    <3> QED BY <1>7, <3>1
  <2> DEFINE e == Mem!Max(W)
  <2>2. W \subseteq 1..l OBVIOUS
  <2> HIDE DEF W
  <2>3. e \in W /\ \A k \in W : e >= k BY <1>1, <2>1, <2>2, MaxIs
  <2>4. ASSUME NEW k \in W PROVE i + 1 <= k
    <3>1. i <= k - 1 /\ k \in 1..l BY <1>5, <1>6
    <3> QED BY <1>7, <3>1
  <2>5. Mem!Min(W) = i + 1
    <3>1. W \subseteq Nat BY <2>2
    <3> QED BY <2>1, <2>4, <3>1, MinOf
  <2> HIDE DEF e
  <2>6. e \in 1..l /\ i + 1 <= e BY <2>2, <2>3, <2>4
  <2>7. end = e
    <3>1. E \subseteq Int /\ e \in E /\ \A k \in E : e >= k BY <1>7, <2>2, <2>3, <2>6
    <3> HIDE DEF E
    <3> QED BY <3>1, MaxOf
  <2>8. Mem!Strtrim(m, s) = Mem!Bytes(m, s + i, e - i) BY <1>2, <1>8, <2>7
  <2> DEFINE q == SubSeq(t, i + 1, e)
             b == Mem!Bytes(m, s + i, e - i)
  <2>9. Mem!Trimmed(t) = q BY <1>3, <2>1, <2>5 DEF e
  <2>10. Holding(q, V, m, s + i, e - i)
    <3> DEFINE x == i + 1
    <3>1. x \in 1..(l + 1) /\ e \in 0..l /\ x <= e + 1 BY <1>1, <1>7, <2>6
    <3>2. Cut(s, x, e, s + i, e - i) BY <1>7, <2>6 DEF Cut
    <3> HIDE DEF x, q, b
    <3>3. Holding(SubSeq(t, x, e), V, m, s + i, e - i) BY <1>1, <3>1, <3>2, PieceHeld
    <3> QED BY <3>3 DEF x, q
  <2>11. Holding(b, V, m, s + i, e - i)
    <3>1. Within(s + i, e - i) BY <1>1, <1>7, <2>6 DEF Within
    <3>2. s + i \in Int /\ e - i \in Nat BY <1>7, <2>6
    <3> QED BY <3>1, <3>2, BytesIs
  <2> HIDE DEF q, b
  <2>12. q = b BY <2>10, <2>11, SameHeld
  <2> QED BY <2>8, <2>9, <2>12 DEF b, t
<1>9. CASE ~(i < l)
  <2>1. W = {}
    <3>1. ASSUME NEW k \in W PROVE FALSE
      <4>1. k \in 1..l /\ i <= k - 1 BY <1>5, <1>6
      <4> QED BY <1>1, <1>7, <1>9, <4>1
    <3> QED BY <3>1
  <2>2. Mem!Trimmed(t) = <<>> BY <1>3, <2>1
  <2>3. CASE Mem!BlanksBefore(m, s) = 0
    <3>1. end = i
      <4>1. E \subseteq Int /\ i \in E /\ \A k \in E : i >= k BY <1>7, <2>1
      <4> HIDE DEF E
      <4> QED BY <4>1, MaxOf
    <3>2. Mem!Bytes(m, s + i, end - i) = <<>>
      <4> DEFINE b == Mem!Bytes(m, s + i, end - i)
      <4>1. s + i \in Int /\ end - i = 0 BY <1>7, <3>1
      <4>2. Within(s + i, 0) BY <1>7 DEF Within
      <4>3. Holding(b, V, m, s + i, 0) BY <4>1, <4>2, BytesIs
      <4> HIDE DEF b
      <4>4. b = <<>> BY <4>3, EmptySeq DEF Holding
      <4> QED BY <4>4 DEF b
    <3> QED BY <1>2, <2>2, <2>3, <3>2 DEF t
  <2>4. CASE Mem!BlanksBefore(m, s) # 0
    <3>1. m[s - 1] = Blank BY <2>4, NoBlanksBefore
    <3>2. Mem!Strtrim(m, s) \in {Null, Overrun} BY <1>2, <1>9, <2>4
    <3> QED BY <2>2, <3>1, <3>2 DEF t
  <2> QED BY <2>3, <2>4
<1> QED BY <1>8, <1>9

\* A byte of memory, or what lies outside the object.
Value == Mem!Byte \cup {Beyond}

\* A size, bytes that differ where the functions look, and a mark no function returns.
MemAssumption ==
  /\ Size \in Nat
  /\ NUL # Blank
  /\ Pending \notin Int \cup {Null, Overrun} \cup Seq(Value)

\* The call k on memory m does what it is meant to.
Right(k, m) ==
  /\ Mem!Outcome(k, m)[1] = Mem!Meant(k, m)[1]
  /\ Mem!Outcome(k, m)[2] # Pending
  /\ \/ Mem!Outcome(k, m)[2] = Mem!Meant(k, m)[2]
     \/ /\ k.f = "strtrim" /\ Mem!Outcome(k, m)[2] \in {Null, Overrun}
        /\ Mem!Trimmed(Mem!Text(m, k.s)) = <<>> /\ m[k.s - 1] = Blank

\* ft_memmove.
LEMMA MemmoveRight ==
  ASSUME MemAssumption, NEW m \in [Mem!Address -> Value], NEW k \in Mem!Uses, Mem!Legal(k, m), k.f = "memmove"
  PROVE  Right(k, m)
<1>1. k.d \in Nat /\ k.s \in Nat /\ k.n \in Nat /\ Size \in Nat BY DEF Mem!Uses, Mem!Object, MemAssumption
<1>2. Within(k.d, k.n) /\ Within(k.s, k.n) BY <1>1, SMTT(30) DEF Within, Mem!Legal, Mem!Address
<1>3. Mem!Memmove(m, k.d, k.s, k.n) = Mem!Put(m, k.d, Mem!Bytes(m, k.s, k.n)) BY <1>1, <1>2, MemmoveMeant
<1>4. Mem!Outcome(k, m) = <<Mem!Memmove(m, k.d, k.s, k.n), k.d>> BY DEF Mem!Outcome
<1>5. Mem!Meant(k, m) = <<Mem!Put(m, k.d, Mem!Bytes(m, k.s, k.n)), k.d>> BY DEF Mem!Meant
<1>6. k.d # Pending BY <1>1 DEF MemAssumption
<1> QED BY <1>3, <1>4, <1>5, <1>6 DEF Right

\* ft_memccpy.
LEMMA MemccpyRight ==
  ASSUME MemAssumption, NEW m \in [Mem!Address -> Value], NEW k \in Mem!Uses, Mem!Legal(k, m), k.f = "memccpy"
  PROVE  Right(k, m)
<1>1. k.d \in Nat /\ k.s \in Nat /\ k.n \in Nat /\ Size \in Nat /\ k.s + k.n <= k.d /\ k.d + k.n <= Size
  BY DEF Mem!Uses, MemAssumption
<1>2. Within(k.d, k.n) /\ Within(k.s, k.n) BY <1>1, SMTT(30) DEF Within, Mem!Address
<1> DEFINE src  == Mem!Bytes(m, k.s, k.n)
           upto == {i \in DOMAIN src : src[i] = Blank}
           r    == IF upto = {} THEN <<Mem!Put(m, k.d, src), Null>>
                   ELSE <<Mem!Put(m, k.d, SubSeq(src, 1, Mem!Min(upto))), k.d + Mem!Min(upto)>>
<1>3. Mem!Memccpy(m, k.d, k.s, Blank, k.n) = CopiedTo(m, k.d, Blank, src)
  <2> DEFINE d == k.d
             s == k.s
             n == k.n
  <2>1. d \in Int /\ s \in Int /\ n \in Nat /\ s + n <= d /\ Within(d, n) /\ Within(s, n) BY <1>1, <1>2
  <2> HIDE DEF d, s, n
  <2>2. Mem!Memccpy(m, d, s, Blank, n) = CopiedTo(m, d, Blank, Mem!Bytes(m, s, n)) BY <2>1, MemccpyMeant
  <2> QED BY <2>2 DEF d, s, n
<1>4. Mem!Outcome(k, m) = Mem!Memccpy(m, k.d, k.s, Blank, k.n) BY DEF Mem!Outcome
<1>5. Mem!Meant(k, m) = r /\ r = CopiedTo(m, k.d, Blank, src) BY DEF Mem!Meant, CopiedTo
<1>6. r[2] # Pending
  <2>1. CASE upto = {} BY <2>1 DEF MemAssumption
  <2>2. CASE upto # {}
    <3>1. upto \subseteq Nat
      <4>1. DOMAIN src = 1..k.n BY DEF Mem!Bytes
      <4> QED BY <4>1
    <3> HIDE DEF upto
    <3>2. Mem!Min(upto) \in Nat BY <2>2, <3>1, MinIs
    <3>3. k.d + Mem!Min(upto) \in Int BY <1>1, <3>2
    <3> QED BY <2>2, <3>3 DEF MemAssumption
  <2> QED BY <2>1, <2>2
<1> HIDE DEF r
<1> QED BY <1>3, <1>4, <1>5, <1>6 DEF Right

\* ft_strncpy.
LEMMA StrncpyRight ==
  ASSUME MemAssumption, NEW m \in [Mem!Address -> Value], NEW k \in Mem!Uses, Mem!Legal(k, m), k.f = "strncpy"
  PROVE  Right(k, m)
<1>1. k.d \in Nat /\ k.s \in Nat /\ k.n \in Nat /\ Size \in Nat /\ k.s = 0 /\ k.d + k.n <= Size
  BY DEF Mem!Uses, MemAssumption
<1>2. Mem!IsString(m, k.s) /\ Mem!StrLen(m, k.s) < k.d BY DEF Mem!Legal
<1>3. Mem!StrLen(m, k.s) \in Nat BY <1>1, <1>2, StrLenIs
<1>4. k.s + Mem!StrLen(m, k.s) < k.d BY <1>1, <1>2, <1>3
<1>5. Mem!Strncpy(m, k.d, k.s, k.n) = Mem!Put(m, k.d, Mem!Padded(Mem!Text(m, k.s), k.n))
  BY <1>1, <1>2, <1>4, StrncpyMeant, ZenonT(40)
<1>6. Mem!Outcome(k, m) = <<Mem!Strncpy(m, k.d, k.s, k.n), k.d>> BY DEF Mem!Outcome
<1>7. Mem!Meant(k, m) = <<Mem!Put(m, k.d, Mem!Padded(Mem!Text(m, k.s), k.n)), k.d>> BY DEF Mem!Meant
<1>8. k.d # Pending BY <1>1 DEF MemAssumption
<1> QED BY <1>5, <1>6, <1>7, <1>8 DEF Right

\* ft_strrev, which leaves an empty string alone.
LEMMA StrrevRight ==
  ASSUME MemAssumption, NEW m \in [Mem!Address -> Value], NEW k \in Mem!Uses, Mem!Legal(k, m), k.f = "strrev"
  PROVE  Right(k, m)
<1> DEFINE t == Mem!Text(m, k.s)
<1>1. k.s \in Nat /\ Size \in Nat BY DEF Mem!Uses, MemAssumption
<1>2. Mem!IsString(m, k.s) BY DEF Mem!Legal
<1>3. Mem!Strrev(m, k.s) = Mem!Put(m, k.s, Mem!Reverse(t)) BY <1>1, <1>2, StrrevMeant
<1>4. Mem!Outcome(k, m) = IF m[k.s] = NUL THEN <<m, Null>> ELSE <<Mem!Strrev(m, k.s), k.s>> BY DEF Mem!Outcome
<1>5. Mem!Meant(k, m) = <<Mem!Put(m, k.s, Mem!Reverse(t)), IF m[k.s] = NUL THEN Null ELSE k.s>> BY DEF Mem!Meant
<1>6. ASSUME m[k.s] = NUL PROVE m = Mem!Put(m, k.s, Mem!Reverse(t))
  <2> DEFINE l == Mem!StrLen(m, k.s)
  <2>1. l \in Nat /\ Ends(m, k.s, l) /\ Holding(t, Value, m, k.s, l) BY <1>1, <1>2, TextIs
  <2> HIDE DEF l, t
  <2>2. l = 0
    <3>1. k.s + 0 = k.s BY <1>1
    <3>2. 0 \notin 0..(l - 1) BY <1>6, <2>1, <3>1 DEF Ends
    <3> QED BY <2>1, <3>2
  <2>3. DOMAIN Mem!Reverse(t) = {} BY <2>1, <2>2 DEF Mem!Reverse, Holding
  <2> QED BY <2>3 DEF Mem!Put
<1>7. k.s # Pending /\ Null # Pending BY <1>1 DEF MemAssumption
<1> HIDE DEF t
<1> QED BY <1>3, <1>4, <1>5, <1>6, <1>7 DEF Right

\* ft_strnstr.
LEMMA StrnstrRight ==
  ASSUME MemAssumption, NEW m \in [Mem!Address -> Value], NEW k \in Mem!Uses, Mem!Legal(k, m), k.f = "strnstr"
  PROVE  Right(k, m)
<1>1. k.d \in Nat /\ k.s \in Nat /\ k.n \in Nat /\ Size \in Nat BY DEF Mem!Uses, MemAssumption
<1>2. Mem!IsString(m, k.d) /\ Mem!IsString(m, k.s) BY DEF Mem!Legal
<1> DEFINE hay == Mem!Text(m, k.d)
           found  == Mem!Found(SubSeq(hay, 1, Mem!Min({k.n, Len(hay)})), Mem!Text(m, k.s))
           r   == IF Mem!Text(m, k.s) = <<>> THEN k.d ELSE IF found = {} THEN Null ELSE k.d + Mem!Min(found)
<1>3. Mem!Strnstr(m, k.d, k.s, k.n) = r BY <1>1, <1>2, StrnstrMeant, ZenonT(40)
<1>4. Mem!Outcome(k, m) = <<m, Mem!Strnstr(m, k.d, k.s, k.n)>> BY DEF Mem!Outcome
<1>5. Mem!Meant(k, m) = <<m, r>> BY DEF Mem!Meant
<1>6. r # Pending
  <2>1. CASE Mem!Text(m, k.s) = <<>> BY <1>1, <2>1 DEF MemAssumption
  <2>2. CASE Mem!Text(m, k.s) # <<>> /\ found = {} BY <2>2 DEF MemAssumption
  <2>3. CASE Mem!Text(m, k.s) # <<>> /\ found # {}
    <3>1. found \subseteq Nat BY DEF Mem!Found
    <3> HIDE DEF found
    <3>2. Mem!Min(found) \in Nat BY <2>3, <3>1, MinIs
    <3>3. k.d + Mem!Min(found) \in Int BY <1>1, <3>2
    <3> QED BY <2>3, <3>3 DEF MemAssumption
  <2> QED BY <2>1, <2>2, <2>3
<1> HIDE DEF r
<1> QED BY <1>3, <1>4, <1>5, <1>6 DEF Right

\* ft_strsub.
LEMMA StrsubRight ==
  ASSUME MemAssumption, NEW m \in [Mem!Address -> Value], NEW k \in Mem!Uses, Mem!Legal(k, m), k.f = "strsub"
  PROVE  Right(k, m)
<1>1. k.d \in Nat /\ k.s \in Nat /\ k.n \in Nat /\ Size \in Nat BY DEF Mem!Uses, MemAssumption
<1>2. Mem!IsString(m, k.s) /\ k.d <= Mem!StrLen(m, k.s) BY DEF Mem!Legal
<1> DEFINE q == SubSeq(Mem!Text(m, k.s), k.d + 1, Mem!Min({k.d + k.n, Mem!StrLen(m, k.s)}))
           r == Mem!Padded(q, k.n + 1)
<1>3. Mem!Strsub(m, k.s, k.d, k.n) = RestOf(m, k.s, k.d, k.n) BY <1>1, <1>2, StrsubMeant
<1>4. Mem!Outcome(k, m) = <<m, IF k.full THEN Null ELSE Mem!Strsub(m, k.s, k.d, k.n)>> BY DEF Mem!Outcome
<1>5. Mem!Meant(k, m) = <<m, IF k.full THEN Null ELSE r>> /\ r = RestOf(m, k.s, k.d, k.n)
  BY DEF Mem!Meant, RestOf
<1>6. r # Pending
  <2> DEFINE l == Mem!StrLen(m, k.s)
             a == k.d + k.n
             e == Mem!Min({a, l})
  <2>1. l \in Nat /\ Holding(Mem!Text(m, k.s), Value, m, k.s, l) BY <1>1, <1>2, TextIs
  <2>2. k.d <= l BY <1>2
  <2> HIDE DEF l
  <2>3. a \in Nat /\ k.d <= a BY <1>1
  <2> HIDE DEF a
  <2>4. e = IF a <= l THEN a ELSE l BY <2>1, <2>3, MinOfTwo
  <2> HIDE DEF e
  <2>5. e \in 0..l /\ k.d <= e BY <2>1, <2>2, <2>3, <2>4
  <2>6. q = SubSeq(Mem!Text(m, k.s), k.d + 1, e) BY DEF e, a, l
  <2> HIDE DEF q
  <2>7. q \in Seq(Value)
    <3>1. Mem!Text(m, k.s) \in Seq(Value) /\ Len(Mem!Text(m, k.s)) = l BY <2>1 DEF Holding
    <3>2. k.d + 1 \in 1..(l + 1) BY <1>1, <2>1, <2>2
    <3> QED BY <2>5, <2>6, <3>1, <3>2, Piece
  <2>8. NUL \in Value BY DEF Value, Mem!Byte
  <2>9. r \in [1..(k.n + 1) -> Value]
    <3>1. \A i \in 1..(k.n + 1) : i <= Len(q) => q[i] \in Value BY <1>1, <2>7, ElementOfSeq, LenProperties
    <3> QED BY <2>8, <3>1 DEF Mem!Padded
  <2>10. r \in Seq(Value)
    <3>1. k.n + 1 \in Nat BY <1>1
    <3> HIDE DEF r
    <3> QED BY <2>9, <3>1, SeqDef
  <2> QED BY <2>10 DEF MemAssumption
<1>7. Null # Pending BY DEF MemAssumption
<1> HIDE DEF r
<1> QED BY <1>3, <1>4, <1>5, <1>6, <1>7 DEF Right

\* ft_strtrim.
LEMMA StrtrimRight ==
  ASSUME MemAssumption, NEW m \in [Mem!Address -> Value], NEW k \in Mem!Uses, Mem!Legal(k, m), k.f = "strtrim"
  PROVE  Right(k, m)
<1> DEFINE t == Mem!Text(m, k.s)
<1>1. k.s \in Nat /\ Size \in Nat /\ NUL # Blank BY DEF Mem!Uses, MemAssumption
<1>2. Mem!IsString(m, k.s) BY DEF Mem!Legal
<1>3. \/ Mem!Strtrim(m, k.s) = Mem!Trimmed(t)
      \/ Mem!Strtrim(m, k.s) \in {Null, Overrun} /\ Mem!Trimmed(t) = <<>> /\ m[k.s - 1] = Blank
  BY <1>1, <1>2, StrtrimMeant
<1>4. Mem!Outcome(k, m) = <<m, IF k.full THEN Null ELSE Mem!Strtrim(m, k.s)>> BY DEF Mem!Outcome
<1>5. Mem!Meant(k, m) = <<m, IF k.full THEN Null ELSE Mem!Trimmed(t)>> BY DEF Mem!Meant
<1>6. Mem!Trimmed(t) \in Seq(Value)
  <2> DEFINE l == Mem!StrLen(m, k.s)
             solid == {i \in DOMAIN t : t[i] # Blank}
  <2>1. l \in Nat /\ Holding(t, Value, m, k.s, l) BY <1>1, <1>2, TextIs
  <2> HIDE DEF l, t
  <2>2. t \in Seq(Value) /\ Len(t) = l /\ DOMAIN t = 1..l BY <2>1 DEF Holding
  <2>3. solid \subseteq 1..l /\ solid \subseteq Nat BY <2>2
  <2>4. Mem!Trimmed(t) = IF solid = {} THEN <<>> ELSE SubSeq(t, Mem!Min(solid), Mem!Max(solid)) BY DEF Mem!Trimmed
  <2> HIDE DEF solid
  <2>5. CASE solid = {} BY <2>4, <2>5, EmptySeq
  <2>6. CASE solid # {}
    <3> DEFINE a == Mem!Min(solid)
               b == Mem!Max(solid)
    <3>1. a \in solid /\ b \in solid BY <2>1, <2>3, <2>6, MinIs, MaxIs
    <3> HIDE DEF a, b
    <3>2. a \in 1..(l + 1) /\ b \in 0..l BY <2>1, <2>3, <3>1
    <3>3. SubSeq(t, a, b) \in Seq(Value) BY <2>2, <3>2, Piece
    <3> QED BY <2>4, <2>6, <3>3 DEF a, b
  <2> QED BY <2>5, <2>6
<1>7. Mem!Strtrim(m, k.s) # Pending /\ Null # Pending BY <1>3, <1>6 DEF MemAssumption
<1> HIDE DEF t
<1> QED BY <1>3, <1>4, <1>5, <1>7 DEF Right, t

\* Every function does what it is meant to, on every memory it may be called with.
LEMMA EveryCallRight ==
  ASSUME MemAssumption, NEW m \in [Mem!Address -> Value], NEW k \in Mem!Uses, Mem!Legal(k, m)
  PROVE  Right(k, m)
<1>1. k.f \in {"memmove", "memccpy", "strncpy", "strrev", "strtrim", "strnstr", "strsub"} BY DEF Mem!Uses
<1> QED BY <1>1, MemmoveRight, MemccpyRight, StrncpyRight, StrrevRight, StrnstrRight, StrsubRight, StrtrimRight

\* The memory before the call is memory, the call is legal there, and until it has
\* returned nothing has changed.
MemInv ==
  /\ before \in [Mem!Address -> Value] /\ memCall \in Mem!Uses /\ Mem!Legal(memCall, before)
  /\ ret = Pending => mem = before
  /\ Mem!AsMeant

\* The memory a call starts with.
LEMMA MemInit ==
  ASSUME MemAssumption, Mem!Init
  PROVE  MemInv
<1>1. PICK m \in [Mem!Object -> Mem!Byte], low \in [{-2, -1} -> {Blank, Beyond}] :
        mem = [a \in Mem!Address |-> IF a \in Mem!Object THEN m[a] ELSE IF a < 0 THEN low[a] ELSE Beyond]
  BY DEF Mem!Init
<1>2. ASSUME NEW a \in Mem!Address
      PROVE  (IF a \in Mem!Object THEN m[a] ELSE IF a < 0 THEN low[a] ELSE Beyond) \in Value
  <2>1. Blank \in Value /\ Beyond \in Value /\ Mem!Byte \subseteq Value BY DEF Value, Mem!Byte
  <2>2. a < 0 => a \in {-2, -1} BY DEF Mem!Address
  <2> QED BY <2>1, <2>2
<1>3. mem \in [Mem!Address -> Value] BY <1>1, <1>2
<1>4. memCall \in Mem!Uses /\ Mem!Legal(memCall, mem) /\ before = mem /\ ret = Pending BY DEF Mem!Init
<1> QED BY <1>3, <1>4 DEF MemInv, Mem!AsMeant

\* The call.
LEMMA MemStep ==
  ASSUME MemAssumption, MemInv, [Mem!Run]_(Mem!memVars)
  PROVE  MemInv'
<1>1. CASE Mem!Run
  <2>1. mem = before /\ mem' = Mem!Outcome(memCall, mem)[1] /\ ret' = Mem!Outcome(memCall, mem)[2]
        /\ memCall' = memCall /\ before' = before
    BY <1>1 DEF Mem!Run, MemInv
  <2>2. before \in [Mem!Address -> Value] /\ memCall \in Mem!Uses /\ Mem!Legal(memCall, before) BY DEF MemInv
  <2>3. Right(memCall, before) BY <2>2, EveryCallRight
  <2>4. ret' # Pending /\ Mem!AsMeant' BY <2>1, <2>3 DEF Right, Mem!AsMeant
  <2> QED BY <2>1, <2>2, <2>4 DEF MemInv
<1>2. CASE UNCHANGED Mem!memVars BY <1>2 DEF MemInv, Mem!memVars, Mem!AsMeant
<1> QED BY <1>1, <1>2

\* A call of a memory or string function changes and returns what it is meant to and
\* no byte beside, whatever the memory holds, wherever the regions lie in an object of
\* any size and however they overlap, with and without memory for a result; ft_strtrim
\* of a blank string is excepted.
THEOREM MemoryAsMeant ==
  ASSUME MemAssumption
  PROVE  Mem!Spec => []AsMeant
<1>1. Mem!Init => MemInv BY MemInit
<1>2. MemInv /\ [Mem!Run]_(Mem!memVars) => MemInv' BY MemStep
<1>3. MemInv => AsMeant BY DEF MemInv, AsMeant
<1> QED BY <1>1, <1>2, <1>3, PTL DEF Mem!Spec

-----------------------------------------------------------------------------
(* The fields of ft_printf: fillings, signs or prefixes, zeros and digits. *)

\* A field that is the text, with the length it returns.
Agrees(field, text) == field.text = text /\ field.len = Len(text)

\* The characters that fill a field, and texts that may hold them.
Space      == " "
FillsIn(S) == "0" \in S /\ Space \in S

\* n times one character.
LEMMA PadIs ==
  ASSUME NEW S, NEW c \in S, NEW n \in Nat
  PROVE  Pf!Pad(n, c) \in Seq(S) /\ Len(Pf!Pad(n, c)) = n
<1> DEFINE s == Pf!Pad(n, c)
<1>1. s \in [1..n -> S] BY DEF Pf!Pad
<1> HIDE DEF s
<1>2. s \in Seq(S) BY <1>1, SeqDef
<1>3. Len(s) = n BY <1>1, <1>2, LenProperties
<1> QED BY <1>2, <1>3 DEF s

\* Nothing before or after a sequence.
LEMMA Nothing ==
  ASSUME NEW S, NEW s \in Seq(S)
  PROVE  <<>> \o s = s /\ s \o <<>> = s /\ <<>> \in Seq(S) /\ Len(<<>>) = 0
BY ConcatEmptySeq, EmptySeq

\* Three parts.
LEMMA CatOfThree ==
  ASSUME NEW S, NEW x \in Seq(S), NEW y \in Seq(S), NEW z \in Seq(S)
  PROVE  x \o y \o z \in Seq(S) /\ Len(x \o y \o z) = Len(x) + Len(y) + Len(z)
<1> DEFINE u == x \o y
<1>1. u \in Seq(S) /\ Len(u) = Len(x) + Len(y) BY ConcatProperties
<1> HIDE DEF u
<1>2. u \o z \in Seq(S) /\ Len(u \o z) = Len(u) + Len(z) BY <1>1, ConcatProperties
<1> QED BY <1>1, <1>2 DEF u

\* larger, of a difference.
LEMMA LargerIs ==
  ASSUME NEW k \in Int
  PROVE  Pf!Larger(k, 0) \in Nat /\ Pf!Larger(k, 0) = IF k > 0 THEN k ELSE 0
BY DEF Pf!Larger

\* No filling.
LEMMA NoPad ==
  ASSUME NEW c, NEW n \in Int, ~(n > 0)
  PROVE  Pf!Pad(Pf!Larger(n, 0), c) = <<>>
<1>1. Pf!Larger(n, 0) = 0 BY DEF Pf!Larger
<1>2. Pf!Pad(0, c) \in Seq({c}) /\ Len(Pf!Pad(0, c)) = 0 BY PadIs
<1> QED BY <1>1, <1>2, EmptySeq

\* The zeros before the digits s for a precision k; the digits themselves, none for a zero with precision 0.
ZerosBefore(k, s)     == Pf!Pad(Pf!Larger(k - Len(s), 0), "0")
Digits(p, n, digits)  == IF p = 0 /\ n = 0 THEN <<>> ELSE digits

\* Digits after their zeros.
LEMMA Zeros ==
  ASSUME NEW S, FillsIn(S), NEW k \in Int, NEW s \in Seq(S)
  PROVE  /\ ZerosBefore(k, s) \in Seq(S) /\ ZerosBefore(k, s) \o s \in Seq(S)
         /\ Len(ZerosBefore(k, s) \o s) = IF k > Len(s) THEN k ELSE Len(s)
<1> DEFINE n == Len(s)
           j == Pf!Larger(k - n, 0)
           z == Pf!Pad(j, "0")
<1>1. n \in Nat BY LenProperties
<1> HIDE DEF n
<1>2. j \in Nat /\ j = IF k > n THEN k - n ELSE 0
  <2>1. k - n \in Int /\ (k - n > 0 <=> k > n) BY <1>1
  <2> QED BY <2>1, LargerIs
<1> HIDE DEF j
<1>3. z \in Seq(S) /\ Len(z) = j BY <1>2, PadIs DEF FillsIn
<1> HIDE DEF z
<1>4. z \o s \in Seq(S) /\ Len(z \o s) = Len(z) + Len(s) BY <1>3, ConcatProperties
<1>5. Len(z \o s) = IF k > n THEN k ELSE n BY <1>1, <1>2, <1>3, <1>4 DEF n
<1>6. z = ZerosBefore(k, s) BY DEF z, j, n, ZerosBefore
<1>7. Len(z \o s) = IF k > Len(s) THEN k ELSE Len(s) BY <1>5 DEF n
<1> QED BY <1>3, <1>4, <1>6, <1>7

\* The digits of a number with a precision, and without one.
LEMMA Body ==
  ASSUME NEW S, NEW p \in Nat, NEW n, NEW digits \in Seq(S)
  PROVE  /\ Digits(p, n, digits) \in Seq(S)
         /\ Pf!AtLeast(p, n, digits) = ZerosBefore(p, Digits(p, n, digits)) \o Digits(p, n, digits)
<1> DEFINE s == Digits(p, n, digits)
<1>0. s = (IF p = 0 /\ n = 0 THEN <<>> ELSE digits) /\ s \in Seq(S) BY Nothing DEF Digits
<1> HIDE DEF s
<1>1. CASE p = 0 /\ n = 0
  <2>1. s = <<>> /\ Len(s) = 0 BY <1>0, <1>1, EmptySeq
  <2>2. Pf!Pad(Pf!Larger(0 - 0, 0), "0") = <<>> BY NoPad
  <2>3. Pf!AtLeast(p, n, digits) = <<>> BY <1>1 DEF Pf!AtLeast
  <2>4. ZerosBefore(p, s) = <<>> BY <1>1, <2>1, <2>2 DEF ZerosBefore
  <2> QED BY <1>0, <2>1, <2>3, <2>4, Nothing DEF s
<1>2. CASE ~(p = 0 /\ n = 0)
  <2>1. s = digits BY <1>0, <1>2
  <2>2. Pf!AtLeast(p, n, digits) = ZerosBefore(p, s) \o s BY <1>2, <2>1 DEF Pf!AtLeast, ZerosBefore
  <2> QED BY <1>0, <2>2 DEF s
<1> QED BY <1>1, <1>2

\* The digits of a number without a precision.
LEMMA BareBody ==
  ASSUME NEW S, NEW n, NEW digits \in Seq(S)
  PROVE  Pf!AtLeast(Pf!NoWidth, n, digits) = digits
<1> DEFINE k == -1 - Len(digits)
<1>1. k \in Int /\ ~(k > 0)
  <2>1. Len(digits) \in Nat BY LenProperties
  <2> QED BY <2>1
<1>2. Pf!AtLeast(Pf!NoWidth, n, digits) = Pf!Pad(Pf!Larger(k, 0), "0") \o digits BY DEF Pf!AtLeast, Pf!NoWidth
<1> HIDE DEF k
<1>3. Pf!Pad(Pf!Larger(k, 0), "0") = <<>> BY <1>1, NoPad
<1> QED BY <1>2, <1>3, Nothing

\* What fills a field, if there is room.
LEMMA Filling ==
  ASSUME NEW S, NEW c \in S, NEW k \in Int
  PROVE  LET f == Pf!Pad(Pf!Larger(k, 0), c)
         IN  /\ f \in Seq(S) /\ Len(f) = IF k > 0 THEN k ELSE 0
             /\ f = IF k > 0 THEN Pf!Pad(k, c) ELSE <<>>
<1> DEFINE j == Pf!Larger(k, 0)
<1>1. j \in Nat /\ j = IF k > 0 THEN k ELSE 0 BY LargerIs
<1> HIDE DEF j
<1>2. Pf!Pad(j, c) \in Seq(S) /\ Len(Pf!Pad(j, c)) = j BY <1>1, PadIs
<1>3. CASE k > 0 BY <1>1, <1>2, <1>3 DEF j
<1>4. CASE ~(k > 0)
  <2>1. Pf!Pad(j, c) = <<>> BY <1>1, <1>2, <1>4, EmptySeq
  <2> QED BY <1>1, <1>2, <1>4, <2>1 DEF j
<1> QED BY <1>3, <1>4

\* The fillings of a field that has k places to spare.
StartFill(flags, k) == IF "0" \notin flags /\ "-" \notin flags /\ k > 0 THEN Pf!Pad(k, Space) ELSE <<>>
ZeroFill(flags, k)  == IF "0" \in flags THEN Pf!Pad(Pf!Larger(k, 0), "0") ELSE <<>>
EndFill(flags, k)   == IF "0" \notin flags /\ "-" \in flags /\ k > 0 THEN Pf!Pad(k, Space) ELSE <<>>

\* The room left in a field, and its parts in the order of the code.
Spare(width, lead, body)      == width - (Len(lead) + Len(body))
Written(flags, k, lead, body) == StartFill(flags, k) \o lead \o ZeroFill(flags, k) \o body \o EndFill(flags, k)
Exclusive(flags)              == ~("0" \in flags /\ "-" \in flags)

\* A field of the standard is its parts, as long as it should be.
Laid(width, flags, lead, body) ==
  /\ Written(flags, Spare(width, lead, body), lead, body) = Pf!Field(width, flags, TRUE, lead, body)
  /\ Len(Pf!Field(width, flags, TRUE, lead, body)) = Pf!Larger(width, Len(lead) + Len(body))

\* The parts of a field in the order of the code.
LEMMA Layout ==
  ASSUME NEW S, FillsIn(S), NEW width \in Nat, NEW flags, NEW lead \in Seq(S), NEW body \in Seq(S),
         Exclusive(flags)
  PROVE  Laid(width, flags, lead, body)
<1> DEFINE blen == Len(lead) + Len(body)
           k    == width - blen
<1>a. blen = Len(lead) + Len(body) /\ k = width - blen OBVIOUS
<1>b. ~("0" \in flags /\ "-" \in flags) BY DEF Exclusive
<1> HIDE DEF blen, k
<1> DEFINE w == Pf!Pad(Pf!Larger(k, 0), Space)
           f == Pf!Pad(Pf!Larger(k, 0), "0")
           a == StartFill(flags, k)
           z == ZeroFill(flags, k)
           b == EndFill(flags, k)
           text == Pf!Field(width, flags, TRUE, lead, body)
<1>c. SUFFICES a \o lead \o z \o body \o b = text /\ Len(text) = Pf!Larger(width, blen)
  BY DEF Laid, Written, Spare, blen, k
<1>1. Len(lead) \in Nat /\ Len(body) \in Nat BY LenProperties
<1>2. k \in Int /\ blen \in Nat BY <1>1, <1>a
<1>3. /\ w \in Seq(S) /\ Len(w) = (IF k > 0 THEN k ELSE 0) /\ w = IF k > 0 THEN Pf!Pad(k, Space) ELSE <<>>
      /\ f \in Seq(S) /\ Len(f) = IF k > 0 THEN k ELSE 0
  BY <1>2, Filling DEF FillsIn
<1>4. Pf!Larger(width, blen) = IF k > 0 THEN blen + k ELSE blen BY <1>2, <1>a DEF Pf!Larger
<1>5. width - Len(lead) - Len(body) = k BY <1>1, <1>a
<1>6. text = IF "-" \in flags THEN lead \o body \o w
             ELSE IF "0" \in flags THEN lead \o f \o body ELSE w \o lead \o body
  <2> DEFINE g == Pf!Pad(Pf!Larger(width - Len(lead) - Len(body), 0), Space)
             h == Pf!Pad(Pf!Larger(width - Len(lead) - Len(body), 0), "0")
  <2>1. text = IF "-" \in flags THEN lead \o body \o g
               ELSE IF "0" \in flags THEN lead \o h \o body ELSE g \o lead \o body
    BY Zenon DEF Pf!Field, Space
  <2>2. g = w /\ h = f BY <1>5
  <2> HIDE DEF g, h, w, f, text
  <2> QED BY <2>1, <2>2
<1>7. \A x \in Seq(S) : x \o <<>> = x /\ <<>> \o x = x BY Nothing
<1>8. CASE "-" \in flags
  <2>1. a = <<>> /\ z = <<>> /\ b = w BY <1>3, <1>8, <1>b DEF StartFill, ZeroFill, EndFill
  <2> HIDE DEF w, f, a, z, b, text
  <2>2. a \o lead \o z \o body \o b = text BY <1>6, <1>7, <1>8, <2>1
  <2>3. lead \o body \o w \in Seq(S) /\ Len(lead \o body \o w) = Len(lead) + Len(body) + Len(w)
    <3>1. w \in Seq(S) BY <1>3
    <3> DEFINE u == lead \o body
    <3>2. u \in Seq(S) /\ Len(u) = Len(lead) + Len(body) BY ConcatProperties
    <3> HIDE DEF u
    <3>3. u \o w \in Seq(S) /\ Len(u \o w) = Len(u) + Len(w) BY <3>1, <3>2, ConcatProperties
    <3> QED BY <3>2, <3>3 DEF u
  <2>4. text = lead \o body \o w BY <1>6, <1>8
  <2> DEFINE wl == Len(w)
  <2>7. wl = IF k > 0 THEN k ELSE 0 BY <1>3
  <2> HIDE DEF wl
  <2>8. blen + wl = Pf!Larger(width, blen)
    <3>1. CASE k > 0
      <4>1. wl = k BY <2>7, <3>1
      <4>2. Pf!Larger(width, blen) = blen + k BY <1>4, <3>1
      <4> QED BY <4>1, <4>2
    <3>2. CASE ~(k > 0)
      <4>1. wl = 0 BY <2>7, <3>2
      <4>2. Pf!Larger(width, blen) = blen BY <1>4, <3>2
      <4> QED BY <1>2, <4>1, <4>2
    <3> QED BY <3>1, <3>2
  <2>5. Len(lead) + Len(body) + Len(w) = Pf!Larger(width, blen) BY <1>a, <2>8 DEF wl
  <2>6. text \in Seq(S) /\ Len(text) = Pf!Larger(width, blen) BY <2>3, <2>4, <2>5
  <2> QED BY <2>2, <2>6 DEF a, b, z, text
<1>9. CASE "-" \notin flags /\ "0" \in flags
  <2>1. a = <<>> /\ z = f /\ b = <<>> BY <1>9, <1>b DEF StartFill, ZeroFill, EndFill
  <2> HIDE DEF w, f, a, z, b, text
  <2>2. lead \o f \o body \in Seq(S) /\ Len(lead \o f \o body) = Len(lead) + Len(f) + Len(body)
    BY <1>3, CatOfThree
  <2>3. a \o lead \o z \o body \o b = text BY <1>6, <1>7, <1>9, <2>1, <2>2
  <2>4. text \in Seq(S) /\ Len(text) = Pf!Larger(width, blen) BY <1>1, <1>2, <1>3, <1>4, <1>6, <1>a, <1>9, <2>2
  <2> QED BY <2>3, <2>4 DEF a, b, z, text
<1>10. CASE "-" \notin flags /\ "0" \notin flags
  <2>1. a = w /\ z = <<>> /\ b = <<>> BY <1>3, <1>10 DEF StartFill, ZeroFill, EndFill
  <2> HIDE DEF w, f, a, z, b, text
  <2>2. w \o lead \o body \in Seq(S) /\ Len(w \o lead \o body) = Len(w) + Len(lead) + Len(body)
    BY <1>3, CatOfThree
  <2>3. a \o lead \o z \o body \o b = text
    <3>1. w \o lead \in Seq(S) BY <1>3, ConcatProperties
    <3> QED BY <1>6, <1>7, <1>10, <2>1, <2>2, <3>1
  <2>4. text \in Seq(S) /\ Len(text) = Pf!Larger(width, blen) BY <1>1, <1>2, <1>3, <1>4, <1>6, <1>a, <1>10, <2>2
  <2> QED BY <2>3, <2>4 DEF a, b, z, text
<1> QED BY <1>8, <1>9, <1>10

\* The digits of a number with a precision.
LEMMA ZerosAndDigits ==
  ASSUME NEW S, FillsIn(S), NEW p \in Nat, NEW n, NEW digits \in Seq(S)
  PROVE  /\ Digits(p, n, digits) \in Seq(S)
         /\ ZerosBefore(p, Digits(p, n, digits)) \in Seq(S)
         /\ Pf!AtLeast(p, n, digits) \in Seq(S)
         /\ Pf!AtLeast(p, n, digits) = ZerosBefore(p, Digits(p, n, digits)) \o Digits(p, n, digits)
         /\ Len(Pf!AtLeast(p, n, digits)) = IF p > Len(Digits(p, n, digits)) THEN p ELSE Len(Digits(p, n, digits))
<1> DEFINE s == Digits(p, n, digits)
<1>1. s \in Seq(S) /\ Pf!AtLeast(p, n, digits) = ZerosBefore(p, s) \o s BY Body
<1> HIDE DEF s
<1>2. p \in Int OBVIOUS
<1>3. /\ ZerosBefore(p, s) \in Seq(S) /\ ZerosBefore(p, s) \o s \in Seq(S)
      /\ Len(ZerosBefore(p, s) \o s) = IF p > Len(s) THEN p ELSE Len(s)
  BY <1>1, <1>2, Zeros
<1> QED BY <1>1, <1>3 DEF s

\* The three fillings of pad_block.
LEMMA Segments ==
  ASSUME NEW b, NEW len, NEW blen
  PROVE  /\ Pf!PadBlock(b, len, blen, "START")
              = IF "0" \notin b.flags /\ "-" \notin b.flags /\ b.width > blen THEN Pf!Pad(b.width - blen, Space) ELSE <<>>
         /\ Pf!PadBlock(b, len, blen, "END")
              = IF "0" \notin b.flags /\ "-" \in b.flags /\ b.width > blen THEN Pf!Pad(b.width - blen, Space) ELSE <<>>
         /\ Pf!PadBlock(b, len, blen, "ZEROS")
              = IF b.pflag THEN Pf!Pad(Pf!Larger(b.p - len, 0), "0")
                ELSE IF "0" \in b.flags /\ b.width # 0 THEN Pf!Pad(Pf!Larger(b.width - blen, 0), "0") ELSE <<>>
BY Zenon DEF Pf!PadBlock, Space

\* The length of a sign or prefix and what follows it.
Together(lead, body) == Len(lead) + Len(body)

\* The fillings of pad_block are those of Written, except that a precision is filled with zeros.
Padded(b, len, lead, body) ==
  LET blen == Together(lead, body)
      k    == Spare(b.width, lead, body)
  IN  /\ Pf!PadBlock(b, len, blen, "START") = StartFill(b.flags, k)
      /\ Pf!PadBlock(b, len, blen, "END") = EndFill(b.flags, k)
      /\ ~b.pflag => Pf!PadBlock(b, len, blen, "ZEROS") = ZeroFill(b.flags, k)

Wide(b) == b.width \in Nat

\* pad_block fills a field as Written does.
LEMMA Fillings ==
  ASSUME NEW S, NEW b, Wide(b), NEW len, NEW lead \in Seq(S), NEW body \in Seq(S)
  PROVE  Padded(b, len, lead, body)
<1> DEFINE width == b.width
           blen  == Together(lead, body)
           k     == Spare(width, lead, body)
<1>0. width \in Nat BY DEF Wide
<1>1. (width > blen <=> k > 0) /\ width - blen = k /\ k \in Int
  <2> HIDE DEF width
  <2>1. Len(lead) \in Nat /\ Len(body) \in Nat BY LenProperties
  <2> QED BY <1>0, <2>1 DEF Together, Spare
<1> HIDE DEF width
<1>2. width = 0 => Pf!Pad(Pf!Larger(k, 0), "0") = <<>>
  <2>1. width = 0 => ~(k > 0)
    <3>1. Len(lead) \in Nat /\ Len(body) \in Nat BY LenProperties
    <3> QED BY <3>1 DEF Spare
  <2> HIDE DEF k
  <2> QED BY <1>1, <2>1, NoPad
<1> HIDE DEF blen, k
<1>3. Pf!PadBlock(b, len, blen, "START") = StartFill(b.flags, k)
  BY <1>1, Segments, Zenon DEF StartFill, width
<1>4. Pf!PadBlock(b, len, blen, "END") = EndFill(b.flags, k)
  BY <1>1, Segments, Zenon DEF EndFill, width
<1>5. ~b.pflag => Pf!PadBlock(b, len, blen, "ZEROS") = ZeroFill(b.flags, k)
  BY <1>1, <1>2, Segments, Zenon DEF ZeroFill, width
<1> QED BY <1>3, <1>4, <1>5 DEF Padded, blen, k, width

\* They are texts.
LEMMA FillsAreText ==
  ASSUME NEW S, FillsIn(S), NEW flags, NEW k \in Int
  PROVE  StartFill(flags, k) \in Seq(S) /\ ZeroFill(flags, k) \in Seq(S) /\ EndFill(flags, k) \in Seq(S)
<1>1. k > 0 => Pf!Pad(k, Space) \in Seq(S) BY PadIs DEF FillsIn
<1>2. Pf!Pad(Pf!Larger(k, 0), "0") \in Seq(S) BY Filling DEF FillsIn
<1> QED BY <1>1, <1>2, Nothing DEF StartFill, ZeroFill, EndFill

\* The room left in a field is a number.
LEMMA SpareIs ==
  ASSUME NEW S, NEW width \in Nat, NEW lead \in Seq(S), NEW body \in Seq(S)
  PROVE  Spare(width, lead, body) \in Int
<1>1. Len(lead) \in Nat /\ Len(body) \in Nat BY LenProperties
<1> QED BY <1>1 DEF Spare

\* write_unsigned and its like, with a precision.
Precise(b) == Wide(b) /\ b.pflag /\ b.p \in Nat /\ "0" \notin b.flags

\* A number with a precision is the field of the standard.
LEMMA PreciseNumber ==
  ASSUME NEW S, FillsIn(S), NEW b, Precise(b), NEW n, NEW lead \in Seq(S), NEW digits \in Seq(S)
  PROVE  Agrees(Pf!WriteNumber(b, n, lead, digits),
                Pf!Field(b.width, b.flags, TRUE, lead, Pf!AtLeast(b.p, n, digits)))
<1> DEFINE width == b.width
           flags == b.flags
           p     == b.p
           s     == Digits(p, n, digits)
           z     == ZerosBefore(p, s)
           body  == Pf!AtLeast(p, n, digits)
           blen  == Together(lead, body)
           k     == Spare(width, lead, body)
           text  == Pf!Field(width, flags, TRUE, lead, body)
           sf    == StartFill(flags, k)
           ef    == EndFill(flags, k)
           u     == sf \o lead
<1>1. width \in Nat /\ p \in Nat BY DEF Precise, Wide
<1>2. Exclusive(flags) BY DEF Exclusive, Precise
<1> HIDE DEF width, flags, p
<1>3. /\ s \in Seq(S) /\ z \in Seq(S) /\ body \in Seq(S) /\ body = z \o s
      /\ Len(body) = IF p > Len(s) THEN p ELSE Len(s)
  BY <1>1, ZerosAndDigits
<1> HIDE DEF s, z, body
<1>4. Len(body) \in Nat /\ Len(lead) \in Nat /\ Len(s) \in Nat BY <1>3, LenProperties
<1>5. Pf!BlockLen(b, Len(s), lead) = blen
  <2>1. Pf!BlockLen(b, Len(s), lead) = (IF p > Len(s) THEN p ELSE Len(s)) + Len(lead) BY DEF Pf!BlockLen, p, Precise
  <2>2. Pf!BlockLen(b, Len(s), lead) = Len(body) + Len(lead) BY <1>3, <2>1
  <2> QED BY <1>4, <2>2 DEF Together
<1>6. sf \o lead \o ZeroFill(flags, k) \o body \o ef = text /\ Len(text) = Pf!Larger(width, blen)
  <2>1. Laid(width, flags, lead, body) BY <1>1, <1>2, <1>3, Layout
  <2> QED BY <2>1 DEF Laid, Written, Together
<1>7. ZeroFill(flags, k) = <<>> BY DEF ZeroFill, flags, Precise
<1>8. Pf!PadBlock(b, Len(s), blen, "START") = sf /\ Pf!PadBlock(b, Len(s), blen, "END") = ef
  <2> DEFINE len == Len(s)
  <2> HIDE DEF len
  <2>1. Wide(b) BY DEF Precise
  <2>2. Padded(b, len, lead, body) BY <1>3, <2>1, Fillings
  <2> QED BY <2>2 DEF Padded, flags, width, len
<1>9. Pf!PadBlock(b, Len(s), blen, "ZEROS") = z BY Segments DEF z, p, ZerosBefore, Precise
<1>10. k \in Int BY <1>1, <1>3, SpareIs
<1> HIDE DEF k
<1>11. sf \in Seq(S) BY <1>10, FillsAreText
<1> HIDE DEF text, sf, ef, blen
<1>12. u \in Seq(S) BY <1>11, ConcatProperties
<1> HIDE DEF u
<1>13. u \o <<>> = u BY <1>12, Nothing
<1>14. u \o body \o ef = text BY <1>6, <1>7, <1>13 DEF u
<1>15. (u \o z) \o s = u \o (z \o s)
  <2>1. z \in Seq(S) /\ s \in Seq(S) BY <1>3
  <2> QED BY <1>12, <2>1, ConcatAssociative, SMTT(30)
<1>16. u \o z \o s = u \o body BY <1>3, <1>15
<1>17. Pf!WriteNumber(b, n, lead, digits) = [text |-> u \o z \o s \o ef, len |-> Pf!Larger(width, blen)]
  <2>1. s = IF b.pflag /\ b.p = 0 /\ n = 0 THEN <<>> ELSE digits BY DEF s, p, Digits, Precise
  <2> QED BY <1>5, <1>8, <1>9, <2>1 DEF Pf!WriteNumber, u, width
<1>18. Agrees([text |-> u \o z \o s \o ef, len |-> Pf!Larger(width, blen)], text)
  BY <1>6, <1>14, <1>16 DEF Agrees
<1> QED BY <1>17, <1>18 DEF text, body, width, flags, p

\* The same without a precision.
Bare(b) == Wide(b) /\ ~b.pflag /\ Exclusive(b.flags)

\* A number without a precision is the field of the standard.
LEMMA BareNumber ==
  ASSUME NEW S, FillsIn(S), NEW b, Bare(b), NEW n, NEW lead \in Seq(S), NEW digits \in Seq(S)
  PROVE  Agrees(Pf!WriteNumber(b, n, lead, digits),
                Pf!Field(b.width, b.flags, TRUE, lead, Pf!AtLeast(Pf!NoWidth, n, digits)))
<1> DEFINE width == b.width
           flags == b.flags
           blen  == Together(lead, digits)
           k     == Spare(width, lead, digits)
           text  == Pf!Field(width, flags, TRUE, lead, digits)
<1>1. width \in Nat /\ Exclusive(flags) BY DEF Bare, Wide
<1>2. Pf!AtLeast(Pf!NoWidth, n, digits) = digits BY BareBody
<1> HIDE DEF width, flags
<1>3. Len(digits) \in Nat /\ Len(lead) \in Nat BY LenProperties
<1>4. Pf!BlockLen(b, Len(digits), lead) = blen
  <2>1. Pf!BlockLen(b, Len(digits), lead) = Len(digits) + Len(lead) BY DEF Pf!BlockLen, Bare
  <2> QED BY <1>3, <2>1 DEF Together
<1>5. Laid(width, flags, lead, digits) BY <1>1, Layout
<1>6. Padded(b, Len(digits), lead, digits)
  <2> DEFINE len == Len(digits)
  <2> HIDE DEF len
  <2>1. Wide(b) BY DEF Bare
  <2>2. Padded(b, len, lead, digits) BY <2>1, Fillings
  <2> QED BY <2>2 DEF len
<1> HIDE DEF blen, k
<1>7. Pf!WriteNumber(b, n, lead, digits)
        = [text |-> StartFill(flags, k) \o lead \o ZeroFill(flags, k) \o digits \o EndFill(flags, k),
           len |-> Pf!Larger(width, blen)]
  <2>1. digits = IF b.pflag /\ b.p = 0 /\ n = 0 THEN <<>> ELSE digits BY DEF Bare
  <2>2. /\ Pf!PadBlock(b, Len(digits), blen, "START") = StartFill(flags, k)
        /\ Pf!PadBlock(b, Len(digits), blen, "END") = EndFill(flags, k)
        /\ Pf!PadBlock(b, Len(digits), blen, "ZEROS") = ZeroFill(flags, k)
    BY <1>6 DEF Padded, Bare, blen, k, width, flags
  <2> QED BY <1>4, <2>1, <2>2 DEF Pf!WriteNumber, width
<1>8. Agrees(Pf!WriteNumber(b, n, lead, digits), text)
  <2>1. Written(flags, k, lead, digits) = text /\ Len(text) = Pf!Larger(width, blen)
    BY <1>5 DEF Laid, Together, blen, k
  <2> HIDE DEF text
  <2>2. Pf!WriteNumber(b, n, lead, digits) = [text |-> Written(flags, k, lead, digits), len |-> Pf!Larger(width, blen)]
    BY <1>7 DEF Written
  <2> QED BY <2>1, <2>2 DEF Agrees
<1> QED BY <1>2, <1>8 DEF width, flags

-----------------------------------------------------------------------------
(* The handlers of ft_printf, from the block of a directive. *)

\* A block as the parsers leave it: no width below 0, and no precision below 0.
Block == [flags : SUBSET STRING, width : Nat, pflag : BOOLEAN, p : Int, mod : STRING, conv : STRING]

Parsed(b) == b \in Block /\ (b.pflag => b.p \in Nat)

\* Its precision, or none.
Precision(b) == IF b.pflag THEN b.p ELSE Pf!NoWidth

\* What flag_manager keeps.
Retained(flags, f, pflag) ==
  /\ "-" \in f <=> "-" \in flags
  /\ "+" \in f <=> "+" \in flags
  /\ "0" \in f <=> "0" \in flags /\ "-" \notin flags /\ ~pflag
  /\ "+" \notin flags => (Space \in f <=> Space \in flags)

\* flag_manager leaves the width and the precision, and every flag that matters.
LEMMA FlagsKept ==
  ASSUME NEW b \in Block
  PROVE  /\ Retained(b.flags, Pf!FlagManager(b).flags, b.pflag)
         /\ Pf!FlagManager(b).width = b.width
         /\ Pf!FlagManager(b).pflag = b.pflag
         /\ Pf!FlagManager(b).p = b.p
<1> DEFINE flags == b.flags
           f == (flags \ (IF b.pflag \/ "-" \in flags THEN {"0"} ELSE {})) \ (IF "+" \in flags THEN {Space} ELSE {})
<1>1. Pf!FlagManager(b) = [b EXCEPT !.flags = f] BY Zenon DEF Pf!FlagManager, Space
<1>2. Retained(flags, f, b.pflag)
  <2>1. "-" \in f <=> "-" \in flags BY Zenon DEF Space
  <2>2. "+" \in f <=> "+" \in flags BY Zenon DEF Space
  <2>3. "0" \in f <=> "0" \in flags /\ "-" \notin flags /\ ~b.pflag BY Zenon DEF Space
  <2>4. "+" \notin flags => (Space \in f <=> Space \in flags) BY Zenon DEF Space
  <2> QED BY <2>1, <2>2, <2>3, <2>4 DEF Retained
<1> HIDE DEF f
<1>3. [b EXCEPT !.flags = f].flags = f BY DEF Block
<1>4. [b EXCEPT !.flags = f].width = b.width BY DEF Block
<1>5. [b EXCEPT !.flags = f].pflag = b.pflag BY DEF Block
<1>6. [b EXCEPT !.flags = f].p = b.p BY DEF Block
<1> QED BY <1>1, <1>2, <1>3, <1>4, <1>5, <1>6

\* The field is the same with the flags f after flag_manager as with those of the directive.
Dropped(b, f, lead, body) ==
  Pf!Field(b.width, f, TRUE, lead, body) = Pf!Field(b.width, b.flags, ~b.pflag, lead, body)

\* A field does not depend on the flags that flag_manager drops.
LEMMA FlagsDropped ==
  ASSUME NEW b, NEW f, Retained(b.flags, f, b.pflag), NEW lead, NEW body
  PROVE  Dropped(b, f, lead, body)
<1>1. CASE "-" \in b.flags BY <1>1, Zenon DEF Dropped, Pf!Field, Retained
<1>2. CASE "-" \notin b.flags /\ "0" \in f BY <1>2, Zenon DEF Dropped, Pf!Field, Retained
<1>3. CASE "-" \notin b.flags /\ "0" \notin f BY <1>3, Zenon DEF Dropped, Pf!Field, Retained
<1> QED BY <1>1, <1>2, <1>3

\* The common tail of the handlers, after flag_manager.
LEMMA NumberField ==
  ASSUME NEW S, FillsIn(S), NEW b, Parsed(b), NEW n, NEW lead \in Seq(S), NEW digits \in Seq(S)
  PROVE  Agrees(Pf!WriteNumber(Pf!FlagManager(b), n, lead, digits),
                Pf!Field(b.width, b.flags, ~b.pflag, lead, Pf!AtLeast(Precision(b), n, digits)))
<1> DEFINE c    == Pf!FlagManager(b)
           body == Pf!AtLeast(Precision(b), n, digits)
<1>1. b \in Block /\ b.width \in Nat BY DEF Parsed, Block
<1>2. Retained(b.flags, c.flags, b.pflag) /\ c.width = b.width /\ c.pflag = b.pflag /\ c.p = b.p BY <1>1, FlagsKept
<1> HIDE DEF c
<1>3. Agrees(Pf!WriteNumber(c, n, lead, digits), Pf!Field(c.width, c.flags, TRUE, lead, body))
  <2>1. CASE b.pflag
    <3>1. Precise(c) BY <1>1, <1>2, <2>1 DEF Precise, Wide, Parsed, Retained
    <3>2. c.p = Precision(b) BY <1>2, <2>1 DEF Precision
    <3> QED BY <3>1, <3>2, PreciseNumber
  <2>2. CASE ~b.pflag
    <3>1. Bare(c) BY <1>1, <1>2, <2>2 DEF Bare, Wide, Exclusive, Retained
    <3>2. Precision(b) = Pf!NoWidth BY <2>2 DEF Precision
    <3> QED BY <3>1, <3>2, BareNumber
  <2> QED BY <2>1, <2>2
<1>4. Pf!Field(c.width, c.flags, TRUE, lead, body) = Pf!Field(b.width, b.flags, ~b.pflag, lead, body)
  <2> HIDE DEF body
  <2>1. Retained(b.flags, c.flags, b.pflag) BY <1>2
  <2>2. Dropped(b, c.flags, lead, body) BY <2>1, FlagsDropped
  <2> QED BY <1>2, <2>2, Zenon DEF Dropped
<1> QED BY <1>3, <1>4 DEF c

\* A precision is none only if the block has none.
LEMMA PrecisionIs ==
  ASSUME NEW b, Parsed(b)
  PROVE  (Precision(b) = Pf!NoWidth) = ~b.pflag
<1>1. b.pflag \in BOOLEAN BY DEF Parsed, Block
<1>2. CASE b.pflag
  <2>1. b.p \in Nat /\ b.p # -1 BY <1>2 DEF Parsed
  <2> QED BY <1>2, <2>1 DEF Precision, Pf!NoWidth
<1>3. CASE ~b.pflag BY <1>3 DEF Precision
<1> QED BY <1>2, <1>3

\* A number of at most 64 digits.
Countable(n, base) == n = 0 \/ \E k \in 1..64 : base^(k - 1) <= n /\ n < base^k

\* Such a number has a number of digits.
LEMMA PlacesCount ==
  ASSUME NEW n, NEW base, Countable(n, base)
  PROVE  Pf!Places(n, base) \in Nat
<1> DEFINE Fits(k) == base^(k - 1) <= n /\ n < base^k
<1>1. CASE n = 0 BY <1>1 DEF Pf!Places
<1>2. CASE n # 0
  <2>1. \E k \in 1..64 : Fits(k) BY <1>2 DEF Countable
  <2> DEFINE c == CHOOSE k \in 1..64 : Fits(k)
  <2>2. Pf!Places(n, base) = c BY <1>2 DEF Pf!Places
  <2> HIDE DEF Fits
  <2>3. c \in 1..64 BY <2>1
  <2> HIDE DEF c
  <2> QED BY <2>2, <2>3
<1> QED BY <1>1, <1>2


\* The digits, with other characters T and those that fill a field, are characters of a text.
LEMMA DigitsAreText ==
  ASSUME NEW n, NEW base, Countable(n, base), NEW figures, NEW T
  PROVE  \E S : FillsIn(S) /\ T \subseteq S /\ Pf!Dtoa(n, base, figures) \in Seq(S)
<1> DEFINE k == Pf!Places(n, base)
           d == Pf!Dtoa(n, base, figures)
           S == {d[i] : i \in 1..k} \cup T \cup {"0", Space}
<1>1. k \in Nat BY PlacesCount
<1>2. d = [i \in 1..k |-> d[i]] BY DEF Pf!Dtoa
<1> HIDE DEF k, d
<1>3. d \in [1..k -> S] BY <1>2
<1> HIDE DEF S
<1>4. d \in Seq(S) BY <1>1, <1>3, SeqDef
<1>5. FillsIn(S) /\ T \subseteq S BY DEF S, FillsIn
<1> QED BY <1>4, <1>5 DEF d

\* set_sign is the sign of the standard: flag_manager drops " " only where "+" stands.
LEMMA SignKept ==
  ASSUME NEW b \in Block, NEW neg
  PROVE  Pf!SignOf(Pf!FlagManager(b), neg) = Pf!Sign(b.flags, neg)
<1> DEFINE f == Pf!FlagManager(b).flags
<1>1. Retained(b.flags, f, b.pflag) BY FlagsKept
<1>2. ("+" \in f <=> "+" \in b.flags) /\ ("+" \notin b.flags => (Space \in f <=> Space \in b.flags))
  BY <1>1, Zenon DEF Retained
<1> QED BY <1>2, Zenon DEF Pf!SignOf, Pf!Sign, Space

\* The signs and prefixes.
Marks == {"-", "+", Space, "0", "x", "X"}

\* The sign of a number is a text of such characters.
LEMMA SignIsText ==
  ASSUME NEW flags, NEW neg
  PROVE  Pf!Sign(flags, neg) \in Seq(Marks)
<1>1. Pf!Sign(flags, neg) = <<"-">> \/ Pf!Sign(flags, neg) = <<"+">> \/ Pf!Sign(flags, neg) = <<Space>>
        \/ Pf!Sign(flags, neg) = <<>>
  BY Zenon DEF Pf!Sign, Space
<1>2. \A c \in Marks : <<c>> \in Seq(Marks) OBVIOUS
<1>3. <<>> \in Seq(Marks) OBVIOUS
<1>4. "-" \in Marks /\ "+" \in Marks /\ Space \in Marks BY DEF Marks
<1> QED BY <1>1, <1>2, <1>3, <1>4

\* %d.
LEMMA SignedField ==
  ASSUME NEW b, Parsed(b), NEW v, NEW up,
         \A n : n = Pf!Signed(v, Widths[b.mod]) => Countable(IF n < 0 THEN -n ELSE n, 10)
  PROVE  Agrees(Pf!HandleD(b, v), Pf!Standard("d", b.mod, b.flags, b.width, Precision(b), v, up))
<1> DEFINE n     == Pf!Signed(v, Widths[b.mod])
           m     == IF n < 0 THEN -n ELSE n
           d     == Pf!Dtoa(m, 10, Pf!Lower)
           lead  == Pf!Sign(b.flags, n < 0)
           text  == Pf!Field(b.width, b.flags, ~b.pflag, lead, Pf!AtLeast(Precision(b), n, d))
<1>1. Countable(m, 10) OBVIOUS
<1>2. b \in Block BY DEF Parsed
<1>3. Pf!SignOf(Pf!FlagManager(b), n < 0) = lead
  <2> DEFINE neg == n < 0
  <2> HIDE DEF neg
  <2>1. Pf!SignOf(Pf!FlagManager(b), neg) = Pf!Sign(b.flags, neg) BY <1>2, SignKept
  <2> QED BY <2>1 DEF neg
<1>4. lead \in Seq(Marks)
  <2> DEFINE neg == n < 0
  <2> HIDE DEF neg
  <2>1. Pf!Sign(b.flags, neg) \in Seq(Marks) BY SignIsText
  <2> QED BY <2>1 DEF neg
<1> HIDE DEF m
<1>5. PICK S : FillsIn(S) /\ Marks \subseteq S /\ d \in Seq(S) BY <1>1, DigitsAreText
<1> HIDE DEF n, d, lead
<1>6. lead \in Seq(S) BY <1>4, <1>5
<1>7. Agrees(Pf!WriteNumber(Pf!FlagManager(b), n, lead, d), text) BY <1>5, <1>6, NumberField
<1>8. Pf!HandleD(b, v) = Pf!WriteNumber(Pf!FlagManager(b), n, lead, d)
  BY <1>3, Zenon DEF Pf!HandleD, n, d, m
<1>9. Pf!Standard("d", b.mod, b.flags, b.width, Precision(b), v, up) = text
  BY PrecisionIs, Zenon DEF Pf!Standard, n, d, m, lead
<1> QED BY <1>7, <1>8, <1>9

\* %u.
LEMMA UnsignedField ==
  ASSUME NEW b, Parsed(b), NEW v, NEW up, Countable(Pf!Unsigned(v, Widths[b.mod]), 10)
  PROVE  Agrees(Pf!HandleU(b, v), Pf!Standard("u", b.mod, b.flags, b.width, Precision(b), v, up))
<1> DEFINE n     == Pf!Unsigned(v, Widths[b.mod])
           d     == Pf!Dtoa(n, 10, Pf!Lower)
           text  == Pf!Field(b.width, b.flags, ~b.pflag, <<>>, Pf!AtLeast(Precision(b), n, d))
<1>1. Countable(n, 10) OBVIOUS
<1> HIDE DEF n
<1>2. PICK S : FillsIn(S) /\ Marks \subseteq S /\ d \in Seq(S) BY <1>1, DigitsAreText
<1> HIDE DEF d
<1>3. <<>> \in Seq(S) OBVIOUS
<1>4. Agrees(Pf!WriteNumber(Pf!FlagManager(b), n, <<>>, d), text) BY <1>2, <1>3, NumberField
<1>5. Pf!HandleU(b, v) = Pf!WriteNumber(Pf!FlagManager(b), n, <<>>, d) BY Zenon DEF Pf!HandleU, n, d
<1>6. Pf!Standard("u", b.mod, b.flags, b.width, Precision(b), v, up) = text
  BY PrecisionIs, Zenon DEF Pf!Standard, n, d
<1> QED BY <1>4, <1>5, <1>6

\* %o without "#".
LEMMA OctalField ==
  ASSUME NEW b, Parsed(b), NEW v, NEW up, Countable(Pf!Unsigned(v, Widths[b.mod]), 8), "#" \notin b.flags
  PROVE  Agrees(Pf!HandleO(b, v), Pf!Standard("o", b.mod, b.flags, b.width, Precision(b), v, up))
<1> DEFINE n     == Pf!Unsigned(v, Widths[b.mod])
           d     == Pf!Dtoa(n, 8, Pf!Lower)
           text  == Pf!Field(b.width, b.flags, ~b.pflag, <<>>, Pf!AtLeast(Precision(b), n, d))
<1>1. Countable(n, 8) OBVIOUS
<1> HIDE DEF n
<1>2. PICK S : FillsIn(S) /\ Marks \subseteq S /\ d \in Seq(S) BY <1>1, DigitsAreText
<1> HIDE DEF d
<1>3. <<>> \in Seq(S) OBVIOUS
<1>4. Agrees(Pf!WriteNumber(Pf!FlagManager(b), n, <<>>, d), text) BY <1>2, <1>3, NumberField
<1>5. Pf!HandleO(b, v) = Pf!WriteNumber(Pf!FlagManager(b), n, <<>>, d) BY Zenon DEF Pf!HandleO, n, d
<1>6. Pf!Standard("o", b.mod, b.flags, b.width, Precision(b), v, up) = text
  BY PrecisionIs, Zenon DEF Pf!Standard, n, d
<1> QED BY <1>4, <1>5, <1>6

\* %x and %X.
LEMMA HexField ==
  ASSUME NEW b, Parsed(b), NEW v, NEW up, Countable(Pf!Unsigned(v, Widths[b.mod]), 16), b.conv \in {"x", "X"}
  PROVE  Agrees(Pf!HandleX(b, v), Pf!Standard(b.conv, b.mod, b.flags, b.width, Precision(b), v, up))
<1> DEFINE n     == Pf!Unsigned(v, Widths[b.mod])
           d     == Pf!Dtoa(n, 16, IF b.conv = "x" THEN Pf!Lower ELSE Pf!Upper)
           lead  == IF "#" \in b.flags /\ n # 0 THEN <<"0", b.conv>> ELSE <<>>
           text  == Pf!Field(b.width, b.flags, ~b.pflag, lead, Pf!AtLeast(Precision(b), n, d))
<1>1. Countable(n, 16) OBVIOUS
<1> HIDE DEF n
<1>2. PICK S : FillsIn(S) /\ Marks \subseteq S /\ d \in Seq(S) BY <1>1, DigitsAreText
<1> HIDE DEF d
<1>3. lead \in Seq(S)
  <2>1. "0" \in Marks /\ b.conv \in Marks BY DEF Marks
  <2>2. <<"0", b.conv>> \in Seq(Marks) BY <2>1
  <2>3. <<>> \in Seq(Marks) OBVIOUS
  <2>4. lead \in Seq(Marks) BY <2>2, <2>3
  <2> HIDE DEF lead
  <2> QED BY <1>2, <2>4
<1> HIDE DEF lead
<1>4. Agrees(Pf!WriteNumber(Pf!FlagManager(b), n, lead, d), text) BY <1>2, <1>3, NumberField
<1>5. Pf!HandleX(b, v) = Pf!WriteNumber(Pf!FlagManager(b), n, lead, d) BY Zenon DEF Pf!HandleX, n, d, lead
<1>6. Pf!Standard(b.conv, b.mod, b.flags, b.width, Precision(b), v, up) = text
  <2>1. CASE b.conv = "x" BY <2>1, PrecisionIs, Zenon DEF Pf!Standard, n, d, lead
  <2>2. CASE b.conv = "X" BY <2>2, PrecisionIs, Zenon DEF Pf!Standard, n, d, lead
  <2> QED BY <2>1, <2>2
<1> QED BY <1>4, <1>5, <1>6

\* %p, which does without flag_manager, where the flag 0 is not set.
LEMMA PointerField ==
  ASSUME NEW b, Parsed(b), NEW v, NEW up, Countable(v, 16), "0" \notin b.flags
  PROVE  Agrees(Pf!HandleP(b, v), Pf!Standard("p", b.mod, b.flags, b.width, Precision(b), v, up))
<1> DEFINE d     == Pf!Dtoa(v, 16, Pf!Lower)
           lead  == <<"0", "x">>
           body  == Pf!AtLeast(Precision(b), v, d)
<1>1. b \in Block /\ b.width \in Nat BY DEF Parsed, Block
<1>2. PICK S : FillsIn(S) /\ Marks \subseteq S /\ d \in Seq(S) BY DigitsAreText
<1> HIDE DEF d
<1>3. lead \in Seq(S)
  <2>1. "0" \in Marks /\ "x" \in Marks BY DEF Marks
  <2>2. <<"0", "x">> \in Seq(Marks) BY <2>1
  <2> HIDE DEF lead
  <2> QED BY <1>2, <2>2 DEF lead
<1> HIDE DEF lead
<1>4. Agrees(Pf!WriteNumber(b, v, lead, d), Pf!Field(b.width, b.flags, TRUE, lead, body))
  <2>1. CASE b.pflag
    <3>1. Precise(b) BY <1>1, <2>1 DEF Precise, Wide, Parsed
    <3>2. b.p = Precision(b) BY <2>1 DEF Precision
    <3> QED BY <1>2, <1>3, <3>1, <3>2, PreciseNumber
  <2>2. CASE ~b.pflag
    <3>1. Bare(b) BY <1>1, <2>2 DEF Bare, Wide, Exclusive
    <3>2. Precision(b) = Pf!NoWidth BY <2>2 DEF Precision
    <3> QED BY <1>2, <1>3, <3>1, <3>2, BareNumber
  <2> QED BY <2>1, <2>2
<1>5. Pf!Field(b.width, b.flags, TRUE, lead, body) = Pf!Field(b.width, b.flags, ~b.pflag, lead, body)
  BY Zenon DEF Pf!Field
<1>6. Pf!HandleP(b, v) = Pf!WriteNumber(b, v, lead, d) BY Zenon DEF Pf!HandleP, d, lead
<1>7. Pf!Standard("p", b.mod, b.flags, b.width, Precision(b), v, up) = Pf!Field(b.width, b.flags, ~b.pflag, lead, body)
  BY PrecisionIs, Zenon DEF Pf!Standard, d, lead
<1> QED BY <1>4, <1>5, <1>6, <1>7

\* Fields of text.
LEMMA TextField ==
  ASSUME NEW S, FillsIn(S), NEW b \in Block, NEW s \in Seq(S)
  PROVE  Agrees(Pf!WriteText(b, s), Pf!Field(b.width, b.flags, TRUE, <<>>, s))
<1> DEFINE width == b.width
           flags == b.flags
           blen  == Len(s)
           k     == width - blen
           w     == Pf!Pad(Pf!Larger(k, 0), Space)
           f     == Pf!Pad(Pf!Larger(k, 0), "0")
           text  == Pf!Field(width, flags, TRUE, <<>>, s)
<1>1. width \in Nat /\ blen \in Nat /\ k \in Int
  <2>1. width \in Nat BY DEF Block
  <2>2. Len(s) \in Nat BY LenProperties
  <2> QED BY <2>1, <2>2
<1> HIDE DEF width, flags
<1>2. Pf!Larger(width, blen) = IF k > 0 THEN blen + k ELSE blen BY <1>1 DEF Pf!Larger
<1>3. width - Len(<<>>) - Len(s) = k BY <1>1, EmptySeq
<1>4. text = IF "-" \in flags THEN <<>> \o s \o w
             ELSE IF "0" \in flags THEN <<>> \o f \o s ELSE w \o <<>> \o s
  <2> DEFINE g == Pf!Pad(Pf!Larger(width - Len(<<>>) - Len(s), 0), Space)
             h == Pf!Pad(Pf!Larger(width - Len(<<>>) - Len(s), 0), "0")
  <2>1. text = IF "-" \in flags THEN <<>> \o s \o g
               ELSE IF "0" \in flags THEN <<>> \o h \o s ELSE g \o <<>> \o s
    BY Zenon DEF Pf!Field, Space
  <2>2. g = w /\ h = f BY <1>3
  <2> HIDE DEF g, h, w, f, text
  <2> QED BY <2>1, <2>2
<1>5. Pf!WriteText(b, s) = [text |-> IF "-" \in flags THEN s \o w ELSE IF "0" \in flags THEN f \o s ELSE w \o s,
                          len |-> Pf!Larger(width, blen)]
  BY Zenon DEF Pf!WriteText, Space, width, flags
<1> HIDE DEF k, blen
<1>6. /\ w \in Seq(S) /\ Len(w) = (IF k > 0 THEN k ELSE 0)
      /\ f \in Seq(S) /\ Len(f) = (IF k > 0 THEN k ELSE 0)
  BY <1>1, Filling DEF FillsIn
<1> HIDE DEF w, f, text
<1>7. <<>> \o s = s /\ <<>> \o f = f /\ w \o <<>> = w BY <1>6, Nothing
<1>8. /\ Len(s \o w) = blen + Len(w) /\ Len(f \o s) = Len(f) + blen /\ Len(w \o s) = Len(w) + blen
  BY <1>6, ConcatProperties DEF blen
<1>9. text = IF "-" \in flags THEN s \o w ELSE IF "0" \in flags THEN f \o s ELSE w \o s BY <1>4, <1>7
<1>10. Len(text) = Pf!Larger(width, blen)
  <2>1. CASE k > 0
    <3>1. Len(w) = k /\ Len(f) = k BY <1>6, <2>1
    <3>2. Len(s \o w) = blen + k /\ Len(f \o s) = blen + k /\ Len(w \o s) = blen + k BY <1>1, <1>8, <3>1
    <3> QED BY <1>2, <1>9, <2>1, <3>2
  <2>2. CASE ~(k > 0)
    <3>1. Len(w) = 0 /\ Len(f) = 0 BY <1>6, <2>2
    <3>2. Len(s \o w) = blen /\ Len(f \o s) = blen /\ Len(w \o s) = blen BY <1>1, <1>8, <3>1
    <3> QED BY <1>2, <1>9, <2>2, <3>2
  <2> QED BY <2>1, <2>2
<1>11. Agrees([text |-> text, len |-> Pf!Larger(width, blen)], text) BY <1>10 DEF Agrees
<1> QED BY <1>5, <1>9, <1>11 DEF text, width, flags

\* %c and %%.
LEMMA CharField ==
  ASSUME NEW b \in Block, NEW c, NEW prec, NEW up
  PROVE  /\ Agrees(Pf!HandleC(b, c), Pf!Standard("c", b.mod, b.flags, b.width, prec, c, up))
         /\ Agrees(Pf!HandleC(b, "%"), Pf!Standard("%", b.mod, b.flags, b.width, prec, c, up))
<1>1. ASSUME NEW d PROVE Agrees(Pf!HandleC(b, d), Pf!Field(b.width, b.flags, TRUE, <<>>, <<d>>))
  <2> DEFINE S == {d, "0", Space}
             s == <<d>>
  <2>1. s \in Seq(S) OBVIOUS
  <2>2. FillsIn(S) BY DEF FillsIn
  <2> HIDE DEF S, s
  <2>3. Agrees(Pf!WriteText(b, s), Pf!Field(b.width, b.flags, TRUE, <<>>, s)) BY <2>1, <2>2, TextField
  <2> QED BY <2>3 DEF s, Pf!HandleC
<1>2. Pf!Standard("c", b.mod, b.flags, b.width, prec, c, up) = Pf!Field(b.width, b.flags, TRUE, <<>>, <<c>>)
  BY Zenon DEF Pf!Standard
<1>3. Pf!Standard("%", b.mod, b.flags, b.width, prec, c, up) = Pf!Field(b.width, b.flags, TRUE, <<>>, <<"%">>)
  BY Zenon DEF Pf!Standard
<1> QED BY <1>1, <1>2, <1>3, Zenon

\* %s.
LEMMA StringField ==
  ASSUME NEW S, FillsIn(S), NEW b, Parsed(b), NEW str, str = Null \/ str \in Seq(S), NEW up
  PROVE  Agrees(Pf!HandleS(b, str), Pf!Standard("s", b.mod, b.flags, b.width, Precision(b), str, up))
<1> DEFINE null == <<"(", "n", "u", "l", "l", ")">>
           U    == S \cup {"(", "n", "u", "l", ")"}
           s    == IF str = Null THEN null ELSE str
           m    == IF b.pflag /\ b.p < Len(s) THEN b.p ELSE Len(s)
           part == SubSeq(s, 1, m)
<1>1. b \in Block BY DEF Parsed
<1>2. FillsIn(U) BY DEF FillsIn
<1>3. s \in Seq(U)
  <2>1. null \in Seq(U) OBVIOUS
  <2>2. str \in Seq(S) => str \in Seq(U) OBVIOUS
  <2> HIDE DEF null, U
  <2> QED BY <2>1, <2>2
<1> HIDE DEF s, U
<1>4. Len(s) \in Nat BY <1>3, LenProperties
<1>5. m \in 0..Len(s)
  <2>1. CASE b.pflag BY <1>4, <2>1 DEF Parsed
  <2>2. CASE ~b.pflag BY <1>4, <2>2
  <2> QED BY <2>1, <2>2
<1>6. m = IF (Precision(b) = Pf!NoWidth) \/ Precision(b) > Len(s) THEN Len(s) ELSE Precision(b)
  <2>1. CASE b.pflag
    <3>1. Precision(b) = b.p /\ b.p \in Nat BY <2>1 DEF Parsed, Precision
    <3> QED BY <1>4, <2>1, <3>1 DEF Pf!NoWidth
  <2>2. CASE ~b.pflag BY <2>2 DEF Precision
  <2> QED BY <2>1, <2>2
<1> HIDE DEF m
<1>7. part \in Seq(U) BY <1>3, <1>5, SubSeqProperties
<1> HIDE DEF part
<1>8. Agrees(Pf!WriteText(b, part), Pf!Field(b.width, b.flags, TRUE, <<>>, part)) BY <1>1, <1>2, <1>7, TextField
<1>9. Pf!HandleS(b, str) = Pf!WriteText(b, part) BY Zenon DEF Pf!HandleS, part, m, s
<1>10. Pf!Standard("s", b.mod, b.flags, b.width, Precision(b), str, up) = Pf!Field(b.width, b.flags, TRUE, <<>>, part)
  BY <1>6, Zenon DEF Pf!Standard, part, s
<1> QED BY <1>8, <1>9, <1>10

\* The handlers of integers, pointers and text write the field of the standard, for every
\* width, precision, flags and argument, and return the number of characters they have
\* written.  %o with "#", %p with the flag 0 and %f are excepted.
THEOREM FieldsAsStandard ==
  ASSUME NEW b, Parsed(b), NEW v, NEW up, NEW Char
  PROVE  LET Field(c) == Pf!Standard(c, b.mod, b.flags, b.width, Precision(b), v, up)
             n == Pf!Signed(v, Widths[b.mod])
             u == Pf!Unsigned(v, Widths[b.mod])
         IN  /\ Countable(IF n < 0 THEN -n ELSE n, 10) => Agrees(Pf!HandleD(b, v), Field("d"))
             /\ Countable(u, 10) => Agrees(Pf!HandleU(b, v), Field("u"))
             /\ Countable(u, 8) /\ "#" \notin b.flags => Agrees(Pf!HandleO(b, v), Field("o"))
             /\ Countable(u, 16) /\ b.conv \in {"x", "X"} => Agrees(Pf!HandleX(b, v), Field(b.conv))
             /\ Countable(v, 16) /\ "0" \notin b.flags => Agrees(Pf!HandleP(b, v), Field("p"))
             /\ Agrees(Pf!HandleC(b, v), Field("c"))
             /\ Agrees(Pf!HandleC(b, "%"), Field("%"))
             /\ v = Null \/ v \in Seq(Char) => Agrees(Pf!HandleS(b, v), Field("s"))
<1>1. b \in Block BY DEF Parsed
<1> DEFINE S == Char \cup {"0", Space}
<1>2. FillsIn(S) BY DEF FillsIn
<1>3. v \in Seq(Char) => v \in Seq(S) OBVIOUS
<1> HIDE DEF S
<1>4. v = Null \/ v \in Seq(Char)
        => Agrees(Pf!HandleS(b, v), Pf!Standard("s", b.mod, b.flags, b.width, Precision(b), v, up))
  BY <1>2, <1>3, StringField
<1> QED BY <1>1, <1>4, SignedField, UnsignedField, OctalField, HexField, PointerField, CharField, Zenon

=============================================================================

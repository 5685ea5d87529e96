----------------------------- MODULE WorkingDir -----------------------------
(***************************************************************************)
(* The working directory of one server session: a string of SERVER_BUFF_-  *)
(* SIZE bytes that handle_cd() and cd_helper() extend and cut, and that    *)
(* every handler puts between the server's root and a name.                *)
(***************************************************************************)
EXTENDS CStrings

CONSTANTS
  Char, Slash, Dot,
  Size,      \* SERVER_BUFF_SIZE
  BigSize,   \* the buffer of is_valid_directory()
  Root,      \* g_server_root
  Names      \* what a client may give to cd, get and put

Top == <<Slash>>
Up  == <<Dot, Dot>>

ASSUME CharAssumption == Slash \in Char /\ Dot \in Char /\ Slash # Dot
ASSUME NameAssumption == Names \subseteq Seq(Char) \ {<<>>}
ASSUME SizeAssumption ==
  /\ Size \in Nat /\ Size > 1 /\ BigSize \in Nat
  /\ Root \in Seq(Char) /\ Root # <<>> /\ Len(Root) < Size
  /\ \A n \in Names : Len(Root) + Size + Len(n) < BigSize

VARIABLES
  cwd,     \* char cwd[SERVER_BUFF_SIZE]
  asked,   \* the path last given to lstat(), open() or ls
  wanted,  \* history: the directory and the name that it should be
  trail,   \* history: the whole path after each cd that has not been taken back
  traced   \* history: no cd in trail began in a directory that filled its buffer

vars == <<cwd, asked, wanted, trail, traced>>

Last(s)  == s[Len(s)]
Front(s) == SubSeq(s, 1, Len(s) - 1)

Init ==
  /\ cwd = Top
  /\ asked = <<>> /\ wanted = [dir |-> Top, name |-> <<>>]
  /\ trail = <<Top>> /\ traced = TRUE

(***************************************************************************)
(* The strings.                                                            *)
(***************************************************************************)
\* handle_cd: one level down.
Enter(s, name) ==
  Strlcat(IF s # Top THEN Strlcat(s, <<Slash>>, Size) ELSE s, name, Size)

\* Mutant of Leave: up to the first '/'.
LeaveFirst(s) ==
  LET up == Before(s, Slash)
  IN  IF up = <<>> THEN Strlcat(up, <<Slash>>, Size) ELSE up

\* Mutant of Leave: the root is the empty string.
LeaveEmpty(s) == BeforeLast(s, Slash)

\* cd_helper.
Leave(s) ==
  LET up == BeforeLast(s, Slash)
  IN  IF up = <<>> THEN Strlcat(up, <<Slash>>, Size) ELSE up

\* is_valid_directory: what lstat() is asked.
DirPath(name) ==
  Strlcat(Strlcat(Strlcat(Cut(Root, BigSize), cwd, BigSize), <<Slash>>, BigSize), name, BigSize)

\* Mutant of FilePath: the name follows the directory at once.
FilePathJoined(name) == Strlcat(Strlcat(Root, cwd, Size), name, Size)

\* is_gettable_file, get_file_size_from_filename, send_file_to_client and
\* rec_file_from_client: four copies of the same lines, one operator.
FilePath(name) ==
  LET dir == Strlcat(Root, cwd, Size)
  IN  Strlcat(IF cwd # Top THEN Strlcat(dir, <<Slash>>, Size) ELSE dir, name, Size)

\* handle_ls: in the root, ls is called without a path, and the process is in Root.
ListPath == IF cwd = Top THEN Root ELSE Strlcat(Root, cwd, Size)

(***************************************************************************)
(* The commands.                                                           *)
(***************************************************************************)
Ask(path, name) == asked' = path /\ wanted' = [dir |-> Last(trail), name |-> name]

\* Where a client that counts its own steps believes to be after cd name.
Below(dir, name) == (IF dir = Top THEN dir ELSE dir \o <<Slash>>) \o name

\* A cd that begins in a full directory changes nothing, and cd .. will take it for
\* the cd before: the way back is lost.
Push(name) ==
  IF traced THEN /\ trail' = Append(trail, Below(Last(trail), name))
                 /\ traced' = (Len(Last(trail)) < Size - 1)
  ELSE UNCHANGED <<trail, traced>>

\* Back at the root, a session that had lost its way knows it again.
Pop ==
  IF traced THEN trail' = Front(trail) /\ UNCHANGED traced
  ELSE /\ traced' = (cwd' = Top)
       /\ trail' = IF cwd' = Top THEN <<Top>> ELSE trail

CdUp ==
  /\ cwd # Top
  /\ cwd' = Leave(cwd)
  /\ Pop
  /\ UNCHANGED <<asked, wanted>>

\* Mutant of Cd: a name may be a path.
CdPath(name) ==
  /\ name # Up
  /\ Ask(DirPath(name), name)
  /\ \/ cwd' = Enter(cwd, name) /\ Push(name)
     \/ UNCHANGED <<cwd, trail, traced>>

\* lstat() may find a directory or not.
Cd(name) ==
  /\ ~Has(name, Slash) /\ name # Up
  /\ Ask(DirPath(name), name)
  /\ \/ cwd' = Enter(cwd, name) /\ Push(name)
     \/ UNCHANGED <<cwd, trail, traced>>

\* handle_get and handle_put, of the server; the client lets no '/' pass.
Transfer(name) ==
  /\ ~Has(name, Slash)
  /\ Ask(FilePath(name), name)
  /\ UNCHANGED <<cwd, trail, traced>>

List == Ask(ListPath, <<>>) /\ UNCHANGED <<cwd, trail, traced>>

Next == (\E n \in Names : Cd(n) \/ Transfer(n)) \/ (Up \in Names /\ CdUp) \/ List

Spec == Init /\ [][Next]_vars

-----------------------------------------------------------------------------
(* Properties. *)

\* The working directory is a path in its buffer, so that cd_helper finds its '/'.
TypeOK ==
  /\ cwd \in Seq(Char) /\ cwd # <<>> /\ cwd[1] = Slash /\ Len(cwd) < Size
  /\ asked \in Seq(Char)
  /\ wanted \in [dir : Seq(Char), name : Seq(Char)]
  /\ trail \in Seq(Seq(Char)) /\ trail # <<>>
  /\ traced \in BOOLEAN

\* cd .. , which looks at the text alone, undoes the last cd that was not undone yet:
\* also after cd . , after names of dots, in the root, and after a cd whose name was
\* cut at the end of the buffer.  Not so after a cd that began in a full directory.
Retrace == traced => cwd = Cut(Last(trail), Size - 1)

\* The places in s at which the kernel would go up.
Ups(s) ==
  {i \in 1..Len(s) : /\ i + 2 <= Len(s) /\ s[i] = Slash /\ s[i + 1] = Dot /\ s[i + 2] = Dot
                     /\ i + 2 < Len(s) => s[i + 3] = Slash}

\* Nothing that was typed in full makes a component '..' of a working directory.  A
\* name such as '..a' may be cut to one, but only as the last component of a directory
\* that fills its buffer, to which no further cd adds anything.
Inside ==
  /\ traced /\ Len(Last(trail)) < Size => Ups(cwd) = {}
  /\ Ups(cwd) \subseteq {Size - 3}

\* s is the path of `name` in `dir`; the kernel takes "//" for "/".
Denotes(s, dir, name) ==
  IF name = <<>>
  THEN s = Root \o dir \/ (dir = Top /\ s = Root)
  ELSE s = Root \o dir \o <<Slash>> \o name \/ (dir = Top /\ s = Root \o dir \o name)

\* is_valid_directory, the copies of FilePath and handle_ls build the path of the name
\* in the directory where the client is, as long as it fits.
Addressed ==
  [][ /\ <<asked, wanted>>' # <<asked, wanted>> /\ traced
      /\ Len(Root) + Len(wanted'.dir) + 1 + Len(wanted'.name) < Size
      => Denotes(asked', wanted'.dir, wanted'.name) ]_vars

=============================================================================

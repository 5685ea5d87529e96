---------------------------- MODULE ProgressBar ----------------------------
(***************************************************************************)
(* The client's transfer loops count what recv() or send() returns in a    *)
(* size_t and, when the file has a size, draw a bar of it into a buffer on *)
(* the stack (read_data_from_request, send_data_for_request and            *)
(* write_progress).  A call that fails is counted too: its -1 is added.    *)
(***************************************************************************)
EXTENDS Naturals

CONSTANTS
  Bits,      \* of a size_t
  BarSize,   \* sizeof(buf) in write_progress
  MaxSize,   \* bound: file_size
  MaxBlock,  \* bound: what one recv() or send() returns
  MaxCalls   \* bound: calls in one transfer

VARIABLES
  file_size, \* as announced by the server, or as found before a put
  total,     \* what the loop has counted
  calls,     \* calls made so far
  moved,     \* history: the bytes that these calls transferred
  failed,    \* history: calls that returned -1
  marks      \* the '=' that write_progress has last put into buf

barVars == <<file_size, total, calls, moved, failed, marks>>

Init ==
  /\ file_size \in 0..MaxSize
  /\ total = 0 /\ calls = 0 /\ moved = 0 /\ failed = 0 /\ marks = 0

\* Mutant of Marks: the two cells for the bar's end are forgotten.
MarksUnclipped(sent, size) == (sent * BarSize + size - 1) \div size

\* write_progress: the i from 0 on with i < sent / size * sizeof(buf) - 2.
Marks(sent, size) ==
  IF sent * BarSize <= 2 * size THEN 0 ELSE (sent * BarSize - 2 * size + size - 1) \div size

\* One turn of the loop, its call having returned len.
Count(len) ==
  /\ calls < MaxCalls
  /\ calls' = calls + 1
  /\ total' = (total + len) % 2^Bits
  /\ marks' = IF file_size = 0 THEN marks ELSE Marks(total', file_size)
  /\ UNCHANGED file_size

Moves(len) == Count(len) /\ moved' = moved + len /\ UNCHANGED failed

\* (size_t)-1.
Fails == Count(2^Bits - 1) /\ failed' = failed + 1 /\ UNCHANGED moved

Next == Fails \/ \E len \in 1..MaxBlock : Moves(len)

Spec == Init /\ [][Next]_barVars

-----------------------------------------------------------------------------
(* Properties. *)

\* The bar leaves the NUL at the end of its buffer alone when no more is counted
\* than was announced.  A failed call does no harm once a byte was transferred,
\* and otherwise always writes beyond the buffer: what FtpClient's RecvReset and
\* FtpFaults' PutDirectory take for granted.
BarFits ==
  file_size > 0 =>
    /\ failed <= moved /\ moved <= file_size /\ total = moved - failed => marks < BarSize - 1
    /\ failed > 0 /\ moved = 0 => marks > BarSize

=============================================================================

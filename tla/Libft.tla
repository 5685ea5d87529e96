------------------------------- MODULE Libft -------------------------------
(***************************************************************************)
(* libft's parts that keep no state together, side by side: its lists, the *)
(* client's bar, the functions on memory and ft_printf, with their         *)
(* properties.                                                             *)
(***************************************************************************)
EXTENDS Lists, Integers

CONSTANTS
  Bits, BarSize, MaxSize, MaxBlock, MaxCalls,   \* of ProgressBar
  Size, NUL, Blank, Other, Beyond, Overrun, Pending,   \* of CMemory
  Calls, Widths                                 \* of Printf, whose Bits are Widths

ASSUME WidthsAssumption == Widths \in [{"hh", "h", "", "L", "l", "ll"} -> Nat \ {0}]

VARIABLES
  file_size, total, calls, moved, failed, marks,
  mem, memCall, before, ret,
  call, format, ap, out, count, pc

Bar == INSTANCE ProgressBar
Mem == INSTANCE CMemory WITH call <- memCall
Pf  == INSTANCE PrintfStandard WITH Bits <- Widths

\* write_progress stays in its buffer in the cases its callers rely on.
BarFits == Bar!BarFits

\* ft_memmove to ft_strtrim leave in memory, and return, what they are meant to.
AsMeant == Mem!AsMeant

\* ft_printf returns the number of characters it has written, in all but two cases.
CountIsWritten == Pf!CountIsWritten

\* ft_printf writes what the standard says, except where it is known not to.
AsStandard == Pf!AsStandard

=============================================================================

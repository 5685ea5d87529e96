------------------------------ MODULE MCLibft ------------------------------
(* A behavior is one of libft's parts at work while the others rest. *)
EXTENDS MCPrintf

CONSTANTS n1, n2, n3, n4

VARIABLE machine

MCCells  == {n1, n2, n3, n4}
Symmetry == Permutations(MCCells)

printVars == <<call, format, ap, out, count, pc>>
barVars   == <<file_size, total, calls, moved, failed, marks>>
memVars   == <<mem, memCall, before, ret>>
libftVars == <<machine, printVars, listVars, barVars, memVars>>

Resting(name) ==
  \/ name = "printf" /\ call = Null /\ format = Null /\ ap = Null /\ out = Null
       /\ count = Null /\ pc = "rest"
  \/ name = "memory" /\ mem = Null /\ memCall = Null /\ before = Null /\ ret = Pending

LibftInit ==
  /\ machine \in {"printf", "lists", "bar", "memory"}
  /\ IF machine = "printf" THEN Pf!Init ELSE Resting("printf")
  /\ IF machine = "memory" THEN Mem!Init ELSE Resting("memory")
  /\ Init
  /\ Bar!Init
  /\ machine # "bar" => file_size = 0

LibftNext ==
  /\ UNCHANGED machine
  /\ \/ machine = "printf" /\ Pf!Next /\ UNCHANGED <<listVars, barVars, memVars>>
     \/ machine = "lists" /\ Next /\ UNCHANGED <<printVars, barVars, memVars>>
     \/ machine = "bar" /\ Bar!Next /\ UNCHANGED <<printVars, listVars, memVars>>
     \/ machine = "memory" /\ Mem!Run /\ UNCHANGED <<printVars, listVars, barVars>>

LibftSpec == LibftInit /\ [][LibftNext]_libftVars

=============================================================================

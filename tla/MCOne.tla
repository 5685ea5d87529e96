------------------------------- MODULE MCOne -------------------------------
(* One client with every command, which may be killed at any moment. *)
EXTENDS FtpSystem

CONSTANT c1

MCClients == {c1}
MCNames   == {"d", "f", "g"}
MCBlocks  == {"a", "b"}
MCTree    == {<<>>, <<"d">>}

MCFsInit  == [p \in MCTree |->
               [n \in MCNames |-> IF p = <<>> /\ n = "f" THEN <<"a", "b">> ELSE NoFile]]

\* "d" is a file here and a directory there: the put that the server refuses.
MCLocal   == [c \in MCClients |->
               [n \in MCNames |-> CASE n = "d" -> <<"b">>
                                    [] n = "g" -> <<"b", "b">>
                                    [] OTHER   -> NoFile]]

MCMenu    == [c \in MCClients |-> Commands]

=============================================================================

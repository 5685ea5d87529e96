------------------------------- MODULE MCTwo -------------------------------
(* Two clients on the same file. *)
EXTENDS FtpSystem, TLC

CONSTANTS c1, c2

MCClients == {c1, c2}
MCNames   == {"f"}
MCBlocks  == {"a", "b", "c", "d"}
MCTree    == {<<>>}
MCFsInit  == [p \in MCTree |-> [n \in MCNames |-> <<"a", "b">>]]

\* A file shorter than the server's and one that is longer.
MCLocal   == (c1 :> [n \in MCNames |-> <<"c">>])
               @@ (c2 :> [n \in MCNames |-> <<"d", "b", "d">>])

List == [code |-> "LIST", name |-> ""]
Get  == [code |-> "GET", name |-> "f"]
Put  == [code |-> "PUT", name |-> "f"]

\* A reader and writer, which may be killed, against a writer.
MCReadWrite == (c1 :> {Get, Put}) @@ (c2 :> {Put})
MCFirst     == {c1}

\* A get or a put against an ls, for the liveness properties.
MCTransferList == (c1 :> {Get, Put}) @@ (c2 :> {List})

=============================================================================

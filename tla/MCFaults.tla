------------------------------ MODULE MCFaults ------------------------------
(* Two clients, and calls that fail in the session of the second one; "d" is
   a directory of its own. *)
EXTENDS FtpFaults, TLC

CONSTANTS c1, c2

MCClients == {c1, c2}
MCNames   == {"d", "f"}
MCBlocks  == {"a", "b"}
MCTree    == {<<>>}
MCFsInit  == [p \in MCTree |-> [n \in MCNames |-> IF n = "f" THEN <<"a">> ELSE NoFile]]

MCLocal   == (c1 :> [n \in MCNames |-> NoFile])
               @@ (c2 :> [n \in MCNames |-> IF n = "d" THEN <<>> ELSE <<"b">>])
MCUnlucky == {c2}
MCDirs    == (c1 :> {}) @@ (c2 :> {"d"})

List      == [code |-> "LIST", name |-> ""]
Get       == [code |-> "GET", name |-> "f"]
MCMenu    == (c1 :> {List}) @@ (c2 :> {List, Get} \cup [code : {"PUT"}, name : MCNames])

=============================================================================

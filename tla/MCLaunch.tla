------------------------------ MODULE MCLaunch ------------------------------
(* Three connections on two descriptors. *)
EXTENDS FtpLaunch, TLC

CONSTANTS k1, k2, k3

MCThree == {k1, k2, k3}
MCFds   == {4, 5}

\* A state constraint of the passing run: what follows once main has overtaken a
\* thread is not explored, for its properties claim nothing there.
BeforeOvertaking == ~overtaken

=============================================================================

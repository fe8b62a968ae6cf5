--------------------------- MODULE MCSSHDataStore ---------------------------
(* A small instance of SSHDataStore. *)
EXTENDS SSHDataStore, TLC

\* One file of two chunks is on the server.
MCPresent == "x" :> <<1, 2>>

MCData == {<<3>>, <<3, 4, 5>>}

=============================================================================

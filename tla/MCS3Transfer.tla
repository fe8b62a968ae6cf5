---------------------------- MODULE MCS3Transfer ----------------------------
(* A small instance of S3Transfer. *)
EXTENDS S3Transfer

\* An object that fits the stream buffers, and one that needs them twice.
MCPayload == {Block(0, <<1>>), Block(0, <<1, 2>>)}

=============================================================================

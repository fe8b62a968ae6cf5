----------------------------- MODULE MCRestore -----------------------------
(* Instances of Restore, with the backups of MCRepository, for TLC. *)
EXTENDS Restore, MCRepository

\* One file, the same block twice, in backups that can be cancelled.
SharedJobs == { Packed(<<<<LargeFile("a", 1, <<<<5>>, <<5>>>>)>>>>) }

=============================================================================

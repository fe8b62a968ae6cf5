---------------------------- MODULE MCRepository ----------------------------
(***************************************************************************)
(* Instances of Repository for TLC.  Bytes are 5 and 6, apart from the     *)
(* compression types 0 and 1.                                              *)
(***************************************************************************)
EXTENDS Repository

CONSTANTS c1, c2, n1, n2

\* Processes and snapshot names are interchangeable.
Symmetry == Permutations(Client) \cup Permutations(Name)

LargeFile(path, comp, blocks) ==
    [path |-> path, comp |-> comp, small |-> FALSE, blocks |-> blocks]

SmallFile(path, comp, data) ==
    [path |-> path, comp |-> comp, small |-> TRUE, blocks |-> <<data>>]

Plain(files_) == [packed |-> FALSE, args |-> <<files_>>]

Packed(args_) == [packed |-> TRUE, args |-> args_]

\* Two versions of a large file that share a block, a file that is the same
\* data under another compression type, and a path given in two arguments.
BlockJobs ==
    { Plain(<<LargeFile("a", 1, <<<<5>>, <<6>>>>)>>),
      Plain(<<LargeFile("a", 1, <<<<6>>, <<6>>>>)>>),
      Packed(<<<<LargeFile("z", 0, <<<<6>>>>)>>, <<LargeFile("z", 0, <<<<5>>>>)>>>>) }

\* Backups with the command line's cancel handling: blocks, a pack of two
\* files, one of them empty, and a pack of one.
CancelJobs ==
    { Packed(<<<<LargeFile("a", 1, <<<<5>>, <<6>>>>), SmallFile("s", 1, <<5>>),
                 SmallFile("e", 0, <<>>)>>,
               <<SmallFile("t", 0, <<6>>)>>>>),
      Packed(<<<<LargeFile("b", 1, <<<<6>>, <<5>>>>)>>>>) }

\* The same small files, backed up again.
PackJobs ==
    { Packed(<<<<SmallFile("s", 1, <<5>>), SmallFile("t", 1, <<6>>)>>>>) }

\* The same bytes in files of two types.
TypeJobs ==
    { Packed(<<<<SmallFile("s.txt", 1, <<5>>)>>>>),
      Packed(<<<<SmallFile("s.png", 0, <<5>>)>>>>) }

=============================================================================

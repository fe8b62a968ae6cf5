----------------------------- MODULE MCSnapshot -----------------------------
(* Small instances of Snapshot: d and x are letters, 46 is the dot. *)
EXTENDS Snapshot

d == 100

x == 120

\* "d/x", "d.x" and, at the top, "x"
Paths == {<<d, SLASH, x>>, <<d, 46, x>>, <<x>>}

\* "x/d/x" and "x/d.x"
Siblings == {<<x, SLASH, d, SLASH, x>>, <<x, SLASH, d, 46, x>>}

\* an empty name, and one whose NUL starts a new word of 4 bytes
Owners == {<<>>, <<d, x, d, x>>}

OneOwner == {<<d>>}

\* an empty file, and lists up to one longer than allowed
IdLists == {<<>>, <<2, 1>>, <<1, 2, 1>>}

OneIdList == {<<1>>}

=============================================================================

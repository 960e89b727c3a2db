----------------------------- MODULE MCFileTree -----------------------------
EXTENDS FileTree
MCChunkers == {[first |-> 2, other |-> 2], [first |-> 1, other |-> 2]}
=============================================================================

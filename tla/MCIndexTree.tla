---------------------------- MODULE MCIndexTree -----------------------------
(***************************************************************************)
(* Sets of values for the runs of IndexTree, over bytes 0 .. 6.            *)
(***************************************************************************)
EXTENDS IndexTreeShape

\* A root that goes through all four kinds, a child of it that goes through
\* Node4 and Node16, and paths that are split, shared and merged.
Mixed == {<<>>} \cup {<<b>> : b \in 0 .. 5} \cup {<<0, b>> : b \in 0 .. 2}
         \cup {<<0, 0, 0>>, <<0, 0, 1>>, <<1, 0, 0>>, <<1, 0, 1>>}

\* One node through all four kinds, without and with the last byte.
Singles == {<<b>> : b \in 0 .. 5} \cup {<<>>, <<0, 1>>}
AllSingles == {<<b>> : b \in 0 .. 6}

NoValues == {}
=============================================================================

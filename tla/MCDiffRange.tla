----------------------------- MODULE MCDiffRange -----------------------------
(* Values of the constants of DiffRange for TLC. *)
EXTENDS DiffRange, TLC

\* One file at a time, a pin with its checksum, and the moves of text between
\* the source, the embedded guide and the documentation.
Single == {{p} : p \in Pieces \ {"block", "sum"}}
Usual == Single \cup {{"require", "sum"}, {"source", "prose"}, {"guide", "prose"}}
WithBlocks == {{"block"}}
=============================================================================

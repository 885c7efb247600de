--------------------------- MODULE MCCustomization ---------------------------
(* Small instances of Customization for TLC. *)
EXTENDS Customization, TLC

\* The manifest in the repository is MCPlain; what may be at Docker is nothing, another
\* image or the same.
MCPlain == [body |-> "new", ann |-> None]
MCOld == [body |-> "old", ann |-> {"note"}]
MCWant == [a \in Applies |-> MCPlain]
MCInitials == {None, MCOld, MCPlain}
MCSymmetry == Permutations(Releases) \union Permutations(Platforms)
=============================================================================

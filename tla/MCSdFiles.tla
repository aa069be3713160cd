----------------------------- MODULE MCSdFiles ------------------------------
(* Two files, two pictures and two slots.                                    *)
EXTENDS SdFiles, TLC

CONSTANTS p1, p2
MCPictures == <<p1, p2>>
MCSymmetry == Permutations(Names) \union Permutations(Blocks)
=============================================================================

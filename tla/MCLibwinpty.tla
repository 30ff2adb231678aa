----------------------------- MODULE MCLibwinpty -----------------------------
(***************************************************************************)
(* Libwinpty for TLC: the fonts of an old console.                         *)
(***************************************************************************)
EXTENDS Libwinpty

MCFontTable == << <<8, 12>>, <<3, 5>>, <<5, 8>>, <<8, 5>> >>
=============================================================================

----------------------------- MODULE MCConWeave -----------------------------
(* Instances of ConWeave for TLC.                                             *)
EXTENDS ConWeave

CONSTANTS path1, path2

TwoPaths == {path1, path2}

=============================================================================

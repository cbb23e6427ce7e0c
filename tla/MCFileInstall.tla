---------------------------- MODULE MCFileInstall ----------------------------
(* Model checking of FileInstall: every kind of description. *)
EXTENDS FileInstall

D(t, b, z, u) == [tmp |-> t, backup |-> b, zip |-> z, url |-> u]

\* A plain file, one with a backup, the binary of MiSTer, and files of a zip
\* with and without url.
All == {D(FALSE, FALSE, "none", TRUE), D(FALSE, TRUE, "none", TRUE), D(TRUE, TRUE, "none", TRUE),
        D(FALSE, FALSE, "members", TRUE), D(FALSE, TRUE, "members", FALSE),
        D(TRUE, TRUE, "members", TRUE), D(FALSE, TRUE, "whole", FALSE)}
=============================================================================

---------------------------- MODULE MCSQLiteLibrary ----------------------------
(* A small instance of SQLiteLibrary for TLC. *)
EXTENDS SQLiteLibrary

CONSTANTS i1, i2, i3

MCInstances == {i1, i2, i3}

=============================================================================

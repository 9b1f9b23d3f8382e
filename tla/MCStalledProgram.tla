-------------------------- MODULE MCStalledProgram --------------------------
(* A text for model checking StalledProgram: two equal characters follow each other. *)
EXTENDS StalledProgram

MCText == <<1, 2, 2, 1>>
=============================================================================

------------------------------ MODULE MCTextMenu ------------------------------
(***************************************************************************)
(* Model values for TextMenu.                                              *)
(***************************************************************************)
EXTENDS TextMenu

MCProfiles == {{}, {"var"}, {"marker"}, {"marker", "var"},
               {"marker", "var", "file", "system"}}
=============================================================================

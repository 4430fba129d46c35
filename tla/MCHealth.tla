------------------------------ MODULE MCHealth ------------------------------
(* Instance of Health for TLC.                                             *)
EXTENDS Health

MCOrder == <<"db">>
=============================================================================

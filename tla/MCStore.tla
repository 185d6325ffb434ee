-------------------------------- MODULE MCStore --------------------------------
(***************************************************************************)
(* The sessions on disk for TLC, on their own: one name and a spelling of  *)
(* it with a space.                                                        *)
(***************************************************************************)
EXTENDS SessionStore

MCStripped == [s \in Spellings |-> CHOOSE n \in SessionNames : TRUE]
=============================================================================

-------------------------------- MODULE MCEmt --------------------------------
(***************************************************************************)
(* EmtAdapters with one instrument.                                        *)
(***************************************************************************)
EXTENDS EmtAdapters

SomeLists == {<<"IF2401">>}
=============================================================================

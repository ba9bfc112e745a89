-------------------------- MODULE MCMetadataClient --------------------------
(***************************************************************************)
(* Instances of MetadataClient for TLC.  Callers are interchangeable, but  *)
(* symmetry is not sound for CallReturns and is not used.                  *)
(***************************************************************************)
EXTENDS MetadataClient
=============================================================================

-------------------------- MODULE MCOntologyService --------------------------
(***************************************************************************)
(* OntologyService for TLC.  Two threads, two reasoners, two users.         *)
(***************************************************************************)
EXTENDS OntologyService

CONSTANTS th1, th2, o1, o2, demo, ann
=============================================================================

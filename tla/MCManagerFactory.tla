-------------------------- MODULE MCManagerFactory --------------------------
(***************************************************************************)
(* ManagerFactory on small sets of goroutines and keys, which the          *)
(* configurations list.                                                    *)
(***************************************************************************)
EXTENDS ManagerFactory
=============================================================================

---------------------------- MODULE MCInflictions ----------------------------
(***************************************************************************)
(* Small instances of Inflictions: two members of staff at a time.  The    *)
(* forms are interchangeable.                                              *)
(***************************************************************************)
EXTENDS Inflictions, TLC

FormSymmetry == Permutations(Form)

=============================================================================

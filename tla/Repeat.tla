------------------------------- MODULE Repeat -------------------------------
(***************************************************************************)
(* The loops that end where a condition says so.                           *)
(***************************************************************************)
EXTENDS Loops

(* op until stop holds.                                                     *)
RECURSIVE Until(_, _, _)
Until(op(_), stop(_), r) == IF stop(r) THEN r ELSE Until(op, stop, op(r))
=============================================================================

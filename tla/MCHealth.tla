------------------------------ MODULE MCHealth ------------------------------
(***************************************************************************)
(* Windows of four, of which three make a sample.  A share of the results  *)
(* can lie below, at and above either rate, and one bad result of one      *)
(* exceeds a rate without being a sample.                                  *)
(***************************************************************************)
EXTENDS Health
=============================================================================

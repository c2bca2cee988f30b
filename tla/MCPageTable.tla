----------------------------- MODULE MCPageTable -----------------------------
(* PageTable on two rows and three ids: a removed row may be the last one   *)
(* or not, ids outnumber rows, and the index is grown twice.                *)
EXTENDS PageTable
=============================================================================

---------------------------- MODULE MCAuditChain ----------------------------
(***************************************************************************)
(* Four transactions: two change the same row, one another row, and one    *)
(* only records an access.                                                 *)
(***************************************************************************)
EXTENDS AuditChain, TLC

CONSTANTS update1, update2, grant, download, user, access

FourTxns == {update1, update2, grant, download}
RowOfFour == update1 :> user @@ update2 :> user @@ grant :> access @@ download :> None
=============================================================================

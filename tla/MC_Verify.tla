----------------------------- MODULE MC_Verify -----------------------------
(* AuditVerify with two entries, one of them --agent's. *)
EXTENDS AuditVerify

RowsOf(ids) == [id : ids, contents : {"recorded", "edited"},
                hash : {"recorded", "edited"}, time : {"recorded", "postdated"}]
LogRows == RowsOf({"mine", "other"})
=============================================================================

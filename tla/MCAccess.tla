------------------------------ MODULE MCAccess ------------------------------
(* Two users and rows on both sides of the jurisdiction, of the clearance *)
(* and of the elevated roles; policies that take a permission away.        *)
EXTENDS Access

Row(role, level, here, active) == [role |-> role, level |-> level, here |-> here, active |-> active]

MCRows ==
    {Row("INVESTIGATING_OFFICER", "SECRET", TRUE, TRUE),
     Row("SUPERVISOR", "RESTRICTED", TRUE, TRUE),
     Row("SUPERVISOR", "SECRET", TRUE, FALSE),
     Row("SYSTEM_ADMIN", "SECRET", FALSE, TRUE)}

MCOverrides ==
    {[elevated |-> {"SYSTEM_ADMIN"}, cross |-> {}], [may |-> "SUPERVISOR" :> {"document:read"}]}

Interchangeable == Permutations(Users)
=============================================================================

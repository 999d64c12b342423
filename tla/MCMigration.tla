------------------------------- MODULE MCMigration -------------------------------
(***************************************************************************)
(* LegacyMigration for TLC.  a and b are the same problem under two ids; c  *)
(* is another product's finding on their host; Reused is a later problem    *)
(* under the id b.  The legacy job table is empty or holds one queued job.   *)
(***************************************************************************)
EXTENDS LegacyMigration

CONSTANTS a, b, c, p1, p2, p3, host, s1, s2, j1, k1, t1

Finding(id, fingerprint, source) ==
  [id |-> id, fingerprint |-> fingerprint, host |-> host, source |-> source]

MCFindings == {Finding(a, p1, s1), Finding(b, p1, s1), Finding(c, p2, s2), Finding(b, p3, s1)}

MCLegacyJobs == {{}, {[id |-> j1, tenant |-> t1, key |-> k1, status |-> "queued", events |-> 1]}}

=============================================================================

------------------------------- MODULE MCFindings --------------------------------
(***************************************************************************)
(* FindingRegistry for TLC.  Four findings: a and b are the same problem    *)
(* under two product ids, b earlier, more severe and with the host in other *)
(* letters; c is another product's finding on a's host; d is a finding      *)
(* without a host.  One report has the same problem twice.                  *)
(***************************************************************************)
EXTENDS FindingRegistry, TLC

CONSTANTS a, b, c, d, p1, p2, p3, p4, host, Host, s1, s2

Finding(id, fingerprint, h, source, severity, ts) ==
  [id |-> id, fingerprint |-> fingerprint, host |-> h, source |-> source,
   severity |-> severity, ts |-> ts]

A == Finding(a, p1, host, s1, 1, 2)

B == Finding(b, p1, Host, s1, 2, 1)

C == Finding(c, p2, host, s2, 1, 3)

D == Finding(d, p3, None, s1, 1, 2)

\* A product that gives a new problem the id of an old one.
Reused == Finding(c, p4, None, s2, 1, 2)

MCReports == {<<A>>, <<D>>, <<B, A>>, <<C>>, <<Reused>>, << >>}

Symmetry == Permutations(Runs)

=============================================================================

--------------------------- MODULE MCCaptureJobs ----------------------------
(* Instances of CaptureJobs for TLC: two links of one host, and prefixes   *)
(* for the host and for one of the two paths.                              *)
EXTENDS CaptureJobs, TLC

MCLinks == {"host/a", "host/b"}
MCPrefixes == {"host", "host/a"}
OneLink == {"host/a"}
OnePrefix == {"host"}
NoPrefixes == {}
MCCovered ==
    [p \in Prefixes |-> IF p = "host" THEN Links ELSE Links \cap {"host/a"}]

Symmetry == Permutations(Jobs) \cup Permutations(Clients)
=============================================================================

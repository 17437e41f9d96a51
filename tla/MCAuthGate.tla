----------------------------- MODULE MCAuthGate -----------------------------
(***************************************************************************)
(* Instances of the attempt limiter.  Of two hosts, "old" was started one  *)
(* unit of time before "young".                                            *)
(***************************************************************************)
EXTENDS AuthGate
MCUptime == [h \in Host |-> IF h = "old" THEN 1 ELSE 0]
=============================================================================

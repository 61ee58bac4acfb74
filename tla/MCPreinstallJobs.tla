------------------------- MODULE MCPreinstallJobs -------------------------
(* PreinstallJobs on small sets, for TLC. *)
EXTENDS PreinstallJobs
CONSTANTS a, b
OneApp == {a}
Listings == {{a}, {a, b}}
===========================================================================

----------------------------- MODULE MCSdArbiter -----------------------------
(***************************************************************************)
(* SdArbiter.tla on four clients and three sectors: enough for a grant     *)
(* that passes over an idle client, two clients that ask at once, and a    *)
(* sector number that changes after the grant.                             *)
(***************************************************************************)
EXTENDS SdArbiter

CONSTANTS s1, s2, s3

MCSector == {s1, s2, s3}
=============================================================================

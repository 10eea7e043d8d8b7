---------------------------- MODULE MCSdTransfer ----------------------------
(***************************************************************************)
(* SdTransfer.tla on two sectors of two beats.                             *)
(***************************************************************************)
EXTENDS SdTransfer

CONSTANTS l1, l2

MCLba == {l1, l2}

(* Every command but CMD24, which has no way out of a bad reply. *)
MCBadCmds == InitCmds \cup {"CMD17"}
=============================================================================

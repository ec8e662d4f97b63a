------------------------------- MODULE MCAta -------------------------------
(* Instances of Ata for TLC. *)
EXTENDS Ata, TLC
CONSTANTS a, s, h, disk, cdrom
Attached == (disk :> "disk") @@ (cdrom :> "cdrom")
=============================================================================

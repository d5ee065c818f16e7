--------------------------- MODULE MCDesktopEngine ---------------------------
(* Instances for TLC: see the README, section 3. *)
EXTENDS DesktopEngine

MCUrls == {"default", "other"}
MCCompliantUrls == {"default"}
=============================================================================

------------------------ MODULE MCPayloadLifecycle ------------------------
(***************************************************************************)
(* s1 needs set-up (a mount-like source), s2 has nothing to set up and     *)
(* needs the network, s3 is of a type the payload does not support.  The   *)
(* source spoke has two task objects, so a set-up it created can run after *)
(* a set_sources; the installer has its own set-up and tear-down tasks.    *)
(* Two installation tasks, the second setting the kernel version list.     *)
(***************************************************************************)
EXTENDS PayloadLifecycle, TLC

CONSTANTS s1, s2, s3, t1, tS, tT, i1, i2, TDisk, TUrl, TOther, none

MCSources == {s1, s2, s3}
MCUiTasks == {t1}
MCTasks == {t1, tS, tT}
MCTypeOf == (s1 :> TDisk) @@ (s2 :> TUrl) @@ (s3 :> TOther)
MCSpaceOf == (s1 :> 2) @@ (s2 :> 1) @@ (s3 :> 1)
MCInstallTasks == <<i1, i2>>
=============================================================================

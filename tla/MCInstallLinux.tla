--------------------------- MODULE MCInstallLinux ---------------------------
(* InstallLinux for TLC: three runs of the installer or the uninstaller.    *)
EXTENDS InstallLinux, TLC

Alike == Permutations(Process)

=============================================================================

--------------------------- MODULE MCSettingsWrite ---------------------------
(* Instances of SettingsWrite for TLC.                                     *)
EXTENDS SettingsWrite, TLC

CallSymmetry == Permutations(Calls)

NoReports == {}
AllAtOnce == {Flags}
=============================================================================

-------------------------- MODULE MCScannerService --------------------------
(* Instances of ScannerService for TLC.                                    *)
EXTENDS ScannerService

CONSTANTS primary, fill, added, group, c1, c2

AllProviders == {primary, fill, added}
TwoProviders == {primary, fill}
OneAndAdded  == {primary, added}
OneProvider  == {primary}
OneGroup     == {group}
TwoClients   == {c1, c2}
=============================================================================

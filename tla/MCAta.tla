------------------------------- MODULE MCAta -------------------------------
(* Instances of Ata for TLC. *)
EXTENDS Ata

CONSTANTS shell, loader, a, b

OneClient == {shell}
TwoClients == {shell, loader}
MCWriters == {shell}
MCSectors == {0, 1}
MCValues == {a, b}
=============================================================================

---- MODULE MCModuleInfo ----
(* The module tables with few processes, modules and places for TLC. *)
EXTENDS ModuleInfo, TLC

CONSTANTS init, shell, a, b

MCBoth == {init, shell}
MCResident == {init}

\* Local time is universal time, ahead of it, or either and behind it.
MCNone == {0}
MCAhead == {1}
MCAround == {-1, 0, 1}
====

----------------------------- MODULE MCInstall ------------------------------
(* Small instances of Install. *)
EXTENDS Install

CONSTANTS n1, n2

TwoNodes == <<n1, n2>>
AllTasks == <<"uninstall", "tools", "install", "init", "cleanup">>
=============================================================================

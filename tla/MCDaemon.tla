------------------------------- MODULE MCDaemon -------------------------------
(* Two groups, one of them configured, and one client. *)
EXTENDS Daemon

ConfigOne == {CHOOSE g \in GroupIds : TRUE}
=============================================================================

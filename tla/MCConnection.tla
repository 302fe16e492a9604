----------------------------- MODULE MCConnection -----------------------------
(* An instance of Connection for TLC: a target of every class, fonts in two. *)
EXTENDS Connection

CONSTANTS youtube, fonts, mail, other

MCModes == {"apps_script", "google_only", "github", "exit_node"}
MCHosts == {youtube, fonts, mail, other}
MCRewrite == {youtube, fonts}
MCGoogle == {fonts, mail}
=============================================================================

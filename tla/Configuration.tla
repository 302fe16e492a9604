----------------------------- MODULE Configuration -----------------------------
(***************************************************************************)
(* The configuration: the global cfg of package gui, a file per mode        *)
(* (config/config.go:53-83), the handlers that change cfg in place and save  *)
(* it (V2Ray add and delete, GitHub login and logout), the panel's copy,     *)
(* which a save puts in the place of cfg, and restarts of the program.      *)
(*                                                                         *)
(* Nothing of it is locked.  A handler is cut where it reads or writes cfg,  *)
(* and where WriteFile truncates the file and fills it; any reader or writer *)
(* may come between two steps.                                             *)
(***************************************************************************)
CONSTANTS
  Adds, Deletes, Logins, Logouts, Saves,  \* requests
  Modes, Main,        \* the modes, and the one StartGUI loads
  Settings, Default,  \* all that no handler changes by itself, and its defaults
  Blank, Torn,        \* a file that is missing or truncated, and one of pieces
  NoToken

Editors == UNION {Adds, Deletes, Logins, Logouts}
Requests == Editors \cup Saves

\* A V2Ray entry bears the name of the request that added it, a token that of
\* its login.
Config == [mode : Modes, list : SUBSET Adds, token : Logins \cup {NoToken},
           settings : Settings]

ASSUME ConfigAssumption ==
  /\ Main \in Modes /\ Default \in Settings
  /\ Saves \cap Editors = {}
  /\ Adds \cap (UNION {Deletes, Logins, Logouts}) = {}
  /\ Deletes \cap (Logins \cup Logouts) = {}
  /\ Logins \cap Logouts = {}
  /\ {Blank, Torn} \cap Config = {} /\ Blank # Torn

VARIABLES
  cfg,     \* gui.cfg
  file,    \* of each mode: a configuration, Blank or Torn
  panel,   \* the panel's config
  at,      \* where each request stands
  seen,    \* the V2Ray list it has read
  data,    \* the configuration it saves
  alone,   \* history: the last request to begin has met no other
  behind,  \* history: the panel's copy may lack what cfg has
  told     \* history: entries the panel was told are stored, see AddedStays

configVars == <<cfg, file, panel, at, seen, data, alone, behind, told>>

Conf(mode, list, token, settings) ==
  [mode |-> mode, list |-> list, token |-> token, settings |-> settings]

WithList(c, list) == Conf(c.mode, list, c.token, c.settings)
WithToken(c, token) == Conf(c.mode, c.list, token, c.settings)

DefaultConfig(m) == Conf(m, {}, NoToken, Default)

\* A file that does not parse is taken for none.
LoadMode(m) == IF file[m] \in {Blank, Torn} THEN DefaultConfig(m) ELSE file[m]

ConfigTypeOK ==
  /\ cfg \in Config /\ panel \in Config /\ data \in [Requests -> Config]
  /\ file \in [Modes -> Config \cup {Blank, Torn}]
  /\ at \in [Requests -> {"idle", "edit", "copy", "truncate", "fill", "take",
                          "list", "end"}]
  /\ seen \in [Requests -> SUBSET Adds]
  /\ alone \in BOOLEAN /\ behind \in BOOLEAN /\ told \in SUBSET Adds

\* The panel asks for the mode "welcome" before it shows one; there is no file
\* of that name, so its copy has the defaults.
ConfigInit ==
  /\ file = [m \in Modes |-> Blank]
  /\ cfg = DefaultConfig(Main) /\ panel = DefaultConfig(Main)
  /\ at = [r \in Requests |-> "idle"]
  /\ seen = [r \in Requests |-> {}]
  /\ data = [r \in Requests |-> DefaultConfig(Main)]
  /\ alone = TRUE /\ behind = TRUE /\ told = {}

Busy(r) == at[r] \notin {"idle", "end"}
Quiet == \A r \in Requests : ~Busy(r)

Goes(r, from, to) == at[r] = from /\ at' = [at EXCEPT ![r] = to]

\* What a request that begins does to the history: whoever overlaps another
\* puts every entry at risk.
Begins == alone' = Quiet
Kept(entries) == IF Quiet THEN entries ELSE {}

-----------------------------------------------------------------------------
(* handleV2RayAdd and handleV2RayDelete read the list, and assign one made    *)
(* from it.                                                                *)

ReadList(r) ==
  /\ r \in Adds \cup Deletes /\ Goes(r, "idle", "edit")
  /\ seen' = [seen EXCEPT ![r] = cfg.list]
  /\ Begins /\ told' = Kept(told) /\ behind' = TRUE
  /\ UNCHANGED <<cfg, file, panel, data>>

\* append writes behind the list it was given: two that read the same one may
\* write to the same place.
Appended(a) == {a} \cup {b \in Adds : Busy(b) /\ seen[b] = seen[a]}

\* Fault: the new list has the new entry only.
AddOnly(a) ==
  /\ Goes(a, "edit", "copy")
  /\ cfg' = WithList(cfg, {a})
  /\ UNCHANGED <<file, panel, seen, data, alone, behind, told>>

AddEntry(a) ==
  /\ Goes(a, "edit", "copy")
  /\ \E e \in Appended(a) : cfg' = WithList(cfg, seen[a] \cup {e})
  /\ UNCHANGED <<file, panel, seen, data, alone, behind, told>>

DeleteEntry(d, e) ==
  /\ Goes(d, "edit", "copy")
  /\ cfg' = WithList(cfg, seen[d] \ {e}) /\ told' = told \ {e}
  /\ UNCHANGED <<file, panel, seen, data, alone, behind>>

\* handleGitHubLogin and handleGitHubLogout
SetToken(r) ==
  /\ Goes(r, "idle", "copy")
  /\ cfg' = WithToken(cfg, IF r \in Logins THEN r ELSE NoToken)
  /\ Begins /\ told' = Kept(told) /\ behind' = TRUE
  /\ UNCHANGED <<file, panel, seen, data>>

-----------------------------------------------------------------------------
(* SaveMode                                                                *)

\* The argument is a copy of cfg, in which the list may be of a configuration
\* that is taking its place.
CopyConfig(r) ==
  /\ Goes(r, "copy", "truncate")
  /\ \E list \in {cfg.list} \cup {data[s].list : s \in {s \in Saves : at[s] = "list"}} :
       data' = [data EXCEPT ![r] = WithList(cfg, list)]
  /\ UNCHANGED <<cfg, file, panel, seen, alone, behind, told>>

Truncate(r) ==
  /\ Goes(r, "truncate", "fill")
  /\ file' = [file EXCEPT ![data[r].mode] = Blank]
  /\ UNCHANGED <<cfg, panel, seen, data, alone, behind, told>>

\* Written over another's longer text, it keeps the end of that.
Filled(r) ==
  IF file[data[r].mode] \in {Blank, data[r]} THEN {data[r]} ELSE {data[r], Torn}

Fill(r) ==
  /\ Goes(r, "fill", IF r \in Saves THEN "take" ELSE "end")
  /\ \E text \in Filled(r) : file' = [file EXCEPT ![data[r].mode] = text]
  /\ told' = IF r \in Adds /\ alone THEN told \cup {r} ELSE told
  /\ UNCHANGED <<cfg, panel, seen, data, alone, behind>>

-----------------------------------------------------------------------------
(* The panel: handleLoadConfig, handleSaveConfig                            *)

PanelLoad(m) ==
  /\ panel' = LoadMode(m)
  /\ behind' = ~(Quiet /\ m = cfg.mode)
  /\ UNCHANGED <<cfg, file, at, seen, data, alone, told>>

\* It sends all of its copy, with the settings and the mode on the page.
PanelSave(s, settings, m) ==
  /\ Goes(s, "idle", "truncate")
  /\ panel' = Conf(m, panel.list, panel.token, settings)
  /\ data' = [data EXCEPT ![s] = panel']
  /\ Begins /\ told' = IF behind THEN {} ELSE Kept(told)
  /\ UNCHANGED <<cfg, file, seen, behind>>

\* Fault: the settings are taken over, the list stays as it is.
TakeSettings(s) ==
  /\ Goes(s, "take", "end")
  /\ cfg' = WithList(data[s], cfg.list)
  /\ UNCHANGED <<file, panel, seen, data, alone, behind, told>>

\* cfg = newCfg copies field by field, the V2Ray list last.
TakeOver(s) ==
  /\ Goes(s, "take", "list")
  /\ cfg' = WithList(data[s], cfg.list)
  /\ UNCHANGED <<file, panel, seen, data, alone, behind, told>>

TakeList(s) ==
  /\ Goes(s, "list", "end")
  /\ cfg' = WithList(cfg, data[s].list)
  /\ UNCHANGED <<file, panel, seen, data, alone, behind, told>>

-----------------------------------------------------------------------------
\* StartGUI after the program has ended somehow: requests are gone, files stay.
ConfigRestart ==
  /\ cfg' = LoadMode(Main) /\ panel' = DefaultConfig(Main)
  /\ at' = [r \in Requests |-> IF Busy(r) THEN "end" ELSE at[r]]
  /\ alone' = TRUE /\ behind' = TRUE
  /\ told' = IF Quiet /\ cfg.mode = Main THEN told ELSE {}
  /\ UNCHANGED <<file, seen, data>>

ConfigNext ==
  \/ \E a \in Adds : AddEntry(a)
  \/ \E d \in Deletes, e \in Adds : DeleteEntry(d, e)
  \/ \E r \in Logins \cup Logouts : SetToken(r)
  \/ \E r \in Editors : ReadList(r) \/ CopyConfig(r)
  \/ \E r \in Requests : Truncate(r) \/ Fill(r)
  \/ \E m \in Modes : PanelLoad(m)
  \/ \E s \in Saves : TakeOver(s) \/ TakeList(s)
  \/ \E s \in Saves, settings \in Settings, m \in Modes : PanelSave(s, settings, m)

-----------------------------------------------------------------------------
(* A request that meets no other leaves on the disk, under the mode of cfg,   *)
(* just what it leaves in memory, whatever those before it left: an edit      *)
(* (gui/v2ray.go:70-71, 89-90), a login, a logout, a save, and a start.       *)
DiskHasMemory == Quiet /\ alone => LoadMode(cfg.mode) = cfg

(* An entry that the panel was told is stored stays in cfg, through edits,    *)
(* saves and restarts, until it is deleted (gui/v2ray.go:60-74), unless it is *)
(* put at risk: by requests that overlap, by a save of a copy loaded before   *)
(* the last edit or from another mode's file, by an end of the program in the *)
(* middle of a request or while a mode other than StartGUI's is in use.      *)
AddedStays == told \subseteq cfg.list

=============================================================================

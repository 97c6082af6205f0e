------------------------------ MODULE Install ------------------------------
(***************************************************************************)
(* The native installation: scripts/native_install.py, the network         *)
(* namespace that native.py sets up and takes down, and what systemd makes *)
(* of the units.  The installer is a sequence of commands, any of which    *)
(* may fail or be the last one before a crash; it keeps no journal, and    *)
(* the next run starts from what it finds.                                 *)
(*                                                                         *)
(* A file is what it was rendered from: a source, a setting, or both.  The *)
(* runtime environment stands with native.json, the launchers with         *)
(* browser-stop, and egress and ingress with the network and the API.      *)
(* There is one data directory: --data-dir never changes.                  *)
(***************************************************************************)
EXTENDS Naturals

CONSTANTS
    Sources,     \* checkouts that are installed
    Settings,    \* choices of addresses and budgets
    Missing,     \* no file, no manifest, no process
    MaxTroubles  \* bound: crashes, failures, reboots and edits

VARIABLES
    prepared,   \* of each release: what is there of it, and whether it was tested
    managed,    \* the managed files
    manifest,   \* install.json: the files as they were installed
    current,    \* the link to the release
    data,       \* the data directory is there, marked as owned
    installer,  \* the installer
    unitsIn,    \* the units as systemd knows them
    api,        \* cloud-browser.service: the unit it runs
    restarting, \* it failed, and systemd will restart it
    network,    \* the namespace with its rules, and the marker in /run
    networkOn,  \* systemd takes the network unit for active
    enabled,
    edits,      \* history: files that hold an operator's change
    troubles

releases == <<prepared, current, manifest>>
services == <<unitsIn, api, restarting, network, networkOn, enabled>>
installVars == <<releases, services, managed, data, installer, edits, troubles>>

Units == {"network", "api"}
Managed == {"native.json", "browser-stop"} \cup Units
Edited == [source |-> "operator", setting |-> "operator"]
Contents == [source : Sources \cup {Missing}, setting : Settings \cup {Missing}]

ASSUME InstallConstants ==
    /\ Missing \notin Sources \cup Contents \cup [Managed -> Contents] \cup {Edited}
    /\ Edited \notin Contents

\* What makes a release of a checkout, and all that install does with it, in this order.
Whole == {"code", "venv", "uv", "packages", "tested"}
Steps_UnitsFirst ==
    <<"code", "venv", "uv", "packages", "data", "stop", "down", "native.json", "browser-stop",
      "network", "api", "tested", "unlink", "link", "manifest", "reload", "start">>
Procedure ==
    <<"code", "venv", "uv", "packages", "tested", "data", "stop", "down", "native.json", "browser-stop",
      "network", "api", "unlink", "link", "manifest", "reload", "start">>

Offline == [at |-> "none", setting |-> Missing, marker |-> FALSE]
NoInstaller == [at |-> "none"]

Init_Install ==
    /\ prepared = [s \in Sources |-> {}] /\ managed = [f \in Managed |-> Missing]
    /\ manifest = Missing /\ current = Missing /\ data = FALSE /\ installer = NoInstaller
    /\ unitsIn = [u \in Units |-> Missing] /\ api = Missing /\ restarting = FALSE
    /\ network = Offline /\ networkOn = FALSE /\ enabled = FALSE /\ edits = {} /\ troubles = 0
-----------------------------------------------------------------------------
\* Rendering and ownership

Rendered(f) ==
    [source |-> IF f = "native.json" THEN Missing ELSE installer.source,
     setting |-> IF f = "browser-stop" THEN Missing ELSE installer.setting]

\* No file differs from what the last complete installation wrote.
AsInstalled == manifest # Missing => \A f \in Managed : managed[f] \in {Missing, manifest[f]}
OwnData == data => manifest # Missing /\ managed["native.json"] # Missing
-----------------------------------------------------------------------------
\* The network.  Bringing it up is refused for a namespace that does not verify,
\* and taking it down for one without a marker.

Verified(setting) == network.at = "up" /\ network.marker /\ network.setting = setting

NetworkUp(setting) ==
    \/ /\ network.at = "none" /\ networkOn' = TRUE
       /\ network' = [at |-> "up", setting |-> setting, marker |-> TRUE]
    \/ /\ network.at = "none" /\ UNCHANGED networkOn
       /\ network' = [at |-> "part", setting |-> setting, marker |-> FALSE]
    \/ Verified(setting) /\ networkOn' = TRUE /\ UNCHANGED network

\* Its rules go first and the marker last.
Half == [network EXCEPT !.at = "part"]
NetworkDown ==
    IF Verified(managed["native.json"].setting)
    THEN network' \in {Offline, Half}
    ELSE UNCHANGED network

\* systemctl stop: the API, and the network if systemd knows of it.
StopsServices ==
    /\ api' = Missing /\ restarting' = FALSE /\ networkOn' = FALSE
    /\ IF networkOn THEN NetworkDown ELSE UNCHANGED network
-----------------------------------------------------------------------------
\* The installer

Trouble == troubles < MaxTroubles /\ troubles' = troubles + 1

\* The service is found active or not once, before everything else.
Accepts(start) == installer = NoInstaller /\ AsInstalled /\ (api # Missing => start) /\ OwnData
Installs(source, setting, start) ==
    /\ Accepts(start)
    /\ installer' = [at |-> "code", source |-> source, setting |-> setting, start |-> start,
               active |-> api # Missing, old |-> managed["native.json"]]
    /\ UNCHANGED <<releases, services, managed, data, edits, troubles>>

Doing(step) == installer.at = step
NextStep == LET i == CHOOSE i \in DOMAIN Procedure : Procedure[i] = installer.at IN Procedure[i + 1]
Proceeds == installer' = [installer EXCEPT !.at = NextStep]

\* The code is copied until its mark is written.  A virtual environment that exists is
\* taken to have its tool; packages that are marked as ready are not installed again.
IsThere(step) == step \in prepared[installer.source]
Prepares(step) ==
    /\ Doing(step) /\ UNCHANGED <<manifest, current, services, managed, data, edits, troubles>>
    /\ IF step = "venv" /\ IsThere("venv")
       THEN installer' = [installer EXCEPT !.at = "packages"]
       ELSE Proceeds
    /\ step = "packages" => IsThere("packages") \/ IsThere("uv")
    /\ prepared' = [prepared EXCEPT ![installer.source] = @ \cup {step}]

\* A unit of unknown origin is not replaced.
MakesData ==
    /\ Doing("data") /\ \A u \in Units : managed[u] # Missing => manifest # Missing
    /\ data' = TRUE /\ Proceeds /\ UNCHANGED <<releases, services, managed, edits, troubles>>
StopsOld ==
    /\ Doing("stop") /\ Proceeds
    /\ IF installer.active THEN StopsServices ELSE UNCHANGED <<api, restarting, network, networkOn>>
    /\ UNCHANGED <<releases, unitsIn, enabled, managed, data, edits, troubles>>

\* The network of another setting is taken down, whatever systemd thinks of its unit.
Outdated == installer.old # Missing /\ installer.old.setting # installer.setting /\ network.marker
TakesNetworkDown ==
    /\ Doing("down") /\ (Outdated => Verified(installer.old.setting))
    /\ network' = IF Outdated THEN Offline ELSE network
    /\ Proceeds /\ UNCHANGED <<unitsIn, api, restarting, networkOn, enabled>>
    /\ UNCHANGED <<releases, managed, data, edits, troubles>>

Writes(f) ==
    /\ Doing(f) /\ managed' = [managed EXCEPT ![f] = Rendered(f)]
    /\ Proceeds /\ UNCHANGED <<releases, services, data, edits, troubles>>
Links ==
    /\ installer.at \in {"unlink", "link"}
    /\ current' = IF Doing("link") THEN installer.source ELSE Missing
    /\ Proceeds /\ UNCHANGED <<prepared, manifest, services, managed, data, edits, troubles>>
Records ==
    /\ Doing("manifest") /\ manifest' = [f \in Managed |-> managed[f]]
    /\ Proceeds /\ UNCHANGED <<prepared, current, services, managed, data, edits, troubles>>
Reloads == unitsIn' = [u \in Units |-> managed[u]]
ReloadsNew ==
    /\ Doing("reload") /\ Reloads /\ enabled' = (enabled \/ installer.start)
    /\ installer' = IF installer.start THEN [installer EXCEPT !.at = "start"] ELSE NoInstaller
    /\ UNCHANGED <<releases, api, restarting, network, networkOn, managed, data, edits, troubles>>
Reports ==
    /\ Doing("start") /\ api # Missing /\ installer' = NoInstaller
    /\ UNCHANGED <<releases, services, managed, data, edits, troubles>>

\* A command fails, or the installer is killed; a network may be half down.
Interrupted ==
    /\ installer # NoInstaller /\ installer' = NoInstaller /\ Trouble
    /\ network' \in {network, Half}
    /\ network' # network => Doing("down") /\ Outdated /\ Verified(installer.old.setting)
    /\ UNCHANGED <<releases, unitsIn, api, restarting, networkOn, enabled, managed, data, edits>>
-----------------------------------------------------------------------------
\* Removing it, unit by unit, and at last the data nobody uses

Uninstalls(purge) ==
    /\ installer = NoInstaller /\ manifest # Missing /\ AsInstalled
    /\ managed["native.json"] # Missing
    /\ installer' = [at |-> "remove", purge |-> purge]
    /\ IF \E u \in Units : managed[u] # Missing
       THEN StopsServices /\ enabled' = FALSE
       ELSE UNCHANGED <<api, restarting, network, networkOn, enabled>>
    /\ UNCHANGED <<releases, unitsIn, managed, data, edits, troubles>>
RemovesUnit(u) ==
    /\ Doing("remove") /\ managed[u] # Missing /\ managed' = [managed EXCEPT ![u] = Missing]
    /\ UNCHANGED <<releases, services, data, installer, edits, troubles>>
UnitsRemoved ==
    /\ Doing("remove") /\ \A u \in Units : managed[u] = Missing
    /\ Reloads
    /\ installer' = IF installer.purge THEN [installer EXCEPT !.at = "purge"] ELSE NoInstaller
    /\ UNCHANGED <<releases, api, restarting, network, networkOn, enabled>>
    /\ UNCHANGED <<managed, data, edits, troubles>>
Unlocked == api = Missing
Purges ==
    /\ Doing("purge") /\ data /\ Unlocked /\ data' = FALSE /\ installer' = NoInstaller
    /\ UNCHANGED <<releases, services, managed, edits, troubles>>
-----------------------------------------------------------------------------
\* systemd, the machine and its operator

\* By hand or at boot, by the installer, or after a failure of the API.
MayStart == installer = NoInstaller \/ restarting \/ Doing("start")
KnownUnit(u) == unitsIn[u] \in Contents
StartNetwork ==
    /\ MayStart /\ ~networkOn /\ KnownUnit("network") /\ managed["native.json"] \in Contents
    /\ NetworkUp(managed["native.json"].setting)
    /\ UNCHANGED <<unitsIn, api, restarting, enabled>>
    /\ UNCHANGED <<releases, managed, data, installer, edits, troubles>>

\* verify_runtime: one setting in the unit, in native.json and on the marker.
Attested ==
    /\ managed["native.json"] \in Contents /\ network.marker
    /\ managed["native.json"].setting = network.setting /\ unitsIn["api"].setting = network.setting
StartApi ==
    /\ MayStart /\ api = Missing /\ networkOn /\ KnownUnit("api") /\ Attested
    /\ "packages" \in prepared[unitsIn["api"].source] /\ data
    /\ api' = unitsIn["api"] /\ restarting' = FALSE
    /\ UNCHANGED <<unitsIn, network, networkOn, enabled>>
    /\ UNCHANGED <<releases, managed, data, installer, edits, troubles>>
ApiFails ==
    /\ api # Missing /\ api' = Missing /\ restarting' \in BOOLEAN /\ Trouble
    /\ UNCHANGED <<releases, unitsIn, network, networkOn, enabled, managed, data, installer, edits>>
Reboots ==
    /\ Trouble /\ Reloads /\ api' = Missing /\ restarting' = enabled /\ network' = Offline
    /\ networkOn' = FALSE /\ installer' = NoInstaller
    /\ UNCHANGED <<releases, enabled, managed, data, edits>>

OperatorEdits(f) ==
    /\ installer = NoInstaller /\ managed[f] # Missing /\ Trouble
    /\ managed' = [managed EXCEPT ![f] = Edited] /\ edits' = edits \cup {f}
    /\ UNCHANGED <<releases, services, data, installer>>
OperatorDeletes(f) ==
    /\ installer = NoInstaller /\ managed[f] # Missing /\ Trouble
    /\ managed' = [managed EXCEPT ![f] = Missing] /\ edits' = edits \ {f}
    /\ UNCHANGED <<releases, services, data, installer>>
-----------------------------------------------------------------------------
Next_Install ==
    \/ \E s \in Sources, c \in Settings, start \in BOOLEAN : Installs(s, c, start)
    \/ \E step \in Whole : Prepares(step)
    \/ MakesData \/ StopsOld \/ TakesNetworkDown \/ Links \/ Records \/ ReloadsNew \/ Reports
    \/ \E f \in Managed : Writes(f) \/ OperatorEdits(f) \/ OperatorDeletes(f)
    \/ Interrupted \/ UnitsRemoved \/ Purges
    \/ \E purge \in BOOLEAN : Uninstalls(purge)
    \/ \E u \in Units : RemovesUnit(u)
    \/ StartNetwork \/ StartApi \/ ApiFails \/ Reboots

Spec_Install == Init_Install /\ [][Next_Install]_installVars
-----------------------------------------------------------------------------
\* Releases, files and units hold what the installer or an operator puts there.
InstallTypeOK ==
    /\ prepared \in [Sources -> SUBSET Whole]
    /\ managed \in [Managed -> Contents \cup {Missing, Edited}]
    /\ manifest # Missing => manifest \in [Managed -> Contents]
    /\ current \in Sources \cup {Missing}
    /\ {data, restarting, networkOn, enabled} \subseteq BOOLEAN
    /\ api \in Contents \cup {Missing} /\ network.at \in {"none", "part", "up"}

\* install: whatever was interrupted before, a unit on disk and a running API are of a
\* release that is complete and was tested as every service's user.
TestedBeforeUse ==
    /\ \A u \in Units : managed[u] \in Contents => Whole \subseteq prepared[managed[u].source]
    /\ api # Missing => Whole \subseteq prepared[api.source]

\* install: "Preserve local native customization before updating", also across updates
\* that were interrupted between their files.
EditsKept == \A f \in edits : managed[f] = Edited

\* uninstall: the data of a running API are not purged, even if its units are gone.
DataInUse == api # Missing => data

InstallIsSafe == TestedBeforeUse /\ EditsKept /\ DataInUse
=============================================================================

------------------------------ MODULE Uninstall ------------------------------
(***************************************************************************)
(* Removal of a per-user installation (uninstall.py, uninstall_purge.py,   *)
(* uninstall_archive.py and the removal half of cli/update_service.py).    *)
(*                                                                         *)
(* An installation is a set of sealed runtime generations, the links and   *)
(* launchers that select one, a service definition, the update-check       *)
(* definitions and a block in the shell profiles.  `seckit uninstall'      *)
(* plans, stops the client, plans again, archives and purges state when    *)
(* told to, edits the profiles and then removes the listed paths one by    *)
(* one.  It may die after any of these system calls and is run again by    *)
(* the user, while the user, the daemon and an installer keep writing.     *)
(* The installer (install.sh, outside the package) is modelled by what the *)
(* package needs from it: the files it leaves and the seal it asks for.    *)
(***************************************************************************)
EXTENDS Naturals, Sequences

CONSTANTS
  Generations,    \* runtime directories in name order
  Profiles,       \* shell profiles in the order they are edited
  Destinations,   \* names an archive may be published under
  MaxOutside      \* bound on writes, changes and installations by others

VARIABLES
  gen,          \* gen[g]: is the directory there, its receipt, its entries
  link,         \* current and previous: the generation each link names
  launcher,     \* the two launchers in ~/.local/bin
  unit,         \* is the daemon's service definition there
  checkUnits,   \* update-check definitions that exist
  profile,      \* profile[p]: its managed block and the user's own text
  stateFile,    \* content version of each state file; 0 when it is missing
  archive,      \* archive[d]: the state published under destination d
  un,           \* the uninstall command in progress
  installing,   \* the generation an installer has placed and not yet sealed
  late,         \* generations changed after the running command's last look
  overlapped,   \* has an installer run beside an uninstall command
  budget        \* outside events so far, by kind

uninstallVars == <<gen, link, launcher, unit, checkUnits, profile, stateFile,
                   archive, un, installing, late, overlapped, budget>>

Gen == {Generations[i] : i \in DOMAIN Generations}
Profile == {Profiles[i] : i \in DOMAIN Profiles}
Link == {"current", "previous"}
Launcher == {"seckit", "seckit-mcp"}
Packaged == {"bin", "lib"}
CheckUnit == {"service", "timer"}

\* The files `--purge-file' accepts, and the SQLite ones that go together.
StateFile == {"sqlite", "sqlite-wal"}
Family == {"sqlite", "sqlite-wal"}

Unlinked == "no generation"

\* Generations are named by their installer, unlike the links and launchers.
ASSUME UninstallAssumption ==
  /\ Generations \in Seq(Gen) /\ Generations # <<>>
  /\ Profiles \in Seq(Profile) /\ Profiles # <<>>
  /\ Gen \cap (Link \cup Launcher \cup {Unlinked}) = {}
  /\ MaxOutside \in Nat

NoArchive == <<>>
NoPlan == [remove |-> {}, edits |-> {}]

\* A command under way: todo is what is left of the list it is working off.
Command(pc, plan, to, files) ==
  [pc |-> pc, plan |-> plan, todo |-> {}, archiveTo |-> to, purge |-> files,
   prepared |-> NoArchive, entries |-> {}]

NotRunning == Command("idle", NoPlan, "none", {})

NoGeneration == [present |-> FALSE, receipt |-> "none", entries |-> {}]
Sealed == [present |-> TRUE, receipt |-> "install", entries |-> Packaged]
Unsealed == [present |-> TRUE, receipt |-> "none", entries |-> Packaged]

EmptyDirectory(g) == gen[g].present /\ gen[g].receipt = "none" /\ gen[g].entries = {}
HasReceipt(g) == gen[g].present /\ gen[g].receipt # "none"

UninstallTypeOK ==
  /\ gen \in [Gen -> [present : BOOLEAN, receipt : {"none", "install", "removal"},
                      entries : SUBSET (Packaged \cup {"added"})]]
  /\ link \in [Link -> Gen \cup {Unlinked}]
  /\ launcher \in [Launcher -> {"absent", "managed", "edited"}]
  /\ {unit, overlapped} \subseteq BOOLEAN
  /\ checkUnits \subseteq CheckUnit
  /\ \A p \in Profile : profile[p].block \in {"none", "exact", "edited"} /\ profile[p].text \in Nat
  /\ stateFile \in [StateFile -> Nat]
  /\ un.purge \subseteq StateFile /\ un.todo \subseteq un.plan.remove \cup un.plan.edits
  /\ installing \in Gen \cup {Unlinked} /\ late \subseteq Gen

UninstallInit ==
  /\ gen = [g \in Gen |-> IF g = Generations[1] THEN Sealed ELSE NoGeneration]
  /\ link = [l \in Link |-> IF l = "current" THEN Generations[1] ELSE Unlinked]
  /\ launcher = [l \in Launcher |-> "managed"]
  /\ unit = TRUE
  /\ checkUnits \in {{}, CheckUnit}
  /\ profile = [p \in Profile |-> [block |-> "exact", text |-> 0]]
  /\ stateFile = [f \in StateFile |-> 1]
  /\ archive = [d \in Destinations |-> NoArchive]
  /\ un = NotRunning
  /\ installing = Unlinked /\ late = {} /\ overlapped = FALSE
  /\ budget = [write |-> 0, damage |-> 0, install |-> 0]

Spend(kind) ==
  /\ budget.write + budget.damage + budget.install < MaxOutside
  /\ budget' = [budget EXCEPT ![kind] = @ + 1]

----------------------------------------------------------------------------
(* The removal plan.                                                        *)

\* removal_plan's verdict on one directory below the runtime root.
GenerationAccepted(g) ==
  \/ ~gen[g].present
  \/ EmptyDirectory(g)
  \/ gen[g].receipt = "install" /\ gen[g].entries = Packaged
  \/ gen[g].receipt = "removal" /\ gen[g].entries \subseteq Packaged

\* A link must resolve to an existing generation.
LinksResolve == \A l \in Link : link[l] # Unlinked => gen[link[l]].present

\* A launcher's hash must be one that some receipt records.
LaunchersAccepted ==
  \A l \in Launcher : \/ launcher[l] = "absent"
                      \/ launcher[l] = "managed" /\ \E g \in Gen : HasReceipt(g)

\* _exact_block_start: any other use of the markers is refused.
ProfilesAccepted == \A p \in Profile : profile[p].block # "edited"

\* removal_plan returns; otherwise it raises.
PlanAccepted ==
  /\ LinksResolve
  /\ \A g \in Gen : GenerationAccepted(g)
  /\ LaunchersAccepted
  /\ unit => \E g \in Gen : gen[g].present
  /\ ProfilesAccepted

\* A plan lists paths in a fixed order, so that it is the set of those it lists;
\* working it off takes the first one that is left.
First(order, listed, path) ==
  \E i \in DOMAIN order : /\ order[i] = path /\ path \in listed
                          /\ \A j \in 1..(i - 1) : order[j] \notin listed

ShellProfileEdits == {p \in Profile : profile[p].block = "exact"}

\* Mutant of RemovalOrder: the generations go before what points at them
GenerationsFirst == Generations \o <<"current", "previous", "seckit", "seckit-mcp">>

\* Links first, then launchers, then generations.
RemovalOrder == <<"current", "previous", "seckit", "seckit-mcp">> \o Generations

RemovalPlan ==
  [remove |-> {l \in Link : link[l] # Unlinked} \cup {l \in Launcher : launcher[l] # "absent"}
              \cup {g \in Gen : gen[g].present},
   edits |-> ShellProfileEdits]

\* prepare_purge: the identity of each selected file, refused when part of the
\* SQLite family would stay behind.
PurgeAccepted(files) ==
  files \cap Family # {} => \A f \in Family \ files : stateFile[f] = 0

PreparedPurge(files) == [f \in files |-> stateFile[f]]

----------------------------------------------------------------------------
(* The uninstall command, one action for each system call or group of them  *)
(* that no other process can tell apart.                                    *)

Running(pc) == un.pc = pc
Files == <<gen, link, launcher, unit, checkUnits, profile, stateFile, archive>>
Outside == <<installing, overlapped>>

\* Raising, or returning: the process is gone and with it its knowledge.
Leave == un' = NotRunning /\ late' = {}
Goto(pc) == [un EXCEPT !.pc = pc]
Proceed(pc) == un' = Goto(pc) /\ late' = late

\* uninstall() up to the first write.  A dry run or a refused plan changes nothing
\* and is the same as not calling it.
UninstallStarts(files, to) ==
  /\ Running("idle") /\ PlanAccepted
  /\ files # {} => PurgeAccepted(files)
  /\ LET plan == RemovalPlan
         first == IF plan.remove = {} /\ files = {} THEN "profiles planned" ELSE "check service"
     IN  /\ first = "profiles planned" => plan.edits # {}
         /\ un' = Command(first, plan, to, files)
  /\ UNCHANGED <<Files, Outside, late, budget>>

\* manage_update_service(action="uninstall") with nothing to remove.
UpdateServiceAbsent ==
  /\ Running("check service") /\ checkUnits = {}
  /\ Proceed("stop service")
  /\ UNCHANGED <<Files, Outside, budget>>

\* It needs the launcher to recognise its own definitions; the service manager
\* may fail to stop the timer.
UpdateServiceRefused ==
  /\ Running("check service") /\ checkUnits # {}
  /\ Leave
  /\ UNCHANGED <<Files, Outside, budget>>

\* Otherwise it unlinks the service definition and then the timer.
UpdateServiceUnlinks(f) ==
  /\ Running("check service") /\ checkUnits # {}
  /\ launcher["seckit"] # "absent"
  /\ f \in checkUnits /\ (f = "timer" => "service" \notin checkUnits)
  /\ checkUnits' = checkUnits \ {f}
  /\ IF checkUnits' = {} THEN Proceed("stop service") ELSE UNCHANGED <<un, late>>
  /\ UNCHANGED <<gen, link, launcher, unit, profile, stateFile, archive, Outside, budget>>

\* _stop_runtime: uninstall_service stops the supervised daemon and removes its
\* definition; stop_daemon stops a detached one; both are verified.
StopRuntime ==
  /\ Running("stop service")
  /\ unit' = FALSE
  /\ Proceed("recheck")
  /\ UNCHANGED <<gen, link, launcher, checkUnits, profile, stateFile, archive, Outside, budget>>

\* The service manager or the daemon does not stop in time: daemon_still_running
\* or service_still_active.  A detached daemon may be running in any state.
StopRuntimeFails ==
  /\ Running("stop service")
  /\ \E u \in {unit, FALSE} : unit' = u
  /\ Leave
  /\ UNCHANGED <<gen, link, launcher, checkUnits, profile, stateFile, archive, Outside, budget>>

\* The second removal_plan must equal the first; the purge is prepared again.
Recheck ==
  /\ Running("recheck")
  /\ IF PlanAccepted /\ RemovalPlan = un.plan /\ (un.purge # {} => PurgeAccepted(un.purge))
     THEN /\ un' = [Goto("archive") EXCEPT !.prepared = PreparedPurge(un.purge)]
          /\ late' = {}
     ELSE Leave
  /\ UNCHANGED <<Files, Outside, budget>>

\* create_state_archive publishes what it read, under a name nothing has yet.
CreateStateArchive ==
  /\ Running("archive")
  /\ IF un.archiveTo = "none"
     THEN Proceed("purge") /\ UNCHANGED archive
     ELSE IF archive[un.archiveTo] = NoArchive
          THEN archive' = [archive EXCEPT ![un.archiveTo] = stateFile] /\ Proceed("purge")
          ELSE Leave /\ UNCHANGED archive
  /\ UNCHANGED <<gen, link, launcher, unit, checkUnits, profile, stateFile, Outside, budget>>

\* execute_purge checks every selection again before the first deletion.
PurgeChecks ==
  /\ Running("purge")
  /\ IF un.purge # {} /\ (~PurgeAccepted(un.purge) \/ PreparedPurge(un.purge) # un.prepared)
     THEN Leave
     ELSE Proceed("purging")
  /\ UNCHANGED <<Files, Outside, budget>>

\* Mutant of PurgeFile: the file is not compared with the one prepared
PurgesWhateverIsThere(f) ==
  /\ Running("purging") /\ f \in un.purge
  /\ stateFile' = [stateFile EXCEPT ![f] = 0]
  /\ un' = [un EXCEPT !.purge = @ \ {f}]
  /\ late' = late
  /\ UNCHANGED <<gen, link, launcher, unit, checkUnits, profile, archive, Outside, budget>>

\* It then deletes file by file, each only if it is still the one prepared.
PurgeFile(f) ==
  /\ Running("purging") /\ f \in un.purge
  /\ IF un.prepared[f] # 0 /\ stateFile[f] # un.prepared[f]
     THEN Leave /\ UNCHANGED stateFile
     ELSE /\ stateFile' = IF un.prepared[f] = 0 THEN stateFile ELSE [stateFile EXCEPT ![f] = 0]
          /\ un' = [un EXCEPT !.purge = @ \ {f}]
          /\ late' = late
  /\ UNCHANGED <<gen, link, launcher, unit, checkUnits, profile, archive, Outside, budget>>

Purged ==
  /\ Running("purging") /\ un.purge = {}
  /\ Proceed("profiles")
  /\ UNCHANGED <<Files, Outside, budget>>

\* _apply_shell_profile_edits: the edits must still be the planned ones, and every
\* replacement is computed (its text recorded) before the first is made.
PrepareProfiles ==
  /\ un.pc \in {"profiles", "profiles planned"}
  /\ IF un.plan.edits # {} /\ (~ProfilesAccepted \/ ShellProfileEdits # un.plan.edits)
     THEN Leave
     ELSE /\ LET next == Goto(IF un.pc = "profiles" THEN "edit" ELSE "edit only")
                 texts == [p \in un.plan.edits |-> profile[p].text]
             IN  un' = [[next EXCEPT !.todo = un.plan.edits] EXCEPT !.prepared = texts]
          /\ late' = late
  /\ UNCHANGED <<Files, Outside, budget>>

Editing == un.pc \in {"edit", "edit only"}

\* _atomic_replace: refuse a profile whose bytes changed since it was prepared.
Unchanged(p) == profile[p].block = "exact" /\ profile[p].text = un.prepared[p]

Done(path) == un' = [un EXCEPT !.todo = @ \ {path}] /\ late' = late

EditProfile(p) ==
  /\ Editing /\ First(Profiles, un.todo, p)
  /\ IF Unchanged(p)
     THEN /\ profile' = [profile EXCEPT ![p] = [block |-> "none", text |-> un.prepared[p]]]
          /\ Done(p)
     ELSE Leave /\ UNCHANGED profile
  /\ UNCHANGED <<gen, link, launcher, unit, checkUnits, stateFile, archive, Outside, budget>>

\* With the profiles done, the planned paths are removed in order.
ProfilesEdited ==
  /\ Editing /\ un.todo = {}
  /\ IF un.pc = "edit"
     THEN /\ un' = [[Goto("remove") EXCEPT !.todo = un.plan.remove] EXCEPT !.prepared = NoArchive]
          /\ late' = late
     ELSE Leave
  /\ UNCHANGED <<Files, Outside, budget>>

Removing(path) == Running("remove") /\ First(RemovalOrder, un.todo, path)

\* path.unlink() on a link.
RemoveLink(l) ==
  /\ Removing(l)
  /\ link' = [link EXCEPT ![l] = Unlinked]
  /\ Done(l)
  /\ UNCHANGED <<gen, launcher, unit, checkUnits, profile, stateFile, archive, Outside, budget>>

RemoveLauncher(l) ==
  /\ Removing(l)
  /\ launcher' = [launcher EXCEPT ![l] = "absent"]
  /\ Done(l)
  /\ UNCHANGED <<gen, link, unit, checkUnits, profile, stateFile, archive, Outside, budget>>

Entering(g) ==
  /\ Removing(g)
  /\ un' = [Goto("generation") EXCEPT !.entries = gen[g].entries]
  /\ late' = late

\* _remove_generation records its intent by renaming the receipt and lists what
\* the directory holds, ...
EnterGeneration(g) ==
  /\ Entering(g)
  /\ gen' = [gen EXCEPT ![g].receipt = IF @ = "install" THEN "removal" ELSE @]
  /\ UNCHANGED <<link, launcher, unit, checkUnits, profile, stateFile, archive, Outside, budget>>

InGeneration(g) == Running("generation") /\ First(RemovalOrder, un.todo, g)

\* ... removes every entry of the list, one after the other, ...
RemoveEntry(g) ==
  /\ InGeneration(g)
  /\ \E e \in un.entries : /\ gen' = [gen EXCEPT ![g].entries = @ \ {e}]
                           /\ un' = [un EXCEPT !.entries = @ \ {e}]
  /\ late' = late
  /\ UNCHANGED <<link, launcher, unit, checkUnits, profile, stateFile, archive, Outside, budget>>

\* ... then the receipt ...
RemoveReceipt(g) ==
  /\ InGeneration(g) /\ un.entries = {} /\ gen[g].receipt = "removal"
  /\ gen' = [gen EXCEPT ![g].receipt = "none"]
  /\ UNCHANGED <<un, late>>
  /\ UNCHANGED <<link, launcher, unit, checkUnits, profile, stateFile, archive, Outside, budget>>

\* ... and last the directory, which must be empty.
RemoveDirectory(g) ==
  /\ InGeneration(g) /\ un.entries = {} /\ gen[g].receipt = "none"
  /\ IF gen[g].entries = {}
     THEN /\ gen' = [gen EXCEPT ![g] = NoGeneration]
          /\ un' = [Goto("remove") EXCEPT !.todo = @ \ {g}]
          /\ late' = late
     ELSE Leave /\ UNCHANGED gen
  /\ UNCHANGED <<link, launcher, unit, checkUnits, profile, stateFile, archive, Outside, budget>>

UninstallReturns ==
  /\ Running("remove") /\ un.todo = {}
  /\ Leave
  /\ UNCHANGED <<Files, Outside, budget>>

\* The command dies between two of its system calls.
UninstallDies ==
  /\ un.pc # "idle"
  /\ Leave
  /\ UNCHANGED <<Files, Outside, budget>>

UninstallStep ==
  \/ UpdateServiceAbsent \/ UpdateServiceRefused \/ \E f \in CheckUnit : UpdateServiceUnlinks(f)
  \/ StopRuntime \/ StopRuntimeFails \/ Recheck \/ CreateStateArchive \/ PurgeChecks
  \/ \E f \in StateFile : PurgeFile(f)
  \/ Purged \/ PrepareProfiles \/ (\E p \in Profile : EditProfile(p)) \/ ProfilesEdited
  \/ \E l \in Link : RemoveLink(l)
  \/ \E l \in Launcher : RemoveLauncher(l)
  \/ \E g \in Gen : EnterGeneration(g) \/ RemoveEntry(g) \/ RemoveReceipt(g) \/ RemoveDirectory(g)
  \/ UninstallReturns

----------------------------------------------------------------------------
(* Everyone else.                                                           *)

\* install.sh up to its seal: a fresh generation becomes current, the launchers
\* are rewritten, the service installed and the profile block appended.
PlaceRuntime(g) ==
  /\ installing = Unlinked /\ ~gen[g].present /\ Spend("install")
  /\ gen' = [gen EXCEPT ![g] = Unsealed]
  /\ link' = [current |-> g, previous |-> IF link["current"] # Unlinked /\ gen[link["current"]].present
                                          THEN link["current"] ELSE Unlinked]
  /\ launcher' = [l \in Launcher |-> "managed"]
  /\ unit' = TRUE
  /\ profile' = [profile EXCEPT ![Profiles[1]].block = IF @ = "none" THEN "exact" ELSE @]
  /\ installing' = g
  /\ overlapped' = (overlapped \/ un.pc # "idle")
  /\ UNCHANGED <<checkUnits, stateFile, archive, un, late>>

\* record_installation: seal exactly what is there, or fail.
RecordInstallation ==
  /\ installing # Unlinked
  /\ LET g == installing
         seals == /\ gen[g].present /\ gen[g].receipt = "none" /\ gen[g].entries = Packaged
                  /\ \A l \in Launcher : launcher[l] # "absent"
     IN  gen' = IF seals THEN [gen EXCEPT ![g].receipt = "install"] ELSE gen
  /\ installing' = Unlinked
  /\ overlapped' = (overlapped \/ un.pc # "idle")
  /\ UNCHANGED <<link, launcher, unit, checkUnits, profile, stateFile, archive, un, late, budget>>

InstallerDies ==
  /\ installing # Unlinked /\ Spend("damage")
  /\ installing' = Unlinked
  /\ UNCHANGED <<Files, un, late, overlapped>>

\* manage_update_service(action="install") writes the service and then the timer;
\* it may fail in between.
UpdateServiceInstalls ==
  /\ launcher["seckit"] # "absent" /\ checkUnits # CheckUnit /\ Spend("install")
  /\ \E units \in {{"service"}, CheckUnit} : checkUnits' = checkUnits \cup units
  /\ overlapped' = (overlapped \/ un.pc # "idle")
  /\ UNCHANGED <<gen, link, launcher, unit, profile, stateFile, archive, un, late, installing>>

\* Someone adds a file to a generation.
AddToGeneration(g) ==
  /\ gen[g].present /\ "added" \notin gen[g].entries /\ Spend("damage")
  /\ gen' = [gen EXCEPT ![g].entries = @ \cup {"added"}]
  /\ late' = IF un.pc = "idle" THEN late ELSE late \cup {g}
  /\ UNCHANGED <<link, launcher, unit, checkUnits, profile, stateFile, archive, un, Outside>>

\* Someone edits a launcher or the lines of the managed block.
EditManaged ==
  /\ Spend("damage")
  /\ \/ \E l \in Launcher : launcher[l] = "managed" /\ launcher' = [launcher EXCEPT ![l] = "edited"]
                             /\ UNCHANGED profile
     \/ \E p \in Profile : profile[p].block = "exact" /\ profile' = [profile EXCEPT ![p].block = "edited"]
                            /\ UNCHANGED launcher
  /\ UNCHANGED <<gen, link, unit, checkUnits, stateFile, archive, un, late, Outside>>

\* The user writes to a profile outside the managed block.
EditOwnText(p) ==
  /\ Spend("write")
  /\ profile' = [profile EXCEPT ![p].text = @ + 1]
  /\ UNCHANGED <<gen, link, launcher, unit, checkUnits, stateFile, archive, un, late, Outside>>

\* The daemon, or another command, writes a state file.
WriteState(f) ==
  /\ Spend("write")
  /\ stateFile' = [stateFile EXCEPT ![f] = @ + 1]
  /\ UNCHANGED <<gen, link, launcher, unit, checkUnits, profile, archive, un, late, Outside>>

Others ==
  \/ \E g \in Gen : PlaceRuntime(g) \/ AddToGeneration(g)
  \/ RecordInstallation \/ InstallerDies \/ UpdateServiceInstalls \/ EditManaged
  \/ \E p \in Profile : EditOwnText(p)
  \/ \E f \in StateFile : WriteState(f)

UninstallNext ==
  \/ \E files \in {{}, Family, {"sqlite"}}, to \in Destinations \cup {"none"} : UninstallStarts(files, to)
  \/ UninstallStep
  \/ UninstallDies
  \/ Others

UninstallSpec == UninstallInit /\ [][UninstallNext]_uninstallVars

----------------------------------------------------------------------------

\* An uninstall that failed or died anywhere can be run again.  While nobody else changed
\* the managed files and every installation is sealed, the plan is accepted in
\* every state, and update-check definitions never outlive the launcher that is
\* needed to recognise and remove them.
UninstallResumes ==
  ~overlapped /\ installing = Unlinked /\ budget.damage = 0
    => PlanAccepted /\ (checkUnits # {} => launcher["seckit"] # "absent")

\* Nothing that is not the installation's own is lost, whatever is written while
\* the uninstall runs, dies and is resumed.  A file somebody put into a generation
\* before the command's last look at it is never deleted: such a generation is
\* refused.  With an archive requested, a purged file is in the archive with
\* exactly the content it had when it was deleted.  The user's own lines in a
\* shell profile survive the removal of the managed block.
NothingForeignLost ==
  [][/\ \A g \in Gen : "added" \in gen[g].entries /\ "added" \notin gen'[g].entries => g \in late
     /\ \A f \in StateFile :
          stateFile[f] # 0 /\ stateFile'[f] = 0 /\ un.archiveTo # "none"
            => archive[un.archiveTo] # NoArchive /\ archive[un.archiveTo][f] = stateFile[f]
     /\ \A p \in Profile : profile'[p].text >= profile[p].text]_uninstallVars

==============================================================================

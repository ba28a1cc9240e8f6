--------------------------- MODULE ModuleManager ---------------------------
(***************************************************************************)
(* Skylar's application modules: dynamic libraries that are loaded when a  *)
(* Run of the server starts, replaced by newer files while it serves       *)
(* (UpdateApplications) and unloaded when it ends (Cleanup).               *)
(*                                                                         *)
(* Every time a library is opened it gets a new load number; the handlers  *)
(* of an application are the load they were looked up in, so that a        *)
(* handler of a library that has been closed since is visible as such.     *)
(* Nothing runs in parallel with the operations here: ServerLifecycle says *)
(* when that is so.  Files, libraries and what the applications' own       *)
(* functions return are the environment's choice, as is every failure.     *)
(***************************************************************************)
EXTENDS Integers, Sequences, FiniteSets

CONSTANTS Apps,          \* application names
          Files,         \* paths of application modules
          ModuleOf,      \* "module" of each application
          Settings,      \* the applications in the order of appsettings.json
          Updatable,     \* the applications with a "moduleUpdate" of their own
          Sizes,         \* file sizes
          MaxLoads,      \* bound on the libraries opened
          MaxStaged,     \* bound on the files an administrator provides
          MaxRuns,       \* bound on the Runs of the server
          Failures       \* the steps of UpdateApplication that may fail

Failure == {"source", "destination", "delete", "move", "open", "methods", "init"}

ASSUME ModuleAssumption ==
    /\ ModuleOf \in [Apps -> Files]
    /\ Settings \in Seq(Apps)
    /\ Updatable \subseteq Apps
    /\ Sizes # {}
    /\ MaxLoads \in Nat /\ MaxStaged \in Nat /\ MaxRuns \in Nat
    /\ Failures \subseteq Failure

None == 0

VARIABLES phase,        \* "down", "loading", "serving", "updating" or "aborted"
          run,          \* Runs begun
          next,         \* position in Settings while loading
          todo,         \* listed applications UpdateApplications has still to visit
          loads,        \* libraries opened so far
          loaded,       \* the load of each module that is open, or None
          listed,       \* applications in ModuleManager::List
          handlers,     \* the load an application's handlers come from, or None
          initialised,  \* loads in which an application was initialised and not exited
          visited,      \* modules already considered by UpdateApplications
          disk,         \* the module file: its content, 0 when it is missing
          staged,       \* the update file: its content, 0 when it is missing
          content,      \* the content each open module was loaded from
          size,         \* the size of each content
          newer         \* the update file is newer than the module file

files == <<disk, staged, size, newer>>
vars == <<phase, run, next, todo, loads, loaded, listed, handlers, initialised, visited,
          files, content>>

Contents == 1..(1 + MaxStaged)

Init ==
    /\ phase = "down"
    /\ run = 0
    /\ next = 1
    /\ todo = {}
    /\ loads = 0
    /\ loaded = [f \in Files |-> None]
    /\ listed = {}
    /\ handlers = [a \in Apps |-> None]
    /\ initialised = [a \in Apps |-> {}]
    /\ visited = {}
    /\ disk = [f \in Files |-> 1]
    /\ staged = [f \in Files |-> None]
    /\ content = [f \in Files |-> None]
    /\ size \in [Contents -> Sizes]
    /\ newer = [f \in Files |-> FALSE]

-----------------------------------------------------------------------------
(* Loading                                                                 *)

BeginRun ==
    /\ phase = "down"
    /\ run < MaxRuns
    /\ run' = run + 1
    /\ phase' = "loading"
    /\ next' = 1
    /\ UNCHANGED <<todo, loads, loaded, listed, handlers, initialised, visited, files,
                   content>>

(* The first settings of a name stay in List, with the handlers in them;   *)
(* those of a later Run are dropped.                                       *)
AddApplication(app, load) ==
    /\ listed' = listed \cup {app}
    /\ handlers' = IF app \in listed THEN handlers ELSE [handlers EXCEPT ![app] = load]

(* LoadModule opens the library, looks its methods up and initialises the  *)
(* application.  Opening a library that is open is a second handle on it.  *)
LoadApplication ==
    /\ phase = "loading"
    /\ next <= Len(Settings)
    /\ LET app == Settings[next]
           file == ModuleOf[app]
           load == IF loaded[file] = None THEN loads + 1 ELSE loaded[file]
       IN  /\ disk[file] # None
           /\ load <= MaxLoads
           /\ loads' = IF load > loads THEN load ELSE loads
           /\ loaded' = [loaded EXCEPT ![file] = load]
           /\ content' = [content EXCEPT ![file] =
                             IF loaded[file] = None THEN disk[file] ELSE @]
           /\ initialised' = [initialised EXCEPT ![app] = @ \cup {load}]
           /\ AddApplication(app, load)
    /\ next' = next + 1
    /\ UNCHANGED <<phase, run, todo, visited, files>>

(* LoadAppSettings returns early: the settings file, a library, a method   *)
(* or an initialisation fails.  The rest of the settings is skipped, and   *)
(* Server::Init does not look at the result.                               *)
LoadFails ==
    /\ phase = "loading"
    /\ next <= Len(Settings)
    /\ phase' = "serving"
    /\ UNCHANGED <<run, next, todo, loads, loaded, listed, handlers, initialised,
                   visited, files, content>>

LoadingDone ==
    /\ phase = "loading"
    /\ next > Len(Settings)
    /\ phase' = "serving"
    /\ UNCHANGED <<run, next, todo, loads, loaded, listed, handlers, initialised,
                   visited, files, content>>

-----------------------------------------------------------------------------
(* Updating                                                                *)

(* An administrator provides an update file, of any age.                   *)
StageUpdate(f) ==
    /\ phase = "serving"
    /\ \E c \in Contents :
          /\ \A g \in Files : staged[g] < c
          /\ c > 1 /\ (\A d \in 2..(c - 1) : \E g \in Files : staged[g] >= d)
          /\ staged' = [staged EXCEPT ![f] = c]
    /\ \E young \in BOOLEAN : newer' = [newer EXCEPT ![f] = young]
    /\ UNCHANGED <<phase, run, next, todo, loads, loaded, listed, handlers, initialised,
                   visited, disk, size, content>>

GetAllApplicationSettings == listed

BeginUpdate ==
    /\ phase = "serving"
    /\ phase' = "updating"
    /\ todo' = GetAllApplicationSettings
    /\ visited' = {}
    /\ UNCHANGED <<run, next, loads, loaded, listed, handlers, initialised, files, content>>

Sharing(f) == {a \in listed : ModuleOf[a] = f}

(* Mutant: the age of the update file is not looked at.                    *)
UpdateOfOtherSize(f) ==
    /\ staged[f] # None
    /\ disk[f] # None
    /\ size[disk[f]] # size[staged[f]]

UpdateNeeded(f) ==
    /\ staged[f] # None
    /\ disk[f] # None
    /\ size[disk[f]] # size[staged[f]] \/ newer[f]

(* The applications come in the order of a hash table.                     *)
Visit(app) ==
    /\ phase = "updating"
    /\ app \in todo
    /\ todo' = todo \ {app}
    /\ visited' = visited \cup {ModuleOf[app]}

SkipApplication(app) ==
    /\ Visit(app)
    /\ \/ ModuleOf[app] \in visited
       \/ app \notin Updatable
       \/ ~UpdateNeeded(ModuleOf[app])
    /\ UNCHANGED <<phase, run, next, loads, loaded, listed, handlers, initialised, files,
                   content>>

UpdateDue(app) ==
    /\ app \in Updatable
    /\ ModuleOf[app] \notin visited
    /\ UpdateNeeded(ModuleOf[app])

(* The assertion on OnApplicationExit at the head of UpdateApplication.    *)
Aborts(f) == \E a \in Sharing(f) : handlers[a] = None

AbortUpdate(app) ==
    /\ Visit(app)
    /\ UpdateDue(app)
    /\ Aborts(ModuleOf[app])
    /\ phase' = "aborted"
    /\ UNCHANGED <<run, next, loads, loaded, listed, handlers, initialised, files, content>>

(* Mutant: the new handlers are copied to one application only.            *)
ReboundOne(f, load) ==
    LET one == CHOOSE a \in Sharing(f) : TRUE
    IN  [a \in Apps |-> IF a \notin Sharing(f) THEN handlers[a]
                        ELSE IF a = one THEN load ELSE None]

Rebound(f, load) == [a \in Apps |-> IF a \in Sharing(f) THEN load ELSE handlers[a]]

(* Either all four methods are found in the library, or none is taken.     *)
SetApplicationModuleMethods(load, found) == IF found THEN load ELSE None

(* Mutant: OnApplicationExit is not called.                                *)
NotExited(f) == initialised

Exited(f) ==
    [a \in Apps |-> IF a \in Sharing(f) THEN initialised[a] \ {handlers[a]}
                    ELSE initialised[a]]

FileAfter(f, deletes, moves) ==
    IF moves THEN staged[f] ELSE IF deletes THEN None ELSE disk[f]

(* Everything UpdateApplication does up to the step that fails, or all of  *)
(* it.  All applications of the module exit and lose their handlers first; *)
(* the library is opened from the copy, under its temporary name, before   *)
(* the old file is deleted and the copy renamed.                           *)
UpdateApplication(app, outcome) ==
    LET f == ModuleOf[app]
        opens == outcome \in {"delete", "move", "methods", "init", "ok"}
        deletes == outcome \in {"move", "open", "methods", "init", "ok"}
        moves == outcome \in {"open", "methods", "init", "ok"}
        found == outcome \in {"init", "ok"}
    IN  /\ Visit(app)
        /\ UpdateDue(app)
        /\ ~Aborts(f)
        /\ loads < MaxLoads
        /\ loads' = IF opens THEN loads + 1 ELSE loads
        /\ loaded' = [loaded EXCEPT ![f] = IF opens THEN loads + 1 ELSE None]
        /\ content' = [content EXCEPT ![f] = IF opens THEN staged[f] ELSE None]
        /\ disk' = [disk EXCEPT ![f] = FileAfter(f, deletes, moves)]
        /\ newer' = [newer EXCEPT ![f] = @ /\ ~moves]
        /\ handlers' = Rebound(f, SetApplicationModuleMethods(loads + 1, found))
        /\ initialised' = [a \in Apps |->
                              IF outcome = "ok" /\ a \in Sharing(f)
                                THEN Exited(f)[a] \cup {loads + 1} ELSE Exited(f)[a]]
        /\ UNCHANGED <<phase, run, next, listed, staged, size>>

UpdateDone ==
    /\ phase = "updating"
    /\ todo = {}
    /\ phase' = "serving"
    /\ UNCHANGED <<run, next, todo, loads, loaded, listed, handlers, initialised,
                   visited, files, content>>

-----------------------------------------------------------------------------
(* Cleanup unloads every module.  It walks a list of applications it has   *)
(* not filled, so none of them is told to exit, and List is left alone.    *)
Cleanup ==
    /\ phase = "serving"
    /\ phase' = "down"
    /\ loaded' = [f \in Files |-> None]
    /\ content' = [f \in Files |-> None]
    /\ UNCHANGED <<run, next, todo, loads, listed, handlers, initialised, visited, files>>

-----------------------------------------------------------------------------
Next ==
    \/ BeginRun \/ LoadApplication \/ LoadFails \/ LoadingDone
    \/ BeginUpdate \/ UpdateDone \/ Cleanup
    \/ \E f \in Files : StageUpdate(f)
    \/ \E app \in Apps : SkipApplication(app) \/ AbortUpdate(app)
    \/ \E app \in Apps, outcome \in Failures \cup {"ok"} : UpdateApplication(app, outcome)

Spec == Init /\ [][Next]_vars

-----------------------------------------------------------------------------
(* Properties                                                              *)

TypeOK ==
    /\ phase \in {"down", "loading", "serving", "updating", "aborted"}
    /\ run \in 0..MaxRuns
    /\ next \in 1..(Len(Settings) + 1)
    /\ todo \in SUBSET listed
    /\ loads \in 0..MaxLoads
    /\ loaded \in [Files -> 0..MaxLoads]
    /\ listed \in SUBSET Apps
    /\ handlers \in [Apps -> 0..MaxLoads]
    /\ initialised \in [Apps -> SUBSET (1..MaxLoads)]
    /\ visited \in SUBSET Files
    /\ disk \in [Files -> {None} \cup Contents]
    /\ staged \in [Files -> {None} \cup Contents]
    /\ content \in [Files -> {None} \cup Contents]
    /\ size \in [Contents -> Sizes]
    /\ newer \in [Files -> BOOLEAN]

Serving(a) == phase = "serving" /\ a \in listed

(* RunApplication asserts that an application has a request handler.       *)
HandlersPresent == \A a \in Apps : Serving(a) => handlers[a] # None

(* AddApplication is there for the server to look applications up: what it *)
(* finds is a handler of a library that is open.                           *)
HandlersOpen ==
    \A a \in Apps :
        Serving(a) /\ handlers[a] # None => handlers[a] = loaded[ModuleOf[a]]

(* However an update fails, the applications that share a module keep the  *)
(* same handlers or lose them together.                                    *)
SharedModuleAgrees ==
    \A a, b \in listed :
        phase = "serving" /\ ModuleOf[a] = ModuleOf[b] => handlers[a] = handlers[b]

(* Until the server quits no library is closed, by an update that succeeds *)
(* or fails, without a call of OnApplicationExit for every application     *)
(* that was initialised in it.                                             *)
ExitBeforeReplace ==
    phase \in {"serving", "updating"} =>
        \A a \in Apps : initialised[a] \subseteq {loaded[ModuleOf[a]]}

(* PoolApplicationSettings.h: OnApplicationExit is called on server quit.  *)
ToldToExit == phase = "down" => \A a \in Apps : initialised[a] = {}

(* The module file on disk is the one whose handlers are called, so that a *)
(* restart serves the same application.                                    *)
LoadedIsOnDisk ==
    \A a \in Apps :
        Serving(a) /\ handlers[a] # None => content[ModuleOf[a]] = disk[ModuleOf[a]]

(* The types, and that handlers, libraries and files agree, whatever step  *)
(* of an update has failed.                                                *)
ModulesInv == TypeOK /\ HandlersOpen /\ SharedModuleAgrees /\ LoadedIsOnDisk

(* "Updates all server modules": when UpdateApplications is done, no       *)
(* application that can be called is left whose update file is newer than  *)
(* its module, or of another size, whatever has failed.                    *)
AllUpdated ==
    phase = "updating" /\ todo = {} =>
        \A a \in listed \cap Updatable :
            LET f == ModuleOf[a]
            IN  handlers[a] # None /\ staged[f] # None /\ disk[f] # None =>
                    size[disk[f]] = size[staged[f]] /\ ~newer[f]

(* UpdateApplication asserts that the application has an exit handler.     *)
NeverAborts == phase # "aborted"
=============================================================================

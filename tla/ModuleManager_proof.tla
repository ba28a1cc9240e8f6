------------------------ MODULE ModuleManager_proof ------------------------
(***************************************************************************)
(* What TLAPS proves about loading and replacing application modules, for  *)
(* any applications, modules, settings and files, whatever step of an      *)
(* update fails.                                                           *)
(***************************************************************************)
EXTENDS ModuleManager, TLAPS

-----------------------------------------------------------------------------
(* What holds from the first Run's loading on, until it has ended: the     *)
(* handlers of an application are those of the library that is open, it    *)
(* was opened from the file on disk, and only listed applications are      *)
(* initialised, in that library.  A second Run breaks it: List keeps the   *)
(* handlers of the first one.                                              *)
HandlersMatch ==
    \A a \in listed : handlers[a] # None =>
        handlers[a] = loaded[ModuleOf[a]] /\ content[ModuleOf[a]] = disk[ModuleOf[a]]

LoadingIsFresh ==
    phase = "loading" =>
        /\ \A a \in listed : handlers[a] # None
        /\ \A f \in Files : loaded[f] # None => content[f] = disk[f]

SharersAgree ==
    \A a, b \in listed : ModuleOf[a] = ModuleOf[b] => handlers[a] = handlers[b]

InitialisedInLoaded ==
    \A a \in Apps : /\ initialised[a] \subseteq {loaded[ModuleOf[a]]}
                    /\ a \notin listed => initialised[a] = {}

NothingLoaded ==
    /\ phase = "down" /\ listed = {}
    /\ \A a \in Apps : initialised[a] = {}
    /\ \A f \in Files : loaded[f] = None

FirstRun ==
    /\ run = 0 => NothingLoaded
    /\ run = 1 /\ phase # "down" =>
          HandlersMatch /\ LoadingIsFresh /\ SharersAgree /\ InitialisedInLoaded

FirstRunInv == TypeOK /\ FirstRun

(* What UpdateApplications has got done so far: a listed application has   *)
(* been visited or is still to be, and where a module has been visited no  *)
(* callable application of it needs an update any more.                    *)
VisitsDone ==
    phase = "updating" =>
        /\ \A a \in listed : a \in todo \/ ModuleOf[a] \in visited
        /\ \A a \in listed \cap Updatable :
              ModuleOf[a] \in visited /\ handlers[a] # None => ~UpdateNeeded(ModuleOf[a])

-----------------------------------------------------------------------------
(* Types                                                                   *)

LEMMA InitType == Init => TypeOK
<1> SUFFICES ASSUME Init PROVE TypeOK
  OBVIOUS
<1>1. Len(Settings) \in Nat /\ MaxLoads \in Nat /\ MaxRuns \in Nat /\ 1 \in Contents
  BY ModuleAssumption DEF Contents
<1> QED
  BY <1>1 DEF Init, TypeOK, files, None

LEMMA LoadType ==
    TypeOK /\ (BeginRun \/ LoadApplication \/ LoadFails \/ LoadingDone) => TypeOK'
<1> SUFFICES ASSUME TypeOK, BeginRun \/ LoadApplication \/ LoadFails \/ LoadingDone
             PROVE  TypeOK'
  OBVIOUS
<1> USE ModuleAssumption DEF TypeOK, files
<1>1. CASE BeginRun
  BY <1>1 DEF BeginRun
<1>2. CASE LoadApplication
  <2> DEFINE app == Settings[next]
             file == ModuleOf[app]
             load == IF loaded[file] = None THEN loads + 1 ELSE loaded[file]
  <2>1. app \in Apps /\ file \in Files
    BY <1>2 DEF LoadApplication
  <2>2. load \in 1..MaxLoads
    BY <1>2, <2>1 DEF LoadApplication, None
  <2>3. /\ loads' = IF load > loads THEN load ELSE loads
        /\ loaded' = [loaded EXCEPT ![file] = load]
        /\ content' = [content EXCEPT ![file] =
                          IF loaded[file] = None THEN disk[file] ELSE @]
        /\ initialised' = [initialised EXCEPT ![app] = @ \cup {load}]
        /\ listed' = listed \cup {app}
        /\ handlers' = IF app \in listed THEN handlers ELSE [handlers EXCEPT ![app] = load]
        /\ next' = next + 1 /\ next <= Len(Settings)
        /\ UNCHANGED <<phase, run, todo, visited, files>>
    BY <1>2 DEF LoadApplication, AddApplication
  <2> HIDE DEF app, file, load
  <2> QED
    BY <2>1, <2>2, <2>3
<1>3. CASE LoadFails \/ LoadingDone
  BY <1>3 DEF LoadFails, LoadingDone
<1> QED
  BY <1>1, <1>2, <1>3

(* What an update of app leaves behind, as far as types go.                *)
LEMMA UpdateType ==
    ASSUME TypeOK, NEW app \in Apps, NEW outcome, UpdateApplication(app, outcome)
    PROVE  TypeOK'
<1> USE ModuleAssumption DEF TypeOK, files
<1> DEFINE f == ModuleOf[app]
<1>1. f \in Files /\ loads + 1 \in 0..MaxLoads /\ loads + 1 \in 1..MaxLoads
  BY DEF UpdateApplication
<1>2. staged[f] \in {None} \cup Contents /\ disk[f] \in {None} \cup Contents
  BY <1>1
<1>3. loads' \in 0..MaxLoads /\ loaded' \in [Files -> 0..MaxLoads]
  BY <1>1 DEF UpdateApplication, None
<1>4. content' \in [Files -> {None} \cup Contents]
  BY <1>1, <1>2 DEF UpdateApplication
<1>5. disk' \in [Files -> {None} \cup Contents]
  BY <1>1, <1>2 DEF UpdateApplication, FileAfter
<1>6. newer' \in [Files -> BOOLEAN]
  BY <1>1 DEF UpdateApplication
<1>7. handlers' \in [Apps -> 0..MaxLoads]
  BY <1>1 DEF UpdateApplication, Rebound, SetApplicationModuleMethods, None
<1>8. initialised' \in [Apps -> SUBSET (1..MaxLoads)]
  BY <1>1 DEF UpdateApplication, Exited
<1>9. todo' \in SUBSET listed /\ visited' \in SUBSET Files
  BY <1>1 DEF UpdateApplication, Visit
<1> QED
  BY <1>3, <1>4, <1>5, <1>6, <1>7, <1>8, <1>9 DEF UpdateApplication

LEMMA OtherType ==
    ASSUME TypeOK,
           \/ \E f \in Files : StageUpdate(f)
           \/ \E app \in Apps : SkipApplication(app) \/ AbortUpdate(app)
           \/ BeginUpdate \/ UpdateDone \/ Cleanup
           \/ UNCHANGED vars
    PROVE  TypeOK'
<1> USE ModuleAssumption DEF TypeOK, files
<1>1. ASSUME NEW f \in Files, StageUpdate(f) PROVE TypeOK'
  <2>1. staged' \in [Files -> {None} \cup Contents] /\ newer' \in [Files -> BOOLEAN]
    BY <1>1 DEF StageUpdate
  <2> QED
    BY <1>1, <2>1 DEF StageUpdate
<1>2. ASSUME NEW app \in Apps, SkipApplication(app) \/ AbortUpdate(app) PROVE TypeOK'
  BY <1>2 DEF SkipApplication, AbortUpdate, Visit
<1>3. CASE BeginUpdate \/ UpdateDone
  BY <1>3 DEF BeginUpdate, UpdateDone, GetAllApplicationSettings
<1>4. CASE Cleanup
  BY <1>4 DEF Cleanup, None
<1>5. CASE UNCHANGED vars
  BY <1>5 DEF vars
<1> QED
  BY <1>1, <1>2, <1>3, <1>4, <1>5

LEMMA StepType == TypeOK /\ [Next]_vars => TypeOK'
<1> SUFFICES ASSUME TypeOK, [Next]_vars PROVE TypeOK'
  OBVIOUS
<1>1. CASE BeginRun \/ LoadApplication \/ LoadFails \/ LoadingDone
  BY <1>1, LoadType
<1>2. ASSUME NEW app \in Apps, NEW outcome, UpdateApplication(app, outcome) PROVE TypeOK'
  BY <1>2, UpdateType
<1> QED
  BY <1>1, <1>2, OtherType DEF Next

-----------------------------------------------------------------------------
(* The first Run                                                           *)

(* What LoadApplication does, in terms of the application it comes to.     *)
LEMMA LoadingStep ==
    ASSUME TypeOK, LoadApplication
    PROVE  \E app \in Apps, load \in 1..MaxLoads :
              LET file == ModuleOf[app]
              IN  /\ file \in Files
                  /\ loaded[file] # None => load = loaded[file]
                  /\ loaded' = [loaded EXCEPT ![file] = load]
                  /\ content' = [content EXCEPT ![file] =
                                    IF loaded[file] = None THEN disk[file] ELSE @]
                  /\ initialised' = [initialised EXCEPT ![app] = @ \cup {load}]
                  /\ listed' = listed \cup {app}
                  /\ handlers' = IF app \in listed THEN handlers
                                 ELSE [handlers EXCEPT ![app] = load]
<1> USE ModuleAssumption DEF TypeOK
<1> DEFINE app == Settings[next]
           file == ModuleOf[app]
           load == IF loaded[file] = None THEN loads + 1 ELSE loaded[file]
<1>0. next \in 1..Len(Settings)
  BY DEF LoadApplication
<1>1. app \in Apps /\ file \in Files
  BY <1>0
<1>2. load \in 1..MaxLoads /\ (loaded[file] # None => load = loaded[file])
  BY <1>1 DEF LoadApplication, None
<1>3. /\ loaded' = [loaded EXCEPT ![file] = load]
      /\ content' = [content EXCEPT ![file] =
                        IF loaded[file] = None THEN disk[file] ELSE @]
      /\ initialised' = [initialised EXCEPT ![app] = @ \cup {load}]
      /\ listed' = listed \cup {app}
      /\ handlers' = IF app \in listed THEN handlers ELSE [handlers EXCEPT ![app] = load]
  BY DEF LoadApplication, AddApplication
<1> HIDE DEF load
<1> USE <1>1, <1>2
<1> WITNESS app \in Apps, load \in 1..MaxLoads
<1> QED
  BY <1>3

(* Loading an application leaves the library of every other one as it is,  *)
(* since a listed application's library is open already.                   *)
LEMMA LoadKeepsMatch ==
    ASSUME TypeOK, HandlersMatch, LoadingIsFresh, SharersAgree, InitialisedInLoaded,
           LoadApplication
    PROVE  HandlersMatch' /\ LoadingIsFresh' /\ SharersAgree' /\ InitialisedInLoaded'
<1> USE ModuleAssumption
<1>1. PICK app \in Apps, load \in 1..MaxLoads :
         LET file == ModuleOf[app]
         IN  /\ file \in Files
             /\ loaded[file] # None => load = loaded[file]
             /\ loaded' = [loaded EXCEPT ![file] = load]
             /\ content' = [content EXCEPT ![file] =
                               IF loaded[file] = None THEN disk[file] ELSE @]
             /\ initialised' = [initialised EXCEPT ![app] = @ \cup {load}]
             /\ listed' = listed \cup {app}
             /\ handlers' = IF app \in listed THEN handlers
                            ELSE [handlers EXCEPT ![app] = load]
  BY LoadingStep
<1> DEFINE file == ModuleOf[app]
<1>2. load # None /\ phase = "loading" /\ UNCHANGED <<phase, disk>>
  BY DEF None, LoadApplication, files
<1>3. /\ file \in Files /\ (loaded[file] # None => load = loaded[file])
      /\ loaded'[file] = load /\ content'[file] = disk[file]
      /\ \A f \in Files \ {file} : loaded'[f] = loaded[f] /\ content'[f] = content[f]
  BY <1>1, <1>2 DEF TypeOK, LoadingIsFresh
<1>4. \A a \in listed : /\ handlers'[a] = handlers[a] /\ handlers[a] # None
                        /\ handlers[a] = loaded[ModuleOf[a]]
  BY <1>1, <1>2 DEF TypeOK, HandlersMatch, LoadingIsFresh
<1>5. \A a \in listed : /\ loaded'[ModuleOf[a]] = loaded[ModuleOf[a]]
                        /\ content'[ModuleOf[a]] = disk[ModuleOf[a]]
  BY <1>3, <1>4 DEF TypeOK, HandlersMatch
<1>6. listed' = listed \cup {app} /\ (app \notin listed => handlers'[app] = load)
  BY <1>1 DEF TypeOK
<1> HIDE DEF file
<1>7. \A a \in listed' : /\ handlers'[a] = loaded'[ModuleOf[a]] /\ handlers'[a] # None
                         /\ content'[ModuleOf[a]] = disk'[ModuleOf[a]]
  BY <1>2, <1>3, <1>4, <1>5, <1>6 DEF file
<1>8. HandlersMatch' /\ SharersAgree'
  BY <1>7 DEF HandlersMatch, SharersAgree
<1>9. LoadingIsFresh'
  BY <1>2, <1>3, <1>7 DEF LoadingIsFresh
<1>10. ASSUME NEW a \in Apps
       PROVE  /\ initialised'[a] \subseteq {loaded'[ModuleOf[a]]}
              /\ a \notin listed' => initialised'[a] = {}
  <2>1. initialised'[a] \subseteq initialised[a] \cup (IF a = app THEN {load} ELSE {})
    BY <1>1 DEF TypeOK
  <2>2. initialised[a] \subseteq 1..MaxLoads /\ initialised[a] \subseteq {loaded[ModuleOf[a]]}
    BY DEF TypeOK, InitialisedInLoaded
  <2>3. loaded[file] = None => loaded[file] \notin 1..MaxLoads
    BY DEF None
  <2>4. initialised[a] \subseteq {loaded'[ModuleOf[a]]}
    BY <1>3, <2>2, <2>3 DEF file
  <2> QED
    BY <1>3, <1>6, <2>1, <2>4 DEF InitialisedInLoaded, file
<1> QED
  BY <1>8, <1>9, <1>10 DEF InitialisedInLoaded

(* However far an update gets, the applications that share the module have *)
(* exited, since they were initialised in no other library than the one    *)
(* their handlers come from; and they get handlers only of a library that  *)
(* was opened from the file that is on disk by then.                       *)
LEMMA UpdateKeepsMatch ==
    ASSUME TypeOK, HandlersMatch, SharersAgree, InitialisedInLoaded,
           NEW app \in Apps, NEW outcome, UpdateApplication(app, outcome)
    PROVE  HandlersMatch' /\ LoadingIsFresh' /\ SharersAgree' /\ InitialisedInLoaded'
<1> USE ModuleAssumption
<1> DEFINE f == ModuleOf[app]
           found == outcome \in {"init", "ok"}
<1>1. /\ f \in Files /\ UNCHANGED listed /\ phase' = "updating"
      /\ \A a \in Sharing(f) : handlers[a] # None
  BY DEF UpdateApplication, Visit, TypeOK, Aborts
<1>2. \A g \in Files \ {f} : loaded'[g] = loaded[g] /\ content'[g] = content[g] /\ disk'[g] = disk[g]
  BY DEF UpdateApplication, TypeOK
<1>3. found => loaded'[f] = loads + 1 /\ content'[f] = disk'[f]
  BY <1>1 DEF UpdateApplication, FileAfter, TypeOK
<1>4. \A a \in Apps : handlers'[a] = IF a \in Sharing(f) THEN IF found THEN loads + 1 ELSE None
                                     ELSE handlers[a]
  BY DEF UpdateApplication, Rebound, SetApplicationModuleMethods
<1>5. \A a \in Apps : initialised'[a] = IF outcome = "ok" /\ a \in Sharing(f)
                                         THEN Exited(f)[a] \cup {loads + 1}
                                         ELSE Exited(f)[a]
  BY DEF UpdateApplication
<1>6. \A a \in Apps : Exited(f)[a] = IF a \in Sharing(f) THEN {} ELSE initialised[a]
  <2> SUFFICES ASSUME NEW a \in Sharing(f) PROVE initialised[a] \ {handlers[a]} = {}
    BY DEF Exited
  <2>1. a \in listed /\ a \in Apps /\ ModuleOf[a] = f
    BY DEF Sharing, TypeOK
  <2>2. handlers[a] = loaded[f]
    BY <1>1, <2>1 DEF HandlersMatch
  <2> QED
    BY <2>1, <2>2 DEF InitialisedInLoaded
<1> HIDE DEF f, found
<1>7. \A a \in Apps : a \in Sharing(f) <=> a \in listed /\ ModuleOf[a] = f
  BY DEF Sharing, TypeOK
<1>8. HandlersMatch'
  <2> SUFFICES ASSUME NEW a \in listed, handlers'[a] # None
               PROVE  /\ handlers'[a] = loaded'[ModuleOf[a]]
                      /\ content'[ModuleOf[a]] = disk'[ModuleOf[a]]
    BY <1>1 DEF HandlersMatch
  <2>1. a \in Apps /\ ModuleOf[a] \in Files
    BY DEF TypeOK
  <2> QED
    BY <1>2, <1>3, <1>4, <1>7, <2>1 DEF HandlersMatch
<1>9. SharersAgree'
  <2> SUFFICES ASSUME NEW a \in listed, NEW b \in listed, ModuleOf[a] = ModuleOf[b]
               PROVE  handlers'[a] = handlers'[b]
    BY <1>1 DEF SharersAgree
  <2>1. a \in Apps /\ b \in Apps
    BY DEF TypeOK
  <2> QED
    BY <1>4, <1>7, <2>1 DEF SharersAgree
<1>10. InitialisedInLoaded'
  <2> SUFFICES ASSUME NEW a \in Apps
               PROVE  /\ initialised'[a] \subseteq {loaded'[ModuleOf[a]]}
                      /\ a \notin listed => initialised'[a] = {}
    BY <1>1 DEF InitialisedInLoaded
  <2>1. a \in Sharing(f) => initialised'[a] \subseteq {loaded'[ModuleOf[a]]} /\ a \in listed
    BY <1>3, <1>5, <1>6, <1>7 DEF found
  <2>2. a \notin Sharing(f) => initialised'[a] = initialised[a]
    BY <1>5, <1>6
  <2>3. a \notin Sharing(f) => a \notin listed \/ loaded'[ModuleOf[a]] = loaded[ModuleOf[a]]
    BY <1>2, <1>7
  <2> QED
    BY <2>1, <2>2, <2>3 DEF InitialisedInLoaded
<1> QED
  BY <1>1, <1>8, <1>9, <1>10 DEF LoadingIsFresh

LEMMA InitFirstRun == Init => FirstRunInv
<1> SUFFICES ASSUME Init PROVE FirstRunInv
  OBVIOUS
<1>1. NothingLoaded /\ run = 0
  BY DEF Init, NothingLoaded
<1> QED
  BY <1>1, InitType DEF FirstRunInv, FirstRun

LEMMA StepFirstRun == FirstRunInv /\ [Next]_vars => FirstRunInv'
<1> SUFFICES ASSUME FirstRunInv, [Next]_vars PROVE FirstRun'
  BY StepType DEF FirstRunInv
<1> USE DEF FirstRunInv, FirstRun
<1>0. run \in Nat
  BY ModuleAssumption DEF TypeOK
<1>1. ASSUME UNCHANGED <<phase, run, loads, loaded, listed, handlers, initialised, content, disk>>
      PROVE  FirstRun'
  BY <1>1 DEF NothingLoaded, HandlersMatch, LoadingIsFresh, SharersAgree, InitialisedInLoaded
<1>2. ASSUME UNCHANGED <<run, loaded, listed, handlers, initialised, content, disk>>,
             phase # "down", phase' # "loading"
      PROVE  FirstRun'
  BY <1>2 DEF NothingLoaded, HandlersMatch, LoadingIsFresh, SharersAgree, InitialisedInLoaded
<1>3. CASE BeginRun
  BY <1>0, <1>3 DEF BeginRun, NothingLoaded, HandlersMatch, LoadingIsFresh, SharersAgree,
               InitialisedInLoaded, files
<1>4. CASE LoadApplication
  <2>1. phase = "loading" /\ UNCHANGED <<phase, run>>
    BY <1>4 DEF LoadApplication
  <2> QED
    BY <1>4, <2>1, LoadKeepsMatch DEF NothingLoaded
<1>5. CASE LoadFails \/ LoadingDone \/ BeginUpdate \/ UpdateDone
  BY <1>2, <1>5 DEF LoadFails, LoadingDone, BeginUpdate, UpdateDone, files
<1>6. ASSUME NEW g \in Files, StageUpdate(g) PROVE FirstRun'
  BY <1>1, <1>6 DEF StageUpdate
<1>7. ASSUME NEW app \in Apps, SkipApplication(app) \/ AbortUpdate(app) PROVE FirstRun'
  BY <1>2, <1>7 DEF SkipApplication, AbortUpdate, Visit, files
<1>8. ASSUME NEW app \in Apps, NEW outcome, UpdateApplication(app, outcome) PROVE FirstRun'
  <2>1. phase = "updating" /\ UNCHANGED <<phase, run>>
    BY <1>8 DEF UpdateApplication, Visit
  <2> QED
    BY <1>8, <2>1, UpdateKeepsMatch DEF NothingLoaded
<1>9. CASE Cleanup
  <2>1. phase = "serving" /\ phase' = "down" /\ UNCHANGED run
    BY <1>9 DEF Cleanup
  <2> QED
    BY <2>1 DEF NothingLoaded
<1>10. CASE UNCHANGED vars
  BY <1>1, <1>10 DEF vars, files
<1> QED
  BY <1>3, <1>4, <1>5, <1>6, <1>7, <1>8, <1>9, <1>10 DEF Next

LEMMA FirstRunInvariant == Spec => []FirstRunInv
BY InitFirstRun, StepFirstRun, PTL DEF Spec

-----------------------------------------------------------------------------
(* Until the server is restarted, the handlers of the applications, the    *)
(* open libraries and the files on disk agree, and applications that share *)
(* a module share the handlers: whatever step of whatever update fails.    *)
THEOREM ModulesAgree == Spec => [](run <= 1 => ModulesInv)
<1>1. FirstRunInv => (run <= 1 => ModulesInv)
  <2> SUFFICES ASSUME FirstRunInv, run <= 1 PROVE ModulesInv
    OBVIOUS
  <2>1. run = 0 \/ run = 1
    BY ModuleAssumption DEF FirstRunInv, TypeOK
  <2> QED
    BY <2>1 DEF FirstRunInv, FirstRun, NothingLoaded, HandlersMatch, SharersAgree,
                ModulesInv, HandlersOpen, SharedModuleAgrees, LoadedIsOnDisk, Serving
<1> QED
  BY <1>1, FirstRunInvariant, PTL

(* Until the server is restarted, no library is closed before every        *)
(* application that was initialised in it has been told to exit.           *)
THEOREM ExitsBeforeReplace == Spec => [](run <= 1 => ExitBeforeReplace)
<1>1. FirstRunInv => (run <= 1 => ExitBeforeReplace)
  <2> SUFFICES ASSUME FirstRunInv, run <= 1 PROVE ExitBeforeReplace
    OBVIOUS
  <2>1. run = 0 \/ run = 1
    BY ModuleAssumption DEF FirstRunInv, TypeOK
  <2> QED
    BY <2>1 DEF FirstRunInv, FirstRun, NothingLoaded, InitialisedInLoaded, ExitBeforeReplace
<1> QED
  BY <1>1, FirstRunInvariant, PTL

-----------------------------------------------------------------------------
(* What an update run gets done.  It visits a module once, with the first  *)
(* of its applications it comes to: if that one names no update file, the  *)
(* module is not updated for the others either.                            *)
SharersUpdatable ==
    \A a, b \in Apps : ModuleOf[a] = ModuleOf[b] => (a \in Updatable <=> b \in Updatable)

UpdateInv == TypeOK /\ VisitsDone

LEMMA VisitKeepsDone ==
    ASSUME SharersUpdatable, UpdateInv, NEW app \in Apps, Visit(app),
           UNCHANGED <<listed, size, staged>>,
           NEW f, f = ModuleOf[app],
           \A a \in listed : ModuleOf[a] # f =>
               handlers'[a] = handlers[a] /\ disk'[ModuleOf[a]] = disk[ModuleOf[a]]
                   /\ newer'[ModuleOf[a]] = newer[ModuleOf[a]],
           \A a \in listed \cap Updatable :
               ModuleOf[a] = f /\ handlers'[a] # None => ~UpdateNeeded(f)'
    PROVE  VisitsDone'
<1> USE DEF UpdateInv
<1>1. /\ phase = "updating" /\ todo' = todo \ {app} /\ visited' = visited \cup {f}
  BY DEF Visit
<1>2. \A a \in listed : a \in todo' \/ ModuleOf[a] \in visited'
  BY <1>1 DEF VisitsDone
<1>3. ASSUME NEW a \in listed \cap Updatable, ModuleOf[a] \in visited', handlers'[a] # None
      PROVE  ~UpdateNeeded(ModuleOf[a])'
  <2>1. CASE ModuleOf[a] = f
    BY <1>3, <2>1 DEF UpdateNeeded
  <2>2. CASE ModuleOf[a] # f
    BY <1>1, <1>3, <2>2 DEF VisitsDone, UpdateNeeded
  <2> QED
    BY <2>1, <2>2
<1> QED
  BY <1>2, <1>3 DEF VisitsDone

LEMMA SkipKeepsDone ==
    ASSUME SharersUpdatable, UpdateInv, NEW app \in Apps, SkipApplication(app)
    PROVE  VisitsDone'
<1> DEFINE f == ModuleOf[app]
<1>1. Visit(app) /\ UNCHANGED <<phase, listed, handlers, disk, staged, size, newer>>
  BY DEF SkipApplication, files
<1>2. ASSUME NEW a \in listed \cap Updatable, ModuleOf[a] = f, handlers[a] # None
      PROVE  ~UpdateNeeded(f)
  <2>1. app \in Updatable
    BY <1>2 DEF SharersUpdatable, UpdateInv, TypeOK
  <2>2. f \in visited => ~UpdateNeeded(f)
    BY <1>1, <1>2 DEF UpdateInv, VisitsDone, Visit
  <2> QED
    BY <2>1, <2>2 DEF SkipApplication
<1>3. UpdateNeeded(f)' = UpdateNeeded(f)
  BY <1>1 DEF UpdateNeeded
<1> QED
  BY <1>1, <1>2, <1>3, VisitKeepsDone

LEMMA UpdateKeepsDone ==
    ASSUME SharersUpdatable, UpdateInv, NEW app \in Apps, NEW outcome,
           UpdateApplication(app, outcome)
    PROVE  VisitsDone'
<1> USE ModuleAssumption DEF UpdateInv
<1> DEFINE f == ModuleOf[app]
<1>1. Visit(app) /\ UNCHANGED <<listed, size, staged>> /\ f \in Files
  BY DEF UpdateApplication, TypeOK
<1>2. \A a \in Apps : handlers'[a] = IF a \in Sharing(f)
                                      THEN SetApplicationModuleMethods(loads + 1, outcome \in {"init", "ok"})
                                      ELSE handlers[a]
  BY DEF UpdateApplication, Rebound
<1>3. \A g \in Files \ {f} : disk'[g] = disk[g] /\ newer'[g] = newer[g]
  BY DEF UpdateApplication, TypeOK
<1>4. outcome \in {"init", "ok"} => disk'[f] = staged[f] /\ ~newer'[f]
  BY <1>1 DEF UpdateApplication, FileAfter, TypeOK
<1>5. outcome \in {"init", "ok"} => ~UpdateNeeded(f)'
  BY <1>1, <1>4 DEF UpdateNeeded
<1>6. \A a \in listed : a \in Apps /\ ModuleOf[a] \in Files /\ (a \in Sharing(f) <=> ModuleOf[a] = f)
  BY DEF Sharing, TypeOK
<1> HIDE DEF f
<1>7. \A a \in listed : ModuleOf[a] = f /\ handlers'[a] # None => ~UpdateNeeded(f)'
  BY <1>2, <1>5, <1>6 DEF SetApplicationModuleMethods
<1>8. \A a \in listed : ModuleOf[a] # f =>
         handlers'[a] = handlers[a] /\ disk'[ModuleOf[a]] = disk[ModuleOf[a]]
             /\ newer'[ModuleOf[a]] = newer[ModuleOf[a]]
  BY <1>2, <1>3, <1>6
<1> QED
  BY <1>1, <1>7, <1>8, VisitKeepsDone DEF f

LEMMA StepUpdate == SharersUpdatable => (UpdateInv /\ [Next]_vars => UpdateInv')
<1> SUFFICES ASSUME SharersUpdatable, UpdateInv, [Next]_vars PROVE VisitsDone'
  BY StepType DEF UpdateInv
<1>1. CASE BeginRun \/ LoadApplication \/ LoadFails \/ LoadingDone \/ UpdateDone \/ Cleanup
  BY <1>1 DEF VisitsDone, BeginRun, LoadApplication, LoadFails, LoadingDone, UpdateDone, Cleanup
<1>2. ASSUME NEW f \in Files, StageUpdate(f) PROVE VisitsDone'
  BY <1>2 DEF VisitsDone, StageUpdate
<1>3. CASE BeginUpdate
  BY <1>3 DEF VisitsDone, BeginUpdate, GetAllApplicationSettings
<1>4. ASSUME NEW app \in Apps, AbortUpdate(app) PROVE VisitsDone'
  BY <1>4 DEF VisitsDone, AbortUpdate
<1>5. CASE UNCHANGED vars
  BY <1>5 DEF UpdateInv, VisitsDone, UpdateNeeded, vars, files
<1> QED
  BY <1>1, <1>2, <1>3, <1>4, <1>5, SkipKeepsDone, UpdateKeepsDone DEF Next

(* When UpdateApplications is done, in any Run and whatever has failed, no *)
(* application that can be called is left with an update file that is due, *)
(* if all applications of a module name an update file or none does.       *)
THEOREM UpdatesReachAll == SharersUpdatable => (Spec => []AllUpdated)
<1> SUFFICES ASSUME SharersUpdatable PROVE Spec => []AllUpdated
  OBVIOUS
<1>1. Init => UpdateInv
  BY InitType DEF Init, UpdateInv, VisitsDone
<1>2. UpdateInv /\ [Next]_vars => UpdateInv'
  BY StepUpdate
<1>3. UpdateInv => AllUpdated
  BY DEF UpdateInv, VisitsDone, AllUpdated, UpdateNeeded
<1> QED
  BY <1>1, <1>2, <1>3, PTL DEF Spec
============================================================================

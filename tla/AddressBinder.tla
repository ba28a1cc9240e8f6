---------------------------- MODULE AddressBinder ----------------------------
(***************************************************************************)
(* The listeners of a server, the ports they are bound to and the TLS      *)
(* contexts that belong to them, from the settings of its applications     *)
(* (PrepareApplications) through the Runs of a server that is told to stop *)
(* or to restart.                                                          *)
(*                                                                         *)
(* Two threads work on them without a lock: main, which binds the          *)
(* listeners in Run and closes them when its loop has ended, and the       *)
(* controller, which calls Stop or Restart and closes them as well.  Here  *)
(* a step is what one of them does to one of the three tables Ports,       *)
(* Transports and TlsData, or to one context; ServerLifecycle has the      *)
(* flags and events by which they wait for each other.                     *)
(*                                                                         *)
(* A listener and its context are named by the Run and the position in     *)
(* Options.ListenOptions, to which every Run adds those of all             *)
(* applications again.                                                     *)
(***************************************************************************)
EXTENDS Integers, Sequences, FiniteSets

CONSTANTS Applications, \* the settings of the applications in List's order: [port, tlsPort]
          Loadable,     \* which applications' certificates can be loaded at first: some sets
          Contested,    \* the ports that other processes may hold
          MaxRuns,      \* bound on the calls of Run
          MaxCommands   \* bound on the calls of Stop and Restart

None == 0   \* no port, or no application

ASSUME BinderAssumption ==
    /\ Applications \in Seq([port : Nat, tlsPort : Nat])
    /\ Loadable \subseteq SUBSET DOMAIN Applications /\ Contested \subseteq Nat
    /\ MaxRuns \in Nat \ {0} /\ MaxCommands \in Nat

Threads == {"main", "controller"}

VARIABLES at,          \* where each thread is
          run,         \* the current Run
          next,        \* the listener Bind comes to next
          active,      \* Controls.Active
          restart,     \* Controls.Restart
          loadable,    \* the applications whose certificate can be loaded
          options,     \* Options.ListenOptions: [port, tls, app], app the owner of a certificate
          ports,       \* AddressBinder::Ports
          sockets,     \* the listening sockets that are open
          transports,  \* Server::Transports
          tlsData,     \* OpenSslImpl::TlsData: the context of a port
          freeing,     \* the contexts a thread is about to free
          served,      \* history: the listeners that were ever in Transports
          since,       \* history: the first Run whose listeners may be in Transports
          denied,      \* history: the options of this Run whose port another process held
          freed,       \* history: how often each context made was freed
          commands,    \* history: the calls of Stop and Restart
          stepped,     \* history: the last Run in which the controller took a step
          overlap      \* history: both threads have been closing listeners

flags == <<active, restart>>
tables == <<ports, sockets, transports, tlsData>>
history == <<served, since, denied, freed, commands, stepped, overlap>>
binderVars == <<at, run, next, flags, loadable, options, tables, freeing, history>>

made == DOMAIN freed
Listener(id) == options[id[2]]

NoContexts == [port \in {} |-> 0]
Contexts(map) == {map[port] : port \in DOMAIN map}

BinderInit ==
    /\ at = [main |-> "prepare", controller |-> "idle"]
    /\ options = <<>>
    /\ run = 1 /\ next = 1 /\ active = FALSE /\ restart = FALSE
    /\ loadable \in Loadable
    /\ ports = {} /\ sockets = {} /\ transports = {} /\ tlsData = NoContexts
    /\ freeing = [t \in Threads |-> {}]
    /\ served = {} /\ since = 1 /\ denied = {} /\ freed = NoContexts
    /\ commands = 0 /\ stepped = 0 /\ overlap = FALSE

-----------------------------------------------------------------------------
(* What every step of a thread leaves behind in the history.  The threads  *)
(* overlap when one of them works on the tables while the other one is not *)
(* done with closing them.                                                 *)
Busy(t) == at[t] \notin {"idle", "prepare", "bind", "accept", "exited"}

Record(t) ==
    /\ stepped' = IF t = "controller" THEN run ELSE stepped
    /\ overlap' = (overlap \/ (t = "main" /\ Busy("controller") /\ at["main"] # "accept")
                           \/ (t = "controller" /\ at["main"] # "accept"))

Goto(t, place) == at' = [at EXCEPT ![t] = place]

WithPort == {app \in DOMAIN Applications : Applications[app].port # None}

(* PrepareApplications: for each application the option of its TLS port,   *)
(* then that of its plain one, whose IsTls nobody sets: it is what the     *)
(* memory held.                                                            *)
Option(port, tls, app) == IF port = None THEN <<>> ELSE <<[port |-> port, tls |-> tls, app |-> app]>>

OptionsOf(n, isTls) ==
    Option(Applications[n].tlsPort, TRUE, n) \o Option(Applications[n].port, n \in WithPort /\ isTls[n], None)

ListenOptionsOf(isTls) ==
    LET upTo[n \in 0..Len(Applications)] ==
            IF n = 0 THEN <<>> ELSE upTo[n - 1] \o OptionsOf(n, isTls)
    IN  upTo[Len(Applications)]

PrepareApplications ==
    /\ at["main"] = "prepare"
    /\ \E isTls \in [WithPort -> BOOLEAN] : options' = options \o ListenOptionsOf(isTls)
    /\ Goto("main", "bind")
    /\ Record("main")
    /\ UNCHANGED <<run, next, flags, loadable, tables, freeing, served, since, denied, freed, commands>>

(* InitSslFor makes a context, or none; without a certificate none.        *)
InitSslFor(i) == options[i].tls /\ options[i].app \in loadable

(* BindPort refuses a port in Ports, and the system one that a socket, of  *)
(* whichever Run, still listens to.                                        *)
Free(i) ==
    /\ options[i].port \notin ports
    /\ \A id \in sockets : Listener(id).port # options[i].port

(* A contested port may be held by another process.                        *)
BindPort(i, granted) == Free(i) /\ granted

(* Mutant: a context is added for a port that was not bound.               *)
AddSessionAnyway(i, bound) == InitSslFor(i)

AddSession(i, bound) == bound /\ InitSslFor(i)

(* Bind, one listener.  A context whose port is refused, and the socket of *)
(* a listener without a context, are kept by nobody.                       *)
Bind(granted) ==
    LET id == <<run, next>>
        l == options[next]
        bound == BindPort(next, granted)
        kept == bound /\ (l.tls => InitSslFor(next))
    IN  /\ at["main"] = "bind" /\ next <= Len(options)
        /\ granted \/ l.port \in Contested
        /\ denied' = IF Free(next) /\ ~granted THEN denied \cup {next} ELSE denied
        /\ freed' = IF InitSslFor(next)
                    THEN [c \in made \cup {id} |-> IF c = id THEN 0 ELSE freed[c]]
                    ELSE freed
        /\ ports' = IF bound THEN ports \cup {l.port} ELSE ports
        /\ sockets' = IF bound THEN sockets \cup {id} ELSE sockets
        /\ transports' = IF kept THEN transports \cup {id} ELSE transports
        /\ served' = IF kept THEN served \cup {id} ELSE served
        /\ tlsData' = IF AddSession(next, bound)
                      THEN [p \in DOMAIN tlsData \cup {l.port} |->
                               IF p = l.port THEN id ELSE tlsData[p]]
                      ELSE tlsData
        /\ next' = next + 1
        /\ Record("main")
        /\ UNCHANGED <<at, run, flags, loadable, options, freeing, since, commands>>

BindListener == \E granted \in BOOLEAN : Bind(granted)

(* Run gives up without any transport, or sets Controls.Active, and goes   *)
(* on to its loop, or, when the dispatcher's task cannot be created,       *)
(* returns as it is: listeners, ports and contexts stay for the next Run.  *)
Listen ==
    /\ at["main"] = "bind" /\ next > Len(options)
    /\ active' = (transports # {})
    /\ IF transports = {} THEN Goto("main", "clear")
       ELSE \E place \in {"accept", "again"} : Goto("main", place)
    /\ Record("main")
    /\ UNCHANGED <<run, next, restart, loadable, options, tables, freeing,
                   served, since, denied, freed, commands>>

(* Stop or Restart clears Controls.Active, whatever main is about.         *)
Command ==
    /\ at["controller"] = "idle" /\ at["main"] # "exited" /\ commands < MaxCommands
    /\ commands' = commands + 1
    /\ restart' \in BOOLEAN /\ active' = FALSE
    /\ Goto("controller", "close")
    /\ Record("controller")
    /\ UNCHANGED <<run, next, loadable, options, tables, freeing, served, since, denied,
                   freed>>

(* The loop of Run ends when Active is cleared, however far the controller *)
(* has come since.                                                         *)
QuitLoop ==
    /\ at["main"] = "accept" /\ ~active
    /\ Goto("main", "close")
    /\ Record("main")
    /\ UNCHANGED <<run, next, flags, loadable, options, tables, freeing,
                   served, since, denied, freed, commands>>

(* CloseListeners: the sockets first.                                      *)
CloseSockets(t) ==
    /\ at[t] = "close"
    /\ sockets' = sockets \ transports
    /\ Goto(t, "destroy")
    /\ Record(t)
    /\ UNCHANGED <<run, next, flags, loadable, options, ports, transports,
                   tlsData, freeing, served, since, denied, freed, commands>>

-----------------------------------------------------------------------------
(* OpenSslImpl::Clear, called from place "destroy" (Binder.Destroy) or     *)
(* "clear" (Server::Clear): the loop runs over the map as it finds it.     *)
After(place) == IF place = "destroy" THEN "ports" ELSE "again"
Within(place) == IF place = "destroy" THEN "destroying" ELSE "clearing"

BeginClear(t, place) ==
    /\ at[t] = place
    /\ freeing' = [freeing EXCEPT ![t] = Contexts(tlsData)]
    /\ Goto(t, IF tlsData = NoContexts THEN After(place) ELSE Within(place))
    /\ Record(t)
    /\ UNCHANGED <<run, next, flags, loadable, options, tables, served, since, denied, freed, commands>>

FreeContext(t, place) ==
    /\ at[t] = Within(place)
    /\ \E id \in freeing[t] :
          /\ freeing' = [freeing EXCEPT ![t] = @ \ {id}]
          /\ freed' = [freed EXCEPT ![id] = @ + 1]
    /\ Record(t)
    /\ UNCHANGED <<at, run, next, flags, loadable, options, tables, served, since, denied, commands>>

AllFreed(t) == freeing[t] = {}

(* Mutant: the freed contexts stay in the map.                             *)
ClearedKept == tlsData

Cleared == NoContexts

EndClear(t, place) ==
    /\ at[t] = Within(place) /\ AllFreed(t)
    /\ tlsData' = Cleared
    /\ freeing' = [freeing EXCEPT ![t] = {}]
    /\ Goto(t, After(place))
    /\ Record(t)
    /\ UNCHANGED <<run, next, flags, loadable, options, ports, sockets,
                   transports, served, since, denied, freed, commands>>

(* Ports.Clear in Binder.Destroy.                                          *)
ClearPorts(t) ==
    /\ at[t] = "ports"
    /\ ports' = {}
    /\ Goto(t, "copy")
    /\ Record(t)
    /\ UNCHANGED <<run, next, flags, loadable, options, sockets, transports,
                   tlsData, freeing, served, since, denied, freed, commands>>

(* ISsl::Destroy clears a copy of the object it is given: what is in the   *)
(* map then is freed and stays in it.  Main goes on with Transports.Clear  *)
(* and Server::Clear.                                                      *)
DestroyCopy(t) ==
    /\ at[t] = "copy"
    /\ freed' = [id \in made |-> IF id \in Contexts(tlsData) THEN freed[id] + 1 ELSE freed[id]]
    /\ transports' = IF t = "main" THEN {} ELSE transports
    /\ Goto(t, IF t = "main" THEN "clear" ELSE "idle")
    /\ Record(t)
    /\ UNCHANGED <<run, next, flags, loadable, options, ports, sockets,
                   tlsData, freeing, served, since, denied, commands>>

(* The loop of StartCommand.                                               *)
RunAgain ==
    /\ at["main"] = "again" /\ (active \/ restart) /\ run < MaxRuns
    /\ run' = run + 1 /\ next' = 1 /\ active' = FALSE /\ restart' = FALSE
    /\ since' = IF transports = {} THEN run + 1 ELSE since
    /\ denied' = {}
    /\ Goto("main", "prepare")
    /\ Record("main")
    /\ UNCHANGED <<loadable, options, tables, freeing, served, freed, commands>>

Exit ==
    /\ at["main"] = "again" /\ ~(active \/ restart)
    /\ Goto("main", "exited")
    /\ Record("main")
    /\ UNCHANGED <<run, next, flags, loadable, options, tables, freeing,
                   served, since, denied, freed, commands>>

(* Somebody replaces the certificates that could not be loaded, and then   *)
(* restarts the server.                                                    *)
Repair ==
    /\ at["main"] = "accept" /\ commands = 0 /\ loadable # DOMAIN Applications
    /\ loadable' = DOMAIN Applications
    /\ UNCHANGED <<at, run, next, flags, options, tables, freeing, history>>

BinderNext ==
    \/ PrepareApplications \/ BindListener \/ Listen \/ Command \/ QuitLoop \/ RunAgain \/ Exit \/ Repair
    \/ \E t \in Threads :
          \/ CloseSockets(t) \/ ClearPorts(t) \/ DestroyCopy(t)
          \/ \E place \in {"destroy", "clear"} :
                BeginClear(t, place) \/ FreeContext(t, place) \/ EndClear(t, place)

-----------------------------------------------------------------------------
BinderTypeOK ==
    /\ at["main"] \in {"prepare", "bind", "accept", "close", "destroy", "destroying", "ports", "copy",
                       "clear", "clearing", "again", "exited"}
    /\ at["controller"] \in {"idle", "close", "destroy", "destroying", "ports", "copy"}
    /\ run \in 1..MaxRuns /\ next \in 1..Len(options) + 1 /\ stepped \in 0..run
    /\ since \in 1..run
    /\ options \in Seq([port : Nat \ {None}, tls : BOOLEAN, app : {None} \cup DOMAIN Applications])
    /\ denied \subseteq DOMAIN options
    /\ transports \cup sockets \cup served \cup made \subseteq (1..run) \X DOMAIN options
    /\ \A port \in DOMAIN tlsData : tlsData[port] \in made /\ Listener(tlsData[port]).port = port

First(i) == \A j \in 1..i - 1 : options[j].port # options[i].port
Lost == sockets \ served

(* A port is not to be had for a listener as long as another socket of     *)
(* this server is open on it: a lost one, or one that a Run without a task *)
(* has left to another listener.                                           *)
Blocked(i) ==
    \E id \in sockets :
        Listener(id).port = options[i].port /\ (id \in Lost \/ (id[1] # run /\ id[2] # i))

(* The controller has not taken a step since the listeners were bound,     *)
(* those included that a Run without a task has left.                      *)
Untouched == stepped < since

(* While main accepts and the controller has not disturbed it, every       *)
(* listener works that no earlier one, no socket of this server and no     *)
(* other process keeps from its port, and whose certificate could be       *)
(* loaded: bad listeners do no harm to others.  Its socket, of this Run or *)
(* kept from one before, is open and in Transports, its port leads to its  *)
(* own live context, or to none if it is plain.                            *)
Works(id) ==
    /\ id \in sockets \cap transports
    /\ IF Listener(id).tls
       THEN /\ Listener(id).port \in DOMAIN tlsData
            /\ tlsData[Listener(id).port] = id /\ freed[id] = 0
       ELSE Listener(id).port \notin DOMAIN tlsData

ListenersWork ==
    at["main"] = "accept" /\ Untouched =>
        \A i \in DOMAIN options :
            /\ First(i) /\ ~Blocked(i) /\ i \notin denied
            /\ options[i].tls => <<run, i>> \in made
            => \E r \in 1..run : Works(<<r, i>>)

(* No context is freed twice, and a server that exits has freed the        *)
(* contexts and closed the sockets of all listeners that were served (see  *)
(* NothingLost for the others), unless the controller is still closing the *)
(* listeners when main does, or when main has bound them again.            *)
FreedOnce ==
    ~overlap =>
        /\ \A id \in made : freed[id] <= 1
        /\ at["main"] = "exited" /\ at["controller"] = "idle" =>
              /\ sockets \cap served = {}
              /\ \A id \in made \cap served : freed[id] = 1

(* Every context made and every socket opened is released at the exit.     *)
NothingLost ==
    at["main"] = "exited" /\ at["controller"] = "idle" /\ ~overlap =>
        sockets = {} /\ \A id \in made : freed[id] = 1

(* After a restart a listener works whose certificate has been replaced.   *)
RepairWorks ==
    at["main"] = "accept" /\ Untouched /\ run > 1 =>
        \A i \in DOMAIN options :
            First(i) /\ options[i].app \in loadable /\ i \notin denied =>
                \E r \in 1..run : <<r, i>> \in transports

(* "Binds found application ports" (ModuleManager.h): in a Run the         *)
(* controller has not disturbed a listener works for every port that is    *)
(* set for an application.                                                 *)
PortsBound ==
    at["main"] = "accept" /\ Untouched =>
        \A app \in WithPort : \E id \in transports : Listener(id).port = Applications[app].port

(* No context is freed twice, whatever the two threads do.                 *)
NeverFreedTwice == \A id \in made : freed[id] <= 1
=============================================================================

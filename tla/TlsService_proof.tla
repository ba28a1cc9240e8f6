-------------------------- MODULE TlsService_proof --------------------------
(***************************************************************************)
(* Proofs about the listeners and TLS contexts of AddressBinder, under the *)
(* specification of TlsService, whose jobs use them: the listeners that    *)
(* can work do, contexts are freed once, connections are served as their   *)
(* listener says, and a send tells the truth about the answer.             *)
(***************************************************************************)
EXTENDS TlsService, TLAPS, WellFoundedInduction, SequenceTheorems

-----------------------------------------------------------------------------
(* The types of places, listeners and contexts.                            *)

Working == {"close", "destroy", "destroying", "ports", "copy"}
MainPlaces == {"prepare", "bind", "accept", "clear", "clearing", "again", "exited"} \cup Working

(* The listeners that have been bound or tried so far.                     *)
Bound == {id \in Nat \X Nat : id[1] < run \/ (id[1] = run /\ id[2] < next)}

PlaceTypes ==
    /\ DOMAIN at = Threads /\ at["main"] \in MainPlaces /\ at["controller"] \in {"idle"} \cup Working
    /\ overlap \in BOOLEAN

ListenerTypes ==
    /\ run \in Nat /\ next \in Nat
    /\ sockets \subseteq Bound /\ served \subseteq Bound /\ transports \subseteq served

ContextTypes ==
    /\ made \subseteq Bound /\ freed \in [made -> Nat]
    /\ tlsData = [p \in DOMAIN tlsData |-> tlsData[p]] /\ Contexts(tlsData) \subseteq made
    /\ DOMAIN freeing = Threads /\ \A t \in Threads : freeing[t] \subseteq made

BinderInv == PlaceTypes /\ ListenerTypes /\ ContextTypes

-----------------------------------------------------------------------------
(* Who owns what while the threads do not overlap.                         *)

Clearing(t) == at[t] \in {"destroying", "clearing"}

OneCloses == at["controller"] # "idle" => at["main"] \in {"accept", "close"}

(* A context in the map is freed when the thread that clears it is done    *)
(* with it, and only then.                                                 *)
ContextsOwned ==
    /\ DOMAIN tlsData \subseteq ports
    /\ \A t \in Threads :
          /\ Clearing(t) => freeing[t] \subseteq Contexts(tlsData)
          /\ at[t] \in {"ports", "copy"} => Contexts(tlsData) = {}
    /\ \A id \in Contexts(tlsData) :
          freed[id] = IF \E t \in Threads : Clearing(t) /\ id \notin freeing[t] THEN 1 ELSE 0

NoneLost ==
    /\ \A id \in made : freed[id] <= 1
    /\ \A id \in made \cap served : id \in Contexts(tlsData) \/ freed[id] = 1

OwnerInv == ~overlap => OneCloses /\ ContextsOwned /\ NoneLost

-----------------------------------------------------------------------------
LEMMA ThreadsAre == Threads = {"main", "controller"} /\ "main" # "controller"
BY DEF Threads

(* What Goto does to the places of the threads.                            *)
LEMMA Goes ==
    ASSUME PlaceTypes, NEW t \in Threads, NEW place, Goto(t, place)
    PROVE  DOMAIN at' = Threads /\ at'[t] = place /\ \A u \in Threads \ {t} : at'[u] = at[u]
BY DEF PlaceTypes, Goto

LEMMA PlacesInit == BinderInit => BinderInv
<1> SUFFICES ASSUME BinderInit PROVE BinderInv
  OBVIOUS
<1> USE DEF BinderInit
<1>1. PlaceTypes
  BY DEF PlaceTypes, Threads, MainPlaces, Working
<1>2. ListenerTypes
  BY DEF ListenerTypes
<1>3. ContextTypes
  BY DEF ContextTypes, made, NoContexts, Contexts
<1> QED BY <1>1, <1>2, <1>3 DEF BinderInv

LEMMA PlacesStep == PlaceTypes /\ BinderNext => PlaceTypes'
<1> SUFFICES ASSUME PlaceTypes, BinderNext PROVE PlaceTypes'
  OBVIOUS
<1> USE ThreadsAre DEF MainPlaces, Working, history
<1>1. ASSUME NEW t \in Threads, NEW place, Goto(t, place), Record(t),
             t = "main" => place \in MainPlaces, t = "controller" => place \in {"idle"} \cup Working
      PROVE  PlaceTypes'
  <2>1. overlap' \in BOOLEAN
    BY <1>1 DEF Record
  <2>2. at'["main"] \in MainPlaces /\ at'["controller"] \in {"idle"} \cup Working /\ DOMAIN at' = Threads
    BY <1>1, Goes DEF PlaceTypes
  <2> QED BY <2>1, <2>2 DEF PlaceTypes
<1>2. ASSUME NEW t \in Threads, at' = at, Record(t)
      PROVE  PlaceTypes'
  BY <1>2 DEF PlaceTypes, Record
<1>3. CASE PrepareApplications \/ QuitLoop \/ RunAgain \/ Exit
  BY <1>1, <1>3 DEF PrepareApplications, QuitLoop, RunAgain, Exit
<1>4. CASE BindListener
  BY <1>2, <1>4 DEF BindListener, Bind
<1>5. CASE Listen
  BY <1>1, <1>5 DEF Listen
<1>6. CASE Command
  BY <1>1, <1>6 DEF Command
<1>7. CASE Repair
  BY <1>7 DEF Repair, PlaceTypes
<1>8. ASSUME NEW t \in Threads, CloseSockets(t) \/ ClearPorts(t) \/ DestroyCopy(t)
      PROVE  PlaceTypes'
  BY <1>1, <1>8 DEF CloseSockets, ClearPorts, DestroyCopy
<1>9. ASSUME NEW t \in Threads, NEW place \in {"destroy", "clear"},
             BeginClear(t, place) \/ FreeContext(t, place) \/ EndClear(t, place)
      PROVE  PlaceTypes'
  <2>1. t = "controller" => place = "destroy"
    BY <1>9 DEF BeginClear, FreeContext, EndClear, PlaceTypes, Within
  <2>2. CASE BeginClear(t, place)
    BY <1>1, <2>1, <2>2 DEF BeginClear, After, Within
  <2>3. CASE FreeContext(t, place)
    BY <1>2, <2>3 DEF FreeContext
  <2>4. CASE EndClear(t, place)
    BY <1>1, <2>1, <2>4 DEF EndClear, After
  <2> QED BY <1>9, <2>2, <2>3, <2>4
<1> QED BY <1>3, <1>4, <1>5, <1>6, <1>7, <1>8, <1>9 DEF BinderNext

LEMMA ListenersStep == ListenerTypes /\ BinderNext => ListenerTypes'
<1> SUFFICES ASSUME ListenerTypes, BinderNext PROVE ListenerTypes'
  OBVIOUS
<1> USE DEF ListenerTypes, tables, history
<1>1. CASE BindListener
  <2> DEFINE id == <<run, next>>
  <2>1. run' = run /\ next' = next + 1
    BY <1>1 DEF BindListener, Bind
  <2>2. Bound \subseteq Bound' /\ id \in Bound'
    BY <2>1 DEF Bound
  <2>3. sockets' \subseteq sockets \cup {id} /\ served' \subseteq served \cup {id} /\ transports' \subseteq served'
    BY <1>1 DEF BindListener, Bind
  <2> HIDE DEF id
  <2> QED BY <2>1, <2>2, <2>3
<1>2. CASE RunAgain
  <2>1. run' = run + 1 /\ next' = 1 /\ UNCHANGED <<sockets, served, transports>>
    BY <1>2 DEF RunAgain
  <2>2. Bound \subseteq Bound'
    BY <2>1 DEF Bound
  <2> QED BY <2>1, <2>2
<1>3. ASSUME UNCHANGED <<run, next, served>>, sockets' \subseteq sockets, transports' \subseteq transports
      PROVE  ListenerTypes'
  BY <1>3 DEF Bound
<1>4. CASE PrepareApplications \/ Listen \/ Command \/ QuitLoop \/ Exit \/ Repair
  BY <1>3, <1>4 DEF PrepareApplications, Listen, Command, QuitLoop, Exit, Repair
<1>5. ASSUME NEW t \in Threads, CloseSockets(t) \/ ClearPorts(t) \/ DestroyCopy(t)
      PROVE  ListenerTypes'
  BY <1>3, <1>5 DEF CloseSockets, ClearPorts, DestroyCopy
<1>6. ASSUME NEW t \in Threads, NEW place \in {"destroy", "clear"},
             BeginClear(t, place) \/ FreeContext(t, place) \/ EndClear(t, place)
      PROVE  ListenerTypes'
  BY <1>3, <1>6 DEF BeginClear, FreeContext, EndClear
<1> QED BY <1>1, <1>2, <1>4, <1>5, <1>6 DEF BinderNext

(* What BindListener does to the contexts.                                 *)
LEMMA BindsContext ==
    ASSUME BinderInv, BindListener
    PROVE  LET id == <<run, next>> IN
           /\ id \notin made /\ id \notin served /\ id \notin sockets
           /\ \/ UNCHANGED <<freed, tlsData>>
              \/ /\ UNCHANGED tlsData /\ id \notin served'
                 /\ freed' = [c \in made \cup {id} |-> IF c = id THEN 0 ELSE freed[c]]
              \/ /\ freed' = [c \in made \cup {id} |-> IF c = id THEN 0 ELSE freed[c]]
                 /\ \E port : /\ port \notin ports /\ ports' = ports \cup {port}
                              /\ tlsData' = [p \in DOMAIN tlsData \cup {port} |-> IF p = port THEN id ELSE tlsData[p]]
<1> DEFINE id == <<run, next>>
<1>g. PICK granted \in BOOLEAN : Bind(granted)
  BY DEF BindListener
<1>1. id \notin Bound
  BY DEF Bound, BinderInv, ListenerTypes
<1>2. id \notin made /\ id \notin served /\ id \notin sockets
  BY <1>1 DEF BinderInv, ListenerTypes, ContextTypes
<1>3. CASE ~InitSslFor(next)
  <2>1. UNCHANGED <<freed, tlsData>>
    BY <1>g, <1>3 DEF Bind, AddSession
  <2> QED BY <1>2, <2>1
<1>4. CASE InitSslFor(next)
  <2>1. freed' = [c \in made \cup {id} |-> IF c = id THEN 0 ELSE freed[c]]
    BY <1>g, <1>4 DEF Bind
  <2>2. CASE BindPort(next, granted)
    <3>1. options[next].port \notin ports
      BY <2>2 DEF BindPort, Free
    <3>2. ports' = ports \cup {options[next].port}
      BY <1>g, <2>2 DEF Bind
    <3>3. tlsData' = [p \in DOMAIN tlsData \cup {options[next].port} |->
                         IF p = options[next].port THEN id ELSE tlsData[p]]
      BY <1>g, <1>4, <2>2 DEF Bind, AddSession
    <3> QED BY <1>2, <2>1, <3>1, <3>2, <3>3
  <2>3. CASE ~BindPort(next, granted)
    <3>1. tlsData' = tlsData /\ served' = served
      BY <1>g, <2>3 DEF Bind, AddSession
    <3> QED BY <1>2, <2>1, <3>1
  <2> QED BY <2>2, <2>3
<1> QED BY <1>3, <1>4

LEMMA ContextsStep == BinderInv /\ BinderNext => ContextTypes'
<1> SUFFICES ASSUME BinderInv, BinderNext PROVE ContextTypes'
  OBVIOUS
<1> USE DEF tables, history, flags, made, Contexts
<1>0. /\ made \subseteq Bound /\ freed \in [made -> Nat]
      /\ tlsData = [p \in DOMAIN tlsData |-> tlsData[p]] /\ Contexts(tlsData) \subseteq made
      /\ DOMAIN freeing = Threads /\ \A t \in Threads : freeing[t] \subseteq made
      /\ run \in Nat /\ next \in Nat
  BY DEF BinderInv, ContextTypes, ListenerTypes
<1>1. CASE BindListener
  <2> DEFINE id == <<run, next>>
  <2>1. run' = run /\ next' = next + 1 /\ freeing' = freeing
    BY <1>1 DEF BindListener, Bind
  <2>2. Bound \subseteq Bound' /\ id \in Bound'
    BY <1>0, <2>1 DEF Bound
  <2>3. CASE UNCHANGED <<freed, tlsData>>
    BY <1>0, <2>1, <2>2, <2>3 DEF ContextTypes
  <2>4. CASE /\ UNCHANGED tlsData
             /\ freed' = [c \in made \cup {id} |-> IF c = id THEN 0 ELSE freed[c]]
    BY <1>0, <2>1, <2>2, <2>4 DEF ContextTypes
  <2>5. ASSUME NEW port,
               freed' = [c \in made \cup {id} |-> IF c = id THEN 0 ELSE freed[c]],
               tlsData' = [p \in DOMAIN tlsData \cup {port} |-> IF p = port THEN id ELSE tlsData[p]]
        PROVE  ContextTypes'
    BY <1>0, <2>1, <2>2, <2>5 DEF ContextTypes
  <2> QED BY <1>1, <2>3, <2>4, <2>5, BindsContext, ZenonT(20)
<1>2. CASE RunAgain
  <2>1. run' = run + 1 /\ next' = 1 /\ UNCHANGED <<freed, tlsData, freeing>>
    BY <1>2 DEF RunAgain
  <2>2. Bound \subseteq Bound'
    BY <1>0, <2>1 DEF Bound
  <2> QED BY <1>0, <2>1, <2>2 DEF ContextTypes
<1>3. ASSUME UNCHANGED <<run, next, freed, tlsData, freeing>>
      PROVE  ContextTypes'
  BY <1>0, <1>3 DEF ContextTypes, Bound
<1>4. CASE PrepareApplications \/ Listen \/ Command \/ QuitLoop \/ Exit \/ Repair
  BY <1>3, <1>4 DEF PrepareApplications, Listen, Command, QuitLoop, Exit, Repair
<1>5. ASSUME NEW t \in Threads, CloseSockets(t) \/ ClearPorts(t)
      PROVE  ContextTypes'
  BY <1>3, <1>5 DEF CloseSockets, ClearPorts
<1>6. ASSUME NEW t \in Threads, DestroyCopy(t)
      PROVE  ContextTypes'
  <2>1. UNCHANGED <<run, next, tlsData, freeing>>
    BY <1>6 DEF DestroyCopy
  <2>2. freed' \in [made -> Nat]
    BY <1>0, <1>6 DEF DestroyCopy
  <2> QED BY <1>0, <2>1, <2>2 DEF ContextTypes, Bound
<1>7. ASSUME NEW t \in Threads, NEW place \in {"destroy", "clear"}, BeginClear(t, place)
      PROVE  ContextTypes'
  <2>1. UNCHANGED <<run, next, tlsData, freed>> /\ freeing' = [freeing EXCEPT ![t] = Contexts(tlsData)]
    BY <1>7 DEF BeginClear
  <2> QED BY <1>0, <2>1 DEF ContextTypes, Bound
<1>8. ASSUME NEW t \in Threads, NEW place \in {"destroy", "clear"}, FreeContext(t, place)
      PROVE  ContextTypes'
  <2>1. PICK id \in freeing[t] : /\ freeing' = [freeing EXCEPT ![t] = @ \ {id}]
                                 /\ freed' = [freed EXCEPT ![id] = @ + 1]
    BY <1>8 DEF FreeContext
  <2>2. UNCHANGED <<run, next, tlsData>>
    BY <1>8 DEF FreeContext
  <2>3. freed' \in [made -> Nat]
    BY <1>0, <2>1
  <2>4. DOMAIN freeing' = Threads /\ \A u \in Threads : freeing'[u] \subseteq made
    BY <1>0, <2>1
  <2> QED BY <1>0, <2>2, <2>3, <2>4 DEF ContextTypes, Bound
<1>9. ASSUME NEW t \in Threads, NEW place \in {"destroy", "clear"}, EndClear(t, place)
      PROVE  ContextTypes'
  <2>1. UNCHANGED <<run, next, freed>> /\ freeing' = [freeing EXCEPT ![t] = {}] /\ tlsData' = NoContexts
    BY <1>9 DEF EndClear, Cleared
  <2> QED BY <1>0, <2>1 DEF ContextTypes, Bound, NoContexts
<1> QED BY <1>1, <1>2, <1>4, <1>5, <1>6, <1>7, <1>8, <1>9 DEF BinderNext

-----------------------------------------------------------------------------
(* While the threads do not overlap, a step of one of them finds the other *)
(* one out of its way.                                                     *)
LEMMA Alone ==
    ASSUME PlaceTypes, NEW t \in Threads, Record(t), ~overlap'
    PROVE  /\ ~overlap
           /\ t = "controller" => at["main"] = "accept"
           /\ t = "main" => at["main"] = "accept" \/ at["controller"] = "idle"
BY ThreadsAre DEF PlaceTypes, Record, Busy, Working

LEMMA OwnerInit == BinderInit => OwnerInv
BY ThreadsAre DEF BinderInit, OwnerInv, OneCloses, ContextsOwned, NoneLost, NoContexts, Contexts,
                  made, Clearing, Threads

LEMMA OneClosesStep ==
    ASSUME BinderInv, OwnerInv, BinderNext, ~overlap'
    PROVE  OneCloses'
<1> USE ThreadsAre DEF history, OneCloses, Working
<1>0. PlaceTypes
  BY DEF BinderInv
<1>1. ASSUME NEW t \in Threads, NEW place, Goto(t, place), Record(t),
             t = "main" => at["controller"] = "idle" \/ place \in {"accept", "close"}
      PROVE  OneCloses'
  BY <1>0, <1>1, Alone, Goes
<1>2. ASSUME NEW t \in Threads, at' = at, Record(t)
      PROVE  OneCloses'
  BY <1>0, <1>2, Alone DEF OwnerInv
<1>3. CASE QuitLoop
  BY <1>1, <1>3 DEF QuitLoop
<1>4. ASSUME NEW place, Goto("main", place), Record("main"), at["main"] # "accept"
      PROVE  OneCloses'
  BY <1>0, <1>1, <1>4, Alone
<1>5. CASE PrepareApplications \/ Listen \/ RunAgain \/ Exit
  BY <1>4, <1>5 DEF PrepareApplications, Listen, RunAgain, Exit
<1>6. CASE BindListener
  BY <1>2, <1>6 DEF BindListener, Bind
<1>7. CASE Command
  BY <1>1, <1>7 DEF Command
<1>8. CASE Repair
  BY <1>8 DEF Repair, OwnerInv
<1>9. ASSUME NEW t \in Threads, NEW place, Goto(t, place), Record(t), at[t] # "accept"
      PROVE  OneCloses'
  BY <1>1, <1>4, <1>9
<1>10. ASSUME NEW t \in Threads, CloseSockets(t) \/ ClearPorts(t) \/ DestroyCopy(t)
       PROVE  OneCloses'
  BY <1>9, <1>10 DEF CloseSockets, ClearPorts, DestroyCopy
<1>11. ASSUME NEW t \in Threads, NEW place \in {"destroy", "clear"},
              BeginClear(t, place) \/ FreeContext(t, place) \/ EndClear(t, place)
       PROVE  OneCloses'
  BY <1>2, <1>9, <1>11 DEF BeginClear, FreeContext, EndClear, Within
<1> QED BY <1>3, <1>5, <1>6, <1>7, <1>8, <1>10, <1>11 DEF BinderNext

LEMMA OwnedStep ==
    ASSUME BinderInv, OwnerInv, BinderNext, ~overlap'
    PROVE  ContextsOwned' /\ NoneLost'
<1> USE ThreadsAre DEF history, tables, flags, made
<1>0. /\ PlaceTypes /\ Contexts(tlsData) \subseteq made /\ freed \in [made -> Nat]
      /\ DOMAIN freeing = Threads /\ \A t \in Threads : freeing[t] \subseteq made
  BY DEF BinderInv, ContextTypes
<1>a. ASSUME NEW t \in Threads, Record(t), at[t] # "accept"
      PROVE  ~overlap /\ OneCloses /\ ContextsOwned /\ NoneLost /\ \A u \in Threads \ {t} : ~Clearing(u)
  <2>1. ~overlap /\ OneCloses /\ ContextsOwned /\ NoneLost
    BY <1>0, <1>a, Alone DEF OwnerInv
  <2>2. t = "controller" => at["main"] = "accept"
    BY <1>0, <1>a, Alone
  <2>3. t = "main" => at["controller"] = "idle"
    BY <1>0, <1>a, Alone
  <2> QED BY <2>1, <2>2, <2>3 DEF Clearing
<1>1. ASSUME NEW t \in Threads, NEW place, Goto(t, place), Record(t), UNCHANGED <<tlsData, freed, served>>,
             ports' = ports \/ Contexts(tlsData) = {},
             ~Clearing(t), at[t] # "accept", place \notin {"destroying", "clearing"},
             place \in {"ports", "copy"} => Contexts(tlsData) = {}
      PROVE  ContextsOwned' /\ NoneLost'
  <2>1. ContextsOwned /\ NoneLost /\ \A u \in Threads \ {t} : ~Clearing(u)
    BY <1>1, <1>a
  <2>2. at'[t] = place /\ \A u \in Threads \ {t} : at'[u] = at[u]
    BY <1>0, <1>1, Goes
  <2>3. \A u \in Threads : ~Clearing(u) /\ ~Clearing(u)'
    BY <1>1, <2>1, <2>2 DEF Clearing
  <2>4. DOMAIN tlsData' \subseteq ports'
    BY <1>1, <2>1 DEF ContextsOwned, Contexts
  <2>5. \A u \in Threads : at'[u] \in {"ports", "copy"} => Contexts(tlsData') = {}
    BY <1>1, <2>1, <2>2 DEF ContextsOwned
  <2>7. \A id \in Contexts(tlsData') : freed'[id] = 0
    BY <1>1, <2>1, <2>3 DEF ContextsOwned
  <2>8. ContextsOwned'
    BY <2>3, <2>4, <2>5, <2>7 DEF ContextsOwned
  <2>9. NoneLost'
    BY <1>1, <2>1 DEF NoneLost
  <2> QED BY <2>8, <2>9
<1>2. CASE PrepareApplications \/ Listen \/ Command \/ RunAgain \/ Exit
  BY <1>1, <1>2 DEF PrepareApplications, Listen, Command, RunAgain, Exit, Clearing
<1>12. CASE QuitLoop
  <2>1. /\ ContextsOwned /\ NoneLost /\ Goto("main", "close") /\ at["main"] = "accept"
        /\ UNCHANGED <<ports, tlsData, freed, served, freeing>>
    BY <1>0, <1>12, Alone DEF QuitLoop, OwnerInv
  <2>2. at'["main"] = "close" /\ at'["controller"] = at["controller"]
    BY <1>0, <2>1, Goes
  <2>3. \A u \in Threads : /\ Clearing(u)' <=> Clearing(u)
                           /\ at'[u] \in {"ports", "copy"} => at[u] \in {"ports", "copy"}
    BY <2>1, <2>2 DEF Clearing
  <2> QED BY <2>1, <2>2, <2>3 DEF ContextsOwned, NoneLost
<1>4. CASE Repair
  BY <1>4 DEF Repair, OwnerInv, ContextsOwned, NoneLost, Clearing
<1>5. ASSUME NEW t \in Threads, CloseSockets(t)
      PROVE  ContextsOwned' /\ NoneLost'
  BY <1>1, <1>5 DEF CloseSockets, Clearing
<1>6. ASSUME NEW t \in Threads, ClearPorts(t)
      PROVE  ContextsOwned' /\ NoneLost'
  <2>1. Contexts(tlsData) = {}
    BY <1>6, <1>a DEF ClearPorts, ContextsOwned
  <2> QED BY <1>1, <1>6, <2>1 DEF ClearPorts, Clearing
<1>7. ASSUME NEW t \in Threads, DestroyCopy(t)
      PROVE  ContextsOwned' /\ NoneLost'
  <2>1. Contexts(tlsData) = {}
    BY <1>7, <1>a DEF DestroyCopy, ContextsOwned
  <2>2. freed' = freed
    BY <1>0, <1>7, <2>1 DEF DestroyCopy
  <2> QED BY <1>1, <1>7, <2>1, <2>2 DEF DestroyCopy, Clearing
<1>8. ASSUME NEW t \in Threads, NEW place \in {"destroy", "clear"}, BeginClear(t, place)
      PROVE  ContextsOwned' /\ NoneLost'
  <2>1. CASE tlsData = NoContexts
    <3>1. Contexts(tlsData) = {}
      BY <2>1 DEF Contexts, NoContexts
    <3> QED BY <1>1, <1>8, <2>1, <3>1 DEF BeginClear, After, Clearing
  <2>2. CASE tlsData # NoContexts
    <3>1. /\ ContextsOwned /\ NoneLost /\ at[t] = place /\ \A u \in Threads : ~Clearing(u)
      BY <1>8, <1>a DEF BeginClear, Clearing
    <3>2. /\ Goto(t, Within(place)) /\ freeing' = [freeing EXCEPT ![t] = Contexts(tlsData)]
          /\ UNCHANGED <<ports, tlsData, freed, served>>
      BY <1>8, <2>2 DEF BeginClear
    <3>3. at'[t] = Within(place) /\ \A u \in Threads \ {t} : at'[u] = at[u]
      BY <1>0, <3>2, Goes
    <3>4. freeing'[t] = Contexts(tlsData) /\ \A u \in Threads \ {t} : ~Clearing(u)'
      BY <1>0, <3>1, <3>2, <3>3 DEF Clearing
    <3>5. \A id \in Contexts(tlsData') : freed'[id] = 0
      BY <3>1, <3>2 DEF ContextsOwned
    <3>6. ~\E id \in Contexts(tlsData') : \E u \in Threads : Clearing(u)' /\ id \notin freeing'[u]
      BY <3>2, <3>4
    <3>7. /\ DOMAIN tlsData' \subseteq ports'
          /\ \A u \in Threads : at'[u] \in {"ports", "copy"} => Contexts(tlsData') = {}
      BY <3>1, <3>2, <3>3 DEF ContextsOwned, Within
    <3>8. ContextsOwned'
      BY <3>2, <3>4, <3>5, <3>6, <3>7 DEF ContextsOwned
    <3>9. NoneLost'
      BY <3>1, <3>2 DEF NoneLost
    <3> QED BY <3>8, <3>9
  <2> QED BY <2>1, <2>2
<1>9. ASSUME NEW t \in Threads, NEW place \in {"destroy", "clear"}, FreeContext(t, place)
      PROVE  ContextsOwned' /\ NoneLost'
  <2>1. PICK id \in freeing[t] : /\ freeing' = [freeing EXCEPT ![t] = @ \ {id}]
                                 /\ freed' = [freed EXCEPT ![id] = @ + 1]
    BY <1>9 DEF FreeContext
  <2>2. /\ ContextsOwned /\ NoneLost /\ Clearing(t) /\ \A u \in Threads \ {t} : ~Clearing(u)
        /\ UNCHANGED <<at, ports, tlsData, served>>
    BY <1>9, <1>a DEF FreeContext, Clearing, Within
  <2>3. id \in Contexts(tlsData) /\ id \in made /\ freed[id] = 0
    BY <1>0, <2>2 DEF ContextsOwned
  <2>4. freed'[id] = 1 /\ made' = made /\ \A c \in made \ {id} : freed'[c] = freed[c]
    BY <1>0, <2>1, <2>3
  <2>5. freeing'[t] = freeing[t] \ {id}
    BY <1>0, <2>1
  <2>6. \A u \in Threads : Clearing(u)' <=> u = t
    BY <2>2 DEF Clearing
  <2>7. \A u \in Threads : Clearing(u) <=> u = t
    BY <2>2
  <2>8. \A c \in Contexts(tlsData) : freed[c] = IF c \notin freeing[t] THEN 1 ELSE 0
    BY <2>2, <2>7 DEF ContextsOwned
  <2>9. \A c \in Contexts(tlsData') : freed'[c] = IF c \notin freeing'[t] THEN 1 ELSE 0
    BY <1>0, <2>2, <2>3, <2>4, <2>5, <2>8
  <2>10. \A c \in Contexts(tlsData') :
            freed'[c] = IF \E u \in Threads : Clearing(u)' /\ c \notin freeing'[u] THEN 1 ELSE 0
    BY <2>6, <2>9
  <2>11. freeing'[t] \subseteq Contexts(tlsData')
    BY <2>2, <2>5 DEF ContextsOwned
  <2>12. ContextsOwned'
    BY <2>2, <2>6, <2>10, <2>11 DEF ContextsOwned
  <2>13. NoneLost'
    BY <2>2, <2>4 DEF NoneLost
  <2> QED BY <2>12, <2>13
<1>10. ASSUME NEW t \in Threads, NEW place \in {"destroy", "clear"}, EndClear(t, place)
       PROVE  ContextsOwned' /\ NoneLost'
  <2>1. /\ ContextsOwned /\ NoneLost /\ Clearing(t) /\ \A u \in Threads \ {t} : ~Clearing(u)
        /\ UNCHANGED <<ports, freed, served>> /\ tlsData' = NoContexts /\ freeing[t] = {}
        /\ freeing' = [freeing EXCEPT ![t] = {}] /\ Goto(t, After(place))
    BY <1>10, <1>a DEF EndClear, Clearing, Within, AllFreed, Cleared
  <2>2. Contexts(tlsData') = {} /\ DOMAIN tlsData' = {}
    BY <2>1 DEF Contexts, NoContexts
  <2>3. \A c \in Contexts(tlsData) : freed[c] = 1
    BY <2>1 DEF ContextsOwned
  <2>4. at'[t] = After(place) /\ \A u \in Threads \ {t} : at'[u] = at[u]
    BY <1>0, <2>1, Goes
  <2>5. \A u \in Threads : ~Clearing(u)'
    BY <2>1, <2>4 DEF Clearing, After
  <2>6. ContextsOwned'
    BY <2>2, <2>5 DEF ContextsOwned
  <2>7. NoneLost'
    BY <2>1, <2>3 DEF NoneLost
  <2> QED BY <2>6, <2>7
<1>11. CASE BindListener
  <2> DEFINE id == <<run, next>>
  <2>1. /\ ContextsOwned /\ NoneLost /\ \A u \in Threads : ~Clearing(u)
        /\ at' = at /\ at["main"] = "bind" /\ freeing' = freeing /\ at["controller"] = "idle"
    BY <1>11, <1>a DEF BindListener, Bind, Clearing, OneCloses
  <2>2. \A u \in Threads : ~Clearing(u)'
    BY <2>1 DEF Clearing
  <2>3. \A u \in Threads : at'[u] \notin {"ports", "copy"}
    BY <2>1
  <2>4. id \notin made /\ id \notin served /\ served' \subseteq served \cup {id} /\ ports \subseteq ports'
    BY <1>11, BindsContext DEF BindListener, Bind
  <2>5. \A c \in Contexts(tlsData) : freed[c] = 0
    BY <2>1 DEF ContextsOwned
  <2>6. ASSUME DOMAIN tlsData' \subseteq ports', \A c \in Contexts(tlsData') : freed'[c] = 0
        PROVE  ContextsOwned'
    BY <2>2, <2>3, <2>6 DEF ContextsOwned
  <2>7. CASE UNCHANGED <<freed, tlsData>>
    <3>1. ContextsOwned'
      BY <2>1, <2>4, <2>5, <2>6, <2>7 DEF ContextsOwned
    <3>2. NoneLost'
      BY <2>1, <2>4, <2>7 DEF NoneLost
    <3> QED BY <3>1, <3>2
  <2>8. CASE /\ UNCHANGED tlsData /\ id \notin served'
             /\ freed' = [c \in made \cup {id} |-> IF c = id THEN 0 ELSE freed[c]]
    <3>1. made' = made \cup {id} /\ freed'[id] = 0 /\ \A c \in made : freed'[c] = freed[c]
      BY <2>4, <2>8
    <3>2. ContextsOwned'
      BY <1>0, <2>1, <2>4, <2>5, <2>6, <2>8, <3>1 DEF ContextsOwned
    <3>3. NoneLost'
      BY <2>1, <2>4, <2>8, <3>1 DEF NoneLost
    <3> QED BY <3>2, <3>3
  <2>9. ASSUME NEW port, port \notin ports, ports' = ports \cup {port},
               freed' = [c \in made \cup {id} |-> IF c = id THEN 0 ELSE freed[c]],
               tlsData' = [p \in DOMAIN tlsData \cup {port} |-> IF p = port THEN id ELSE tlsData[p]]
        PROVE  ContextsOwned' /\ NoneLost'
    <3>1. made' = made \cup {id} /\ freed'[id] = 0 /\ \A c \in made : freed'[c] = freed[c]
      BY <2>4, <2>9
    <3>2. port \notin DOMAIN tlsData /\ DOMAIN tlsData \subseteq ports
      BY <2>1, <2>9 DEF ContextsOwned
    <3>3. DOMAIN tlsData' = DOMAIN tlsData \cup {port} /\ tlsData'[port] = id
          /\ \A p \in DOMAIN tlsData : tlsData'[p] = tlsData[p]
      BY <2>9, <3>2
    <3>4. Contexts(tlsData') = Contexts(tlsData) \cup {id}
      BY <3>3 DEF Contexts
    <3>5. ContextsOwned'
      BY <1>0, <2>5, <2>6, <2>9, <3>1, <3>2, <3>3, <3>4
    <3>6. NoneLost'
      BY <2>1, <2>4, <3>1, <3>4 DEF NoneLost
    <3> QED BY <3>5, <3>6
  <2> QED BY <1>11, <2>7, <2>8, <2>9, BindsContext
<1> QED BY <1>2, <1>4, <1>5, <1>6, <1>7, <1>8, <1>9, <1>10, <1>11, <1>12 DEF BinderNext

(* A job's steps leave the tables alone.                                   *)
LEMMA JobsOnly ==
    ASSUME NEW c \in Connections, JobNext(c)
    PROVE  UNCHANGED binderVars
<1>1. ASSUME NEW job, NEW result, Return(c, job, result) \/ EndTurn(c, job, result)
      PROVE  UNCHANGED binderVars
  BY <1>1 DEF Return, EndTurn, Step
<1>2. CASE SendSecure(c) \/ SendPlain(c)
  BY <1>1, <1>2 DEF SendSecure, SendPlain, Step
<1>3. CASE Accept(c) \/ Resolve(c)
  BY <1>3 DEF Accept, Resolve, Step
<1>4. CASE Attach(c) \/ Close(c)
  BY <1>4 DEF Attach, Close, Step
<1>5. CASE Handshake(c) \/ Receive(c)
  <2>1. ASSUME NEW new, Step(c, new)
        PROVE  UNCHANGED binderVars
    BY <2>1 DEF Step
  <2> QED BY <1>5, <2>1, Zenon DEF Handshake, Receive
<1> QED BY <1>2, <1>3, <1>4, <1>5 DEF JobNext

LEMMA OwnerStep == BinderInv /\ OwnerInv /\ [Next]_vars => (BinderInv /\ OwnerInv)'
<1> SUFFICES ASSUME BinderInv, OwnerInv, [Next]_vars PROVE (BinderInv /\ OwnerInv)'
  OBVIOUS
<1>1. CASE BinderNext
  <2>1. BinderInv'
    BY <1>1, PlacesStep, ListenersStep, ContextsStep DEF BinderInv
  <2>2. OwnerInv'
    BY <1>1, OneClosesStep, OwnedStep DEF OwnerInv
  <2> QED BY <2>1, <2>2
<1>2. CASE UNCHANGED binderVars
  BY <1>2 DEF binderVars, flags, tables, history, BinderInv, PlaceTypes, ListenerTypes, ContextTypes, Bound, made, Contexts,
              OwnerInv, OneCloses, ContextsOwned, NoneLost, Clearing
<1> QED BY <1>1, <1>2, JobsOnly DEF Next, vars

-----------------------------------------------------------------------------
(* Induction over the numbers up to a bound.  The induction theorems of    *)
(* the library take an operator; this form takes the set of the numbers of *)
(* which the claim holds, and follows from the order being well-founded.   *)

LEMMA LeastNumber ==
    ASSUME NEW T, T \subseteq Nat, T # {}
    PROVE  \E x \in T : \A y \in T : ~(y < x)
<1> DEFINE Less == OpToRel(<, Nat)
<1>1. IsWellFoundedOn(Less, Nat)
  BY NatLessThanWellFounded
<1>2. \E x \in T : \A y \in T : ~(<<y, x>> \in Less)
  <2> HIDE DEF Less
  <2> QED BY <1>1, WFMin
<1>3. ASSUME NEW x \in T, NEW y \in T
      PROVE  <<y, x>> \in Less <=> y < x
  BY DEF OpToRel
<1> HIDE DEF Less
<1> QED BY <1>2, <1>3

LEMMA Induct ==
    ASSUME NEW N \in Nat, NEW S, 0 \in S, \A n \in 0..N - 1 : n \in S => n + 1 \in S
    PROVE  \A n \in 0..N : n \in S
<1> DEFINE T == (0..N) \ S
<1> SUFFICES ASSUME T # {} PROVE FALSE
  OBVIOUS
<1>1. PICK x \in T : \A y \in T : ~(y < x)
  <2>1. T \subseteq Nat
    OBVIOUS
  <2> QED BY <2>1, LeastNumber
<1>2. x # 0 /\ x - 1 \in 0..N - 1
  OBVIOUS
<1>3. x - 1 \in S
  BY <1>1, <1>2
<1> QED BY <1>2, <1>3

(* The functions upTo that append a sequence for each number exist.        *)
LEMMA ConcatExists ==
    ASSUME NEW N \in Nat, NEW g
    PROVE  \E f : f = [n \in 0..N |-> IF n = 0 THEN <<>> ELSE f[n - 1] \o g[n]]
<1> DEFINE Good(m, f) == f = [n \in 0..m |-> IF n = 0 THEN <<>> ELSE f[n - 1] \o g[n]]
           S == {m \in Nat : \E f : Good(m, f)}
<1>1. 0 \in S
  <2>1. Good(0, [n \in 0..0 |-> <<>>])
    OBVIOUS
  <2> QED BY <2>1
<1>2. ASSUME NEW m \in 0..N - 1, m \in S
      PROVE  m + 1 \in S
  <2>0. m \in Nat /\ m + 1 \in Nat
    OBVIOUS
  <2>1. PICK f : Good(m, f)
    BY <1>2
  <2> DEFINE last == f[m] \o g[m + 1]
  <2> HIDE DEF last
  <2> DEFINE h == [n \in 0..m + 1 |-> IF n = m + 1 THEN last ELSE f[n]]
  <2>2. ASSUME NEW n \in 0..m + 1
        PROVE  h[n] = IF n = 0 THEN <<>> ELSE h[n - 1] \o g[n]
    <3>1. CASE n = m + 1
      <4>1. h[n] = last
        BY <3>1
      <4>2. h[n - 1] = f[m] /\ n # 0
        BY <3>1, <2>0
      <4> HIDE DEF h
      <4> QED BY <4>1, <4>2, <3>1 DEF last
    <3>2. CASE n = 0
      <4>1. h[0] = f[0] /\ f[0] = <<>>
        BY <2>0, <2>1
      <4> HIDE DEF h
      <4> QED BY <4>1, <3>2
    <3>3. CASE n \in 1..m
      <4>1. n \in 0..m /\ n - 1 \in 0..m + 1 /\ n # 0 /\ n # m + 1 /\ n - 1 # m + 1
        BY <3>3, <2>0
      <4>2. h[n] = f[n] /\ h[n - 1] = f[n - 1]
        BY <4>1
      <4>3. f[n] = f[n - 1] \o g[n]
        BY <2>1, <4>1
      <4> HIDE DEF h
      <4> QED BY <4>1, <4>2, <4>3
    <3> QED BY <3>1, <3>2, <3>3, <2>0
  <2>3. h = [n \in 0..m + 1 |-> h[n]]
    OBVIOUS
  <2> HIDE DEF h
  <2> QED BY <2>0, <2>2, <2>3
<1>4. \A m \in 0..N - 1 : m \in S => m + 1 \in S
  BY <1>2
<1>5. N \in S
  <2> HIDE DEF S
  <2>1. \A m \in 0..N : m \in S
    BY <1>1, <1>4, Induct
  <2> QED BY <2>1
<1> QED BY <1>5

-----------------------------------------------------------------------------
(* The listen options.                                                     *)

OptionTypes == [port : Nat \ {None}, tls : BOOLEAN, app : {None} \cup DOMAIN Applications]

(* The options of a Run, by induction over the applications.               *)
LEMMA OptionType ==
    ASSUME NEW port \in Nat, NEW tls \in BOOLEAN, NEW app \in {None} \cup DOMAIN Applications
    PROVE  Option(port, tls, app) \in Seq(OptionTypes)
<1>1. CASE port = None
  BY <1>1, EmptySeq DEF Option
<1>2. CASE port # None
  <2> DEFINE o == [port |-> port, tls |-> tls, app |-> app]
  <2>1. o \in OptionTypes
    BY <1>2 DEF OptionTypes
  <2>2. Option(port, tls, app) = <<o>>
    BY <1>2 DEF Option
  <2> HIDE DEF o
  <2> QED BY <2>1, <2>2
<1> QED BY <1>1, <1>2

LEMMA OptionsOfType ==
    ASSUME NEW isTls \in [WithPort -> BOOLEAN], NEW n \in DOMAIN Applications
    PROVE  OptionsOf(n, isTls) \in Seq(OptionTypes)
<1>1. Applications[n] \in [port : Nat, tlsPort : Nat]
  <2> DEFINE Settings == [port : Nat, tlsPort : Nat]
  <2>1. Applications \in Seq(Settings)
    BY BinderAssumption
  <2> HIDE DEF Settings
  <2>2. n \in 1..Len(Applications)
    BY <2>1
  <2>3. Applications[n] \in Settings
    BY <2>1, <2>2, ElementOfSeq
  <2> QED BY <2>3 DEF Settings
<1>2. (n \in WithPort /\ isTls[n]) \in BOOLEAN
  <2>1. n \in WithPort => isTls[n] \in BOOLEAN
    OBVIOUS
  <2> QED BY <2>1
<1>5. n \in {None} \cup DOMAIN Applications /\ None \in {None} \cup DOMAIN Applications /\ TRUE \in BOOLEAN
  OBVIOUS
<1>6. Applications[n].port \in Nat /\ Applications[n].tlsPort \in Nat
  BY <1>1
<1> DEFINE first == Option(Applications[n].tlsPort, TRUE, n)
           second == Option(Applications[n].port, n \in WithPort /\ isTls[n], None)
<1>3. first \in Seq(OptionTypes) /\ second \in Seq(OptionTypes)
  BY <1>2, <1>5, <1>6, OptionType
<1> HIDE DEF first, second
<1>4. first \o second \in Seq(OptionTypes)
  BY <1>3, ConcatProperties
<1> QED BY <1>4 DEF first, second, OptionsOf

LEMMA ListenOptionsType ==
    ASSUME NEW isTls \in [WithPort -> BOOLEAN]
    PROVE  ListenOptionsOf(isTls) \in Seq(OptionTypes)
<1> DEFINE N == Len(Applications)
           upTo == CHOOSE f : f = [n \in 0..N |-> IF n = 0 THEN <<>> ELSE f[n - 1] \o OptionsOf(n, isTls)]
           g == [n \in 0..N |-> OptionsOf(n, isTls)]
           S == {n \in Nat : upTo[n] \in Seq(OptionTypes)}
<1>1. N \in Nat /\ DOMAIN Applications = 1..N
  BY BinderAssumption
<1>2. PICK f : f = [n \in 0..N |-> IF n = 0 THEN <<>> ELSE f[n - 1] \o OptionsOf(n, isTls)]
  <2>1. PICK f : f = [n \in 0..N |-> IF n = 0 THEN <<>> ELSE f[n - 1] \o g[n]]
    <3> HIDE DEF g, N
    <3> QED BY <1>1, ConcatExists
  <2>2. \A n \in 0..N : g[n] = OptionsOf(n, isTls)
    OBVIOUS
  <2> HIDE DEF g, N
  <2> QED BY <2>1, <2>2
<1>3. upTo = [n \in 0..N |-> IF n = 0 THEN <<>> ELSE upTo[n - 1] \o OptionsOf(n, isTls)]
  BY <1>2
<1>4. ListenOptionsOf(isTls) = upTo[N]
  BY DEF ListenOptionsOf
<1> HIDE DEF upTo, N
<1>5. 0 \in S
  <2>1. upTo[0] = <<>>
    BY <1>1, <1>3
  <2>2. upTo[0] \in Seq(OptionTypes)
    BY <2>1, EmptySeq
  <2> QED BY <2>2
<1>6. \A n \in 0..N - 1 : n \in S => n + 1 \in S
  <2> SUFFICES ASSUME NEW n \in 0..N - 1, upTo[n] \in Seq(OptionTypes)
               PROVE  n + 1 \in S
    OBVIOUS
  <2>1. PICK k \in 1..N : k = n + 1
    BY <1>1
  <2>2. upTo[k] = upTo[n] \o OptionsOf(k, isTls)
    <3>1. k \in 0..N /\ k # 0 /\ k - 1 = n
      BY <1>1, <2>1
    <3>2. upTo[k] = upTo[k - 1] \o OptionsOf(k, isTls)
      BY <1>3, <3>1
    <3> QED BY <3>1, <3>2
  <2>3. OptionsOf(k, isTls) \in Seq(OptionTypes)
    BY <1>1, OptionsOfType
  <2> DEFINE u == upTo[n]  o == OptionsOf(k, isTls)
  <2> HIDE DEF u, o
  <2>4. u \o o \in Seq(OptionTypes)
    BY <2>3, ConcatProperties DEF u, o
  <2>5. upTo[k] \in Seq(OptionTypes)
    BY <2>2, <2>4 DEF u, o
  <2> QED BY <2>1, <2>5
<1>7. N \in S
  <2> HIDE DEF S
  <2>1. \A n \in 0..N : n \in S
    BY <1>1, <1>5, <1>6, Induct
  <2> QED BY <1>1, <2>1
<1> QED BY <1>4, <1>7

-----------------------------------------------------------------------------
(* The tables of the listeners, however the two threads meet.              *)

(* What the tables hold.  Options grow with every Run, and the listeners of *)
(* all Runs keep their names.                                              *)
TableTypes ==
    /\ run \in 1..MaxRuns /\ next \in 1..Len(options) + 1 /\ stepped \in 0..run /\ since \in 1..run
    /\ options \in Seq(OptionTypes) /\ denied \subseteq DOMAIN options
    /\ sockets \cup served \cup made \subseteq (1..run) \X DOMAIN options
    /\ at["main"] = "prepare" => next = 1
    /\ at["main"] = "accept" => next > Len(options)

(* The options of TLS listeners.                                           *)
Secure == {i \in DOMAIN options : options[i].tls}

(* Where main is when it does not close the listeners.                     *)
Open == {"prepare", "bind", "accept", "again"}

(* What main has emptied stays empty until it binds again, because the     *)
(* controller only takes away.                                             *)
Emptied ==
    /\ at["main"] \in {"destroy", "destroying", "ports", "copy"} => sockets \cap transports = {}
    /\ at["main"] \in {"clear", "clearing"} => transports = {}
    /\ at["main"] = "copy" => ports = {}

(* A port leads to a context of a TLS listener with this port.             *)
ContextsMatch == \A p \in DOMAIN tlsData : Listener(tlsData[p]).port = p /\ tlsData[p][2] \in Secure

(* How the tables hang together at any time, overlap or not: an open socket *)
(* is that of a listener in Transports, or a lost one, and a port is one of *)
(* theirs.                                                                 *)
Related ==
    /\ served \cap sockets \subseteq transports
    /\ \A p \in ports : \E id \in Lost \cup transports : Listener(id).port = p
    /\ ContextsMatch
    /\ at["main"] \in Open \cup {"exited"} => Contexts(tlsData) \subseteq transports

(* Of the listeners Bind has come to, those that can be served are.        *)
NoneLeftOut ==
    at["main"] \in {"bind", "accept"} /\ stepped < since =>
        \A i \in 1..next - 1 :
            First(i) /\ ~Blocked(i) /\ i \notin denied /\ (i \in Secure => <<run, i>> \in made) =>
                \E r \in 1..run : <<r, i>> \in transports

(* As long as the controller has not taken a step since the listeners were *)
(* bound, sockets, transports, ports and contexts are those of the same    *)
(* listeners.                                                              *)
Undisturbed ==
    at["main"] \in Open /\ stepped < since =>
        /\ transports \subseteq sockets
        /\ \A id \in transports : Listener(id).port \in ports
        /\ \A id, other \in transports : Listener(id).port = Listener(other).port => id = other
        /\ \A id \in transports :
              id[2] \in Secure => Listener(id).port \in DOMAIN tlsData /\ tlsData[Listener(id).port] = id
        /\ \A id \in Contexts(tlsData) : freed[id] = 0

(* A Run ends and the server exits with listeners only when the controller *)
(* has told it to in this Run, and then the threads overlap.               *)
GoesOnServing ==
    /\ at["main"] \in {"accept", "again"} /\ transports # {} /\ ~active => stepped = run
    /\ ~overlap => /\ at["main"] = "again" /\ transports # {} => active
                   /\ at["main"] = "exited" => transports = {}

TableInv == TableTypes /\ Emptied /\ Related /\ NoneLeftOut /\ Undisturbed /\ GoesOnServing

-----------------------------------------------------------------------------
(* Options only grow, so that an entry stays the one of its listener.      *)
LEMMA OptionsGrow ==
    ASSUME TableTypes, PrepareApplications
    PROVE  /\ options' \in Seq(OptionTypes) /\ Len(options') >= Len(options)
           /\ DOMAIN options \subseteq DOMAIN options'
           /\ \A i \in DOMAIN options : options'[i] = options[i]
<1>1. PICK isTls \in [WithPort -> BOOLEAN] : options' = options \o ListenOptionsOf(isTls)
  BY DEF PrepareApplications
<1> DEFINE new == ListenOptionsOf(isTls)
<1>2. new \in Seq(OptionTypes) /\ options \in Seq(OptionTypes)
  BY ListenOptionsType DEF TableTypes
<1> HIDE DEF new
<1>3. options' = options \o new
  BY <1>1 DEF new
<1>4. /\ options \o new \in Seq(OptionTypes) /\ Len(options \o new) = Len(options) + Len(new)
      /\ \A i \in 1..Len(options) : (options \o new)[i] = options[i]
  BY <1>2, ConcatProperties
<1>5. Len(new) \in Nat /\ Len(options) \in Nat /\ DOMAIN options = 1..Len(options)
      /\ DOMAIN (options \o new) = 1..Len(options \o new)
  BY <1>2, <1>4
<1> QED BY <1>3, <1>4, <1>5

LEMMA TableTypesStep ==
    ASSUME BinderInv, TableTypes, BinderNext
    PROVE  TableTypes'
<1> USE ThreadsAre DEF history, tables, flags, made
<1>0. /\ PlaceTypes /\ run \in 1..MaxRuns /\ next \in 1..Len(options) + 1 /\ stepped \in 0..run
      /\ since \in 1..run /\ denied \subseteq DOMAIN options
      /\ options \in Seq(OptionTypes) /\ MaxRuns \in Nat /\ Len(options) \in Nat
      /\ DOMAIN options = 1..Len(options)
      /\ sockets \cup served \cup made \subseteq (1..run) \X DOMAIN options
  BY BinderAssumption DEF BinderInv, TableTypes
<1>1. ASSUME UNCHANGED <<run, next, options, since, denied>>, NEW t \in Threads, Record(t) \/ UNCHANGED stepped,
             sockets' \cup served' \cup made' \subseteq sockets \cup served \cup made,
             at'["main"] \in {"prepare", "accept"} => at["main"] = at'["main"] \/ (at'["main"] = "accept" /\ next > Len(options))
      PROVE  TableTypes'
  <2>1. stepped' \in 0..run
    BY <1>0, <1>1 DEF Record
  <2>2. sockets' \cup served' \cup made' \subseteq (1..run) \X DOMAIN options
    BY <1>0, <1>1
  <2>3. (at'["main"] = "prepare" => next = 1) /\ (at'["main"] = "accept" => next > Len(options))
    BY <1>1 DEF TableTypes
  <2> QED BY <1>0, <1>1, <2>1, <2>2, <2>3 DEF TableTypes
<1>2. CASE PrepareApplications
  <2>1. /\ UNCHANGED <<run, next, stepped, since, denied, sockets, served, freed>> /\ at'["main"] = "bind" /\ next = 1
    BY <1>0, <1>2, Goes DEF PrepareApplications, Record, TableTypes
  <2>2. /\ options' \in Seq(OptionTypes) /\ Len(options') >= Len(options)
        /\ DOMAIN options \subseteq DOMAIN options' /\ Len(options') \in Nat
    BY <1>2, OptionsGrow
  <2>3. sockets' \cup served' \cup made' \subseteq (1..run') \X DOMAIN options'
    BY <1>0, <2>1, <2>2
  <2>4. next' \in 1..Len(options') + 1
    BY <2>1, <2>2
  <2> QED BY <1>0, <2>1, <2>2, <2>3, <2>4 DEF TableTypes
<1>3. CASE BindListener
  <2> DEFINE id == <<run, next>>
  <2>1. /\ UNCHANGED <<run, at, options, stepped, since>> /\ next' = next + 1 /\ at["main"] = "bind"
        /\ next <= Len(options) /\ denied' \subseteq denied \cup {next}
    BY <1>3 DEF BindListener, Bind, Record
  <2>2. id \in (1..run) \X DOMAIN options
    BY <1>0, <2>1
  <2>3. sockets' \subseteq sockets \cup {id} /\ served' \subseteq served \cup {id} /\ made' \subseteq made \cup {id}
    BY <1>3 DEF BindListener, Bind
  <2> HIDE DEF id
  <2>4. sockets' \cup served' \cup made' \subseteq (1..run) \X DOMAIN options
    BY <1>0, <2>2, <2>3
  <2> QED BY <1>0, <2>1, <2>4 DEF TableTypes
<1>4. CASE RunAgain
  <2>1. /\ UNCHANGED <<options, stepped, sockets, served, freed>> /\ run' = run + 1 /\ next' = 1 /\ run < MaxRuns
        /\ at'["main"] = "prepare" /\ denied' = {} /\ since' \in {since, run + 1}
    BY <1>0, <1>4, Goes DEF RunAgain, Record
  <2> QED BY <1>0, <2>1 DEF TableTypes
<1>5. CASE Listen
  <2>1. at'["main"] \in {"clear", "accept", "again"} /\ next > Len(options)
    BY <1>0, <1>5, Goes DEF Listen
  <2> QED BY <1>1, <1>5, <2>1 DEF Listen
<1>6. CASE Command \/ QuitLoop \/ Exit
  BY <1>0, <1>1, <1>6, Goes DEF Command, QuitLoop, Exit
<1>7. CASE Repair
  BY <1>1, <1>7 DEF Repair
<1>8. ASSUME NEW t \in Threads, CloseSockets(t) \/ ClearPorts(t)
      PROVE  TableTypes'
  BY <1>0, <1>1, <1>8, Goes DEF CloseSockets, ClearPorts
<1>9. ASSUME NEW t \in Threads, DestroyCopy(t)
      PROVE  TableTypes'
  BY <1>0, <1>1, <1>9, Goes DEF DestroyCopy
<1>10. ASSUME NEW t \in Threads, NEW place \in {"destroy", "clear"}, BeginClear(t, place) \/ EndClear(t, place)
       PROVE  TableTypes'
  BY <1>0, <1>1, <1>10, Goes DEF BeginClear, EndClear, After, Within
<1>11. ASSUME NEW t \in Threads, NEW place \in {"destroy", "clear"}, FreeContext(t, place)
       PROVE  TableTypes'
  <2>1. made' = made /\ at' = at
    BY <1>11 DEF FreeContext
  <2> QED BY <1>1, <1>11, <2>1 DEF FreeContext
<1> QED BY <1>2, <1>3, <1>4, <1>5, <1>6, <1>7, <1>8, <1>9, <1>10, <1>11 DEF BinderNext

LEMMA EmptiedStep ==
    ASSUME BinderInv, Emptied, BinderNext
    PROVE  Emptied'
<1> USE ThreadsAre DEF history, tables, flags
<1>0. PlaceTypes
  BY DEF BinderInv
<1>1. ASSUME NEW t \in Threads, NEW place, Goto(t, place),
             sockets' \subseteq sockets, transports' \subseteq transports, ports' \subseteq ports,
             tlsData' = tlsData \/ tlsData' = NoContexts,
             t = "main" => \/ place \in {"bind", "accept", "close"}
                           \/ place \in {"destroy", "destroying", "ports"} /\ sockets' \cap transports' = {}
                           \/ place = "copy" /\ sockets' \cap transports' = {} /\ ports' = {}
                           \/ place \in {"clear", "clearing"} /\ transports' = {}
                           \/ place \in {"again", "exited", "prepare"}
      PROVE  Emptied'
  <2>1. CASE t = "main"
    <3>1. at'["main"] = place
      BY <1>0, <1>1, <2>1, Goes
    <3> QED BY <1>1, <2>1, <3>1 DEF Emptied
  <2>2. CASE t = "controller"
    <3>1. at'["main"] = at["main"]
      BY <1>0, <1>1, <2>2, Goes
    <3> QED BY <1>1, <3>1 DEF Emptied
  <2> QED BY <2>1, <2>2
<1>2. CASE PrepareApplications \/ Listen \/ QuitLoop \/ Command \/ RunAgain \/ Exit
  BY <1>1, <1>2 DEF PrepareApplications, Listen, QuitLoop, Command, RunAgain, Exit, Emptied
<1>3. CASE BindListener
  BY <1>3 DEF BindListener, Bind, Emptied
<1>4. CASE Repair
  BY <1>4 DEF Repair, Emptied
<1>5. ASSUME NEW t \in Threads, CloseSockets(t)
      PROVE  Emptied'
  BY <1>1, <1>5 DEF CloseSockets
<1>6. ASSUME NEW t \in Threads, ClearPorts(t) \/ DestroyCopy(t)
      PROVE  Emptied'
  BY <1>1, <1>6 DEF ClearPorts, DestroyCopy, Emptied
<1>7. ASSUME NEW t \in Threads, NEW place \in {"destroy", "clear"}, FreeContext(t, place)
      PROVE  Emptied'
  BY <1>7 DEF FreeContext, Emptied
<1>8. ASSUME NEW t \in Threads, NEW place \in {"destroy", "clear"}, BeginClear(t, place) \/ EndClear(t, place)
      PROVE  Emptied'
  <2>1. CASE place = "destroy"
    BY <1>1, <1>8, <2>1 DEF BeginClear, EndClear, After, Within, Emptied, Cleared
  <2>2. CASE place = "clear"
    BY <1>1, <1>8, <2>2 DEF BeginClear, EndClear, After, Within, Emptied, Cleared
  <2> QED BY <2>1, <2>2
<1> QED BY <1>2, <1>3, <1>4, <1>5, <1>6, <1>7, <1>8 DEF BinderNext

(* The three outcomes of BindListener: refused, bound without being        *)
(* served, and served.                                                     *)
Refused == UNCHANGED <<ports, sockets, transports, served, tlsData>> /\ (Free(next) => next \in denied')

BoundInVain ==
    /\ Free(next) /\ next \in Secure /\ <<run, next>> \notin made'
    /\ ports' = ports \cup {options[next].port} /\ sockets' = sockets \cup {<<run, next>>}
    /\ UNCHANGED <<transports, served, tlsData>>

BoundAndServed ==
    /\ Free(next)
    /\ ports' = ports \cup {options[next].port} /\ sockets' = sockets \cup {<<run, next>>}
    /\ transports' = transports \cup {<<run, next>>} /\ served' = served \cup {<<run, next>>}
    /\ IF next \in Secure
       THEN /\ tlsData' = [p \in DOMAIN tlsData \cup {options[next].port} |->
                             IF p = options[next].port THEN <<run, next>> ELSE tlsData[p]]
            /\ freed' = [c \in made \cup {<<run, next>>} |-> IF c = <<run, next>> THEN 0 ELSE freed[c]]
       ELSE tlsData' = tlsData /\ freed' = freed

LEMMA Binds ==
    ASSUME BinderInv, TableTypes, BindListener
    PROVE  /\ next \in DOMAIN options
           /\ <<run, next>> \notin made \cup served \cup sockets \cup transports
           /\ UNCHANGED <<run, at, active, options, stepped, since>> /\ next' = next + 1
           /\ at["main"] = "bind" /\ made \subseteq made' /\ made' \subseteq made \cup {<<run, next>>}
           /\ \A c \in made : freed'[c] = freed[c]
           /\ denied \subseteq denied' /\ denied' \subseteq denied \cup {next}
           /\ Refused \/ BoundInVain \/ BoundAndServed
<1> DEFINE id == <<run, next>>
<1>g. PICK granted \in BOOLEAN : Bind(granted)
  BY DEF BindListener
<1> USE ThreadsAre DEF flags, tables
<1>1. next \in DOMAIN options
  BY <1>g DEF TableTypes, Bind
<1>s. options[next].tls <=> next \in Secure
  BY <1>1 DEF Secure
<1>2. id \notin made \cup served \cup sockets \cup transports
  BY BindsContext DEF BinderInv, ListenerTypes
<1>3. UNCHANGED <<run, at, active, options, stepped, since>> /\ next' = next + 1 /\ at["main"] = "bind"
  BY <1>g DEF Bind, Record
<1>4. \/ freed' = freed /\ ~InitSslFor(next)
      \/ freed' = [c \in made \cup {id} |-> IF c = id THEN 0 ELSE freed[c]] /\ InitSslFor(next)
  BY <1>g DEF Bind
<1>5. made \subseteq made' /\ made' \subseteq made \cup {id} /\ \A c \in made : freed'[c] = freed[c]
  BY <1>2, <1>4 DEF made
<1>a. ports' = IF BindPort(next, granted) THEN ports \cup {options[next].port} ELSE ports
  BY <1>g DEF Bind
<1>b. sockets' = IF BindPort(next, granted) THEN sockets \cup {id} ELSE sockets
  BY <1>g DEF Bind
<1>c. transports' = IF BindPort(next, granted) /\ (next \in Secure => InitSslFor(next)) THEN transports \cup {id} ELSE transports
  BY <1>g, <1>s DEF Bind
<1>d. served' = IF BindPort(next, granted) /\ (next \in Secure => InitSslFor(next)) THEN served \cup {id} ELSE served
  BY <1>g, <1>s DEF Bind
<1>e. tlsData' = IF BindPort(next, granted) /\ InitSslFor(next)
                 THEN [p \in DOMAIN tlsData \cup {options[next].port} |-> IF p = options[next].port THEN id ELSE tlsData[p]]
                 ELSE tlsData
  BY <1>g DEF Bind, AddSession
<1>f. denied' = IF Free(next) /\ ~granted THEN denied \cup {next} ELSE denied
  BY <1>g DEF Bind
<1>h. BindPort(next, granted) <=> Free(next) /\ granted
  BY DEF BindPort
<1>6. Refused \/ BoundInVain \/ BoundAndServed
  <2>1. CASE ~BindPort(next, granted)
    BY <1>a, <1>b, <1>c, <1>d, <1>e, <1>f, <1>h, <2>1 DEF Refused
  <2>2. CASE BindPort(next, granted) /\ next \in Secure /\ ~InitSslFor(next)
    <3>1. id \notin made'
      BY <1>2, <1>4, <2>2 DEF made
    <3> QED BY <1>a, <1>b, <1>c, <1>d, <1>e, <1>h, <2>2, <3>1 DEF BoundInVain
  <2>3. CASE BindPort(next, granted) /\ next \in Secure /\ InitSslFor(next)
    BY <1>4, <1>a, <1>b, <1>c, <1>d, <1>e, <1>h, <2>3 DEF BoundAndServed
  <2>4. CASE BindPort(next, granted) /\ next \notin Secure
    <3>1. ~InitSslFor(next)
      BY <1>s, <2>4 DEF InitSslFor
    <3> QED BY <1>4, <1>a, <1>b, <1>c, <1>d, <1>e, <1>h, <2>4, <3>1 DEF BoundAndServed
  <2> QED BY <2>1, <2>2, <2>3, <2>4
<1> QED BY <1>1, <1>2, <1>3, <1>5, <1>6, <1>f

LEMMA RelatedStep ==
    ASSUME BinderInv, TableTypes, Emptied, Related, BinderNext
    PROVE  Related'
<1> USE ThreadsAre DEF history, tables, flags, made, Open
<1>0. /\ PlaceTypes /\ transports \subseteq served /\ Contexts(tlsData) \subseteq made
      /\ sockets \cup served \cup made \subseteq (1..run) \X DOMAIN options
      /\ tlsData = [p \in DOMAIN tlsData |-> tlsData[p]]
  BY DEF BinderInv, ListenerTypes, ContextTypes, TableTypes
<1>1. ASSUME UNCHANGED <<options, transports, served, ports>>,
             sockets' = sockets \/ sockets' = sockets \ transports,
             tlsData' = tlsData \/ tlsData' = NoContexts,
             at'["main"] \in Open \cup {"exited"} => at["main"] \in Open \/ at' = at \/ at["main"] = "exited" \/ tlsData' = NoContexts
      PROVE  Related'
  <2>1. Lost' = Lost
    BY <1>0, <1>1 DEF Lost
  <2>2. \A id \in Lost \cup transports : Listener(id)' = Listener(id)
    BY <1>1 DEF Listener
  <2>3. served' \cap sockets' \subseteq transports'
    BY <1>1 DEF Related
  <2>4. \A p \in ports' : \E id \in Lost' \cup transports' : Listener(id)'.port = p
    BY <1>1, <2>1, <2>2 DEF Related
  <2>5. ContextsMatch'
    <3>1. CASE tlsData' = tlsData
      <4>1. Secure' = Secure
        BY <1>1 DEF Secure
      <4> QED BY <1>1, <3>1, <4>1 DEF Related, ContextsMatch, Listener
    <3>2. CASE tlsData' = NoContexts
      BY <3>2 DEF ContextsMatch, NoContexts
    <3> QED BY <1>1, <3>1, <3>2
  <2>6. at'["main"] \in Open \cup {"exited"} => Contexts(tlsData)' \subseteq transports'
    BY <1>1 DEF Related, Contexts, NoContexts
  <2> QED BY <2>3, <2>4, <2>5, <2>6 DEF Related
<1>2. CASE PrepareApplications
  <2>1. UNCHANGED <<sockets, served, transports, ports, tlsData>> /\ at["main"] = "prepare"
    BY <1>2 DEF PrepareApplications
  <2>2. /\ DOMAIN options \subseteq DOMAIN options' /\ \A i \in DOMAIN options : options'[i] = options[i]
    BY <1>2, OptionsGrow
  <2>3. \A id \in sockets \cup served \cup made : Listener(id)' = Listener(id) /\ (id[2] \in Secure => id[2] \in Secure')
    BY <1>0, <2>2 DEF Listener, Secure
  <2>4. Lost' = Lost
    BY <2>1 DEF Lost
  <2>5. \A p \in ports' : \E id \in Lost' \cup transports' : Listener(id)'.port = p
    BY <1>0, <2>1, <2>3, <2>4 DEF Related, Lost
  <2>6. ContextsMatch'
    <3>1. \A p \in DOMAIN tlsData : tlsData[p] \in made
      BY <1>0 DEF Contexts
    <3>2. ASSUME NEW p \in DOMAIN tlsData, NEW id, id = tlsData[p]
          PROVE  Listener(id)'.port = p /\ id[2] \in Secure'
      <4>1. Listener(id).port = p /\ id[2] \in Secure
        BY <3>2 DEF Related, ContextsMatch
      <4>2. id \in sockets \cup served \cup made
        BY <3>1, <3>2
      <4> QED BY <2>3, <4>1, <4>2
    <3> QED BY <2>1, <3>2 DEF ContextsMatch, Listener
  <2>7. Contexts(tlsData)' \subseteq transports'
    BY <2>1 DEF Related, Contexts
  <2> QED BY <2>1, <2>5, <2>6, <2>7 DEF Related
<1>3. CASE BindListener
  <2> DEFINE id == <<run, next>>
             port == options[next].port
  <2>1. /\ UNCHANGED <<run, at, options>> /\ at["main"] = "bind"
        /\ id \notin made \cup served \cup sockets \cup transports
        /\ Refused \/ BoundInVain \/ BoundAndServed
    BY <1>3, Binds
  <2>7. Secure' = Secure
    BY <2>1 DEF Secure
  <2>2. Listener(id) = options[next] /\ \A i : Listener(i)' = Listener(i)
    BY <2>1 DEF Listener
  <2>3. CASE Refused
    BY <1>1, <2>1, <2>3 DEF Refused
  <2>4. CASE BoundInVain
    <3>1. Lost' = Lost \cup {id} /\ UNCHANGED <<transports, served, tlsData>> /\ ports' = ports \cup {port}
      BY <2>1, <2>4 DEF BoundInVain, Lost
    <3>2. served' \cap sockets' \subseteq transports'
      BY <2>1, <2>4 DEF BoundInVain, Related
    <3>3. \A p \in ports' : \E i \in Lost' \cup transports' : Listener(i)'.port = p
      BY <2>2, <3>1 DEF Related
    <3> HIDE DEF id, port
    <3>4. Contexts(tlsData)' \subseteq transports'
      BY <2>1, <3>1 DEF Related, Contexts
    <3>5. ContextsMatch'
      BY <2>1, <2>7, <3>1 DEF Related, ContextsMatch, Listener
    <3> QED BY <2>1, <3>1, <3>2, <3>3, <3>4, <3>5 DEF Related
  <2>5. CASE BoundAndServed
    <3>1. /\ transports' = transports \cup {id} /\ served' = served \cup {id} /\ sockets' = sockets \cup {id}
          /\ ports' = ports \cup {port}
      BY <2>5 DEF BoundAndServed
    <3>2. \/ tlsData' = tlsData
          \/ /\ next \in Secure
             /\ tlsData' = [p \in DOMAIN tlsData \cup {port} |-> IF p = port THEN id ELSE tlsData[p]]
      BY <2>5 DEF BoundAndServed
    <3>9. id[2] = next
      OBVIOUS
    <3> HIDE DEF id
    <3>4. Lost' = Lost
      BY <2>1, <3>1 DEF Lost
    <3>5. served' \cap sockets' \subseteq transports'
      BY <2>1, <3>1 DEF Related
    <3>6. \A p \in ports' : \E i \in Lost' \cup transports' : Listener(i)'.port = p
      BY <2>2, <3>1, <3>4 DEF Related
    <3> HIDE DEF port
    <3>7. ContextsMatch'
      <4>1. Listener(id).port = port
        BY <2>2 DEF port
      <4>2. options[id[2]].port = port /\ options' = options
        BY <2>1, <4>1 DEF Listener
      <4> QED BY <2>7, <3>2, <3>9, <4>2 DEF Related, ContextsMatch, Listener
    <3>8. Contexts(tlsData)' \subseteq transports'
      BY <2>1, <3>1, <3>2 DEF Related, Contexts
    <3> QED BY <3>5, <3>6, <3>7, <3>8 DEF Related
  <2> QED BY <2>1, <2>3, <2>4, <2>5
<1>5. CASE Listen \/ Command \/ QuitLoop \/ RunAgain \/ Exit
  BY <1>0, <1>1, <1>5, Goes DEF Listen, Command, QuitLoop, RunAgain, Exit
<1>6. CASE Repair
  BY <1>1, <1>6 DEF Repair
<1>7. ASSUME NEW t \in Threads, CloseSockets(t)
      PROVE  Related'
  BY <1>0, <1>1, <1>7, Goes DEF CloseSockets
<1>8. ASSUME NEW t \in Threads, ClearPorts(t) \/ DestroyCopy(t)
      PROVE  Related'
  <2>1. /\ UNCHANGED <<run, options, served, tlsData, sockets>>
        /\ \/ ports' = {} /\ transports' = transports
           \/ ports' = ports /\ (transports' = transports \/ (transports' = {} /\ ports = {} /\ sockets \cap transports = {}))
    BY <1>8 DEF ClearPorts, DestroyCopy, Emptied
  <2>2. at'["main"] \in Open \cup {"exited"} => at["main"] \in Open \cup {"exited"} /\ transports' = transports
    BY <1>0, <1>8, Goes DEF ClearPorts, DestroyCopy
  <2>3. Lost' = Lost /\ \A i : Listener(i)' = Listener(i)
    BY <2>1 DEF Lost, Listener
  <2>4. served' \cap sockets' \subseteq transports'
    BY <2>1 DEF Related
  <2>5. \A p \in ports' : \E i \in Lost' \cup transports' : Listener(i)'.port = p
    BY <2>1, <2>3 DEF Related
  <2>6. at'["main"] \in Open \cup {"exited"} => Contexts(tlsData)' \subseteq transports'
    BY <2>1, <2>2 DEF Related, Contexts
  <2>7. ContextsMatch'
    BY <2>1 DEF Related, ContextsMatch, Listener, Secure
  <2> QED BY <2>1, <2>3, <2>4, <2>5, <2>6, <2>7 DEF Related
<1>9. ASSUME NEW t \in Threads, NEW place \in {"destroy", "clear"},
             BeginClear(t, place) \/ FreeContext(t, place) \/ EndClear(t, place)
      PROVE  Related'
  BY <1>0, <1>1, <1>9, Goes DEF BeginClear, FreeContext, EndClear, After, Within, Cleared
<1> QED BY <1>2, <1>3, <1>5, <1>6, <1>7, <1>8, <1>9 DEF BinderNext

(* Where main is after a step of its closing.                              *)
LEMMA MainCloses ==
    ASSUME BinderInv, Emptied, NEW place \in {"destroy", "clear"},
           \/ CloseSockets("main") \/ ClearPorts("main") \/ DestroyCopy("main")
           \/ BeginClear("main", place) \/ FreeContext("main", place) \/ EndClear("main", place)
    PROVE  /\ at["main"] \notin Open \cup {"exited"} /\ UNCHANGED <<run, since>>
           /\ \/ at'["main"] \notin Open \cup {"exited"}
              \/ at'["main"] = "again" /\ transports' = {} /\ tlsData' = NoContexts
<1> USE ThreadsAre DEF tables, flags
<1>0. PlaceTypes
  BY DEF BinderInv
<1>1. at["main"] \notin Open \cup {"exited"} /\ UNCHANGED <<run, since>>
  BY DEF CloseSockets, ClearPorts, DestroyCopy, BeginClear, FreeContext, EndClear, Within, Open
<1>2. ASSUME NEW to, Goto("main", to)
      PROVE  at'["main"] = to
  BY <1>0, <1>2, Goes
<1>3. CASE CloseSockets("main") \/ ClearPorts("main") \/ DestroyCopy("main")
  BY <1>1, <1>2, <1>3 DEF CloseSockets, ClearPorts, DestroyCopy, Open
<1>4. CASE FreeContext("main", place)
  BY <1>1, <1>4 DEF FreeContext
<1>5. CASE BeginClear("main", place) \/ EndClear("main", place)
  <2>1. CASE place = "destroy"
    BY <1>1, <1>2, <1>5, <2>1 DEF BeginClear, EndClear, After, Within, Open
  <2>2. CASE place = "clear"
    <3>1. transports' = {}
      BY <1>5, <2>2 DEF BeginClear, EndClear, Within, Emptied
    <3>2. \/ at'["main"] = "clearing"
          \/ at'["main"] = "again" /\ tlsData' = NoContexts
      BY <1>2, <1>5, <2>2 DEF BeginClear, EndClear, After, Within, Cleared
    <3> QED BY <1>1, <3>1, <3>2 DEF Open
  <2> QED BY <2>1, <2>2
<1> QED BY <1>1, <1>3, <1>4, <1>5

LEMMA NoneLeftOutStep ==
    ASSUME BinderInv, TableTypes, Emptied, Related, NoneLeftOut, Undisturbed, BinderNext
    PROVE  NoneLeftOut'
<1> USE ThreadsAre DEF history, tables, flags
<1>0. /\ PlaceTypes /\ transports \subseteq served /\ next \in Nat /\ run \in Nat
      /\ transports \subseteq Bound /\ sockets \subseteq Bound /\ since \in 1..run
  BY DEF BinderInv, ListenerTypes, TableTypes
<1>1. ASSUME UNCHANGED <<run, next, since, stepped, denied, options, transports, served, sockets, freed>>,
             at'["main"] \in {"bind", "accept"} => at["main"] \in {"bind", "accept"}
      PROVE  NoneLeftOut'
  <2>1. \A i : First(i)' = First(i) /\ Blocked(i)' = Blocked(i)
    BY <1>1 DEF First, Blocked, Listener, Lost
  <2>2. Secure' = Secure /\ made' = made
    BY <1>1 DEF Secure, made
  <2> QED BY <1>1, <2>1, <2>2 DEF NoneLeftOut
<1>a. ASSUME at'["main"] \notin {"bind", "accept"}
      PROVE  NoneLeftOut'
  BY <1>a DEF NoneLeftOut
<1>b. ASSUME Record("controller"), UNCHANGED <<run, since>>
      PROVE  NoneLeftOut'
  <2>1. ~(stepped' < since')
    BY <1>0, <1>b DEF Record
  <2> QED BY <2>1 DEF NoneLeftOut
<1>2. CASE PrepareApplications
  <2>1. next' = 1
    BY <1>2 DEF PrepareApplications, TableTypes
  <2> QED BY <2>1 DEF NoneLeftOut
<1>3. CASE BindListener
  <2> DEFINE id == <<run, next>>
  <2>1. /\ next \in DOMAIN options /\ UNCHANGED <<run, at, options, stepped, since>> /\ next' = next + 1
        /\ at["main"] = "bind" /\ id \notin made \cup served \cup sockets \cup transports
        /\ made' \subseteq made \cup {id} /\ denied \subseteq denied'
        /\ Refused \/ BoundInVain \/ BoundAndServed
    BY <1>3, Binds
  <2>2. /\ transports \subseteq transports' /\ Lost \subseteq Lost' /\ sockets \subseteq sockets'
    BY <2>1 DEF Refused, BoundInVain, BoundAndServed, Lost
  <2>3. Secure' = Secure
    BY <2>1 DEF Secure
  <2>4. SUFFICES ASSUME NEW i \in 1..next, First(i)', ~Blocked(i)', i \notin denied', stepped < since,
                        i \in Secure => <<run, i>> \in made'
                 PROVE  \E r \in 1..run : <<r, i>> \in transports'
    BY <1>0, <2>1, <2>3 DEF NoneLeftOut
  <2>5. First(i) /\ ~Blocked(i)
    BY <2>1, <2>2, <2>4 DEF First, Blocked, Listener
  <2>6. CASE i # next
    <3>1. i \in 1..next - 1 /\ <<run, i>> # id
      BY <1>0, <2>6
    <3>2. i \in Secure => <<run, i>> \in made
      BY <2>1, <2>4, <3>1
    <3>3. \E r \in 1..run : <<r, i>> \in transports
      BY <2>1, <2>4, <2>5, <3>1, <3>2 DEF NoneLeftOut
    <3> QED BY <2>2, <3>3
  <2>7. CASE i = next
    <3>1. transports \subseteq sockets
      BY <2>1, <2>4 DEF Undisturbed, Open
    <3>2. ASSUME NEW other \in sockets, Listener(other).port = options[next].port
          PROVE  \E r \in 1..run : <<r, i>> \in transports'
      <4>1. other \notin Lost /\ (other[1] = run \/ other[2] = i)
        BY <2>5, <2>7, <3>2 DEF Blocked
      <4>2. other \in transports
        BY <3>2, <4>1 DEF Related, Lost
      <4>3. other \in (1..run) \X DOMAIN options /\ DOMAIN options = 1..Len(options) /\ Len(options) \in Nat
        BY <3>2 DEF TableTypes
      <4>4. other[1] # run
        <5> SUFFICES ASSUME other[1] = run PROVE FALSE
          OBVIOUS
        <5>1. other[2] < next
          BY <1>0, <3>2 DEF Bound
        <5>2. other[2] \in 1..next - 1
          BY <1>0, <4>3, <5>1
        <5> QED BY <2>5, <2>7, <3>2, <5>2 DEF First, Listener
      <4>5. other = <<other[1], i>> /\ other[1] \in 1..run
        BY <4>1, <4>3, <4>4
      <4> QED BY <2>2, <4>2, <4>5
    <3>3. CASE \A other \in sockets : Listener(other).port # options[next].port
      <4>1. options[next].port \notin ports
        BY <3>1, <3>3 DEF Related, Lost
      <4>2. Free(next)
        BY <3>3, <4>1 DEF Free
      <4>3. ~BoundInVain
        BY <2>4, <2>7 DEF BoundInVain
      <4>4. BoundAndServed
        BY <2>1, <2>4, <2>7, <4>2, <4>3 DEF Refused
      <4>5. <<run, i>> \in transports' /\ run \in 1..run
        BY <1>0, <2>7, <4>4 DEF BoundAndServed
      <4> QED BY <4>5
    <3> QED BY <3>2, <3>3
  <2> QED BY <2>6, <2>7
<1>4. CASE RunAgain \/ QuitLoop \/ Exit
  BY <1>0, <1>a, <1>4, Goes DEF RunAgain, QuitLoop, Exit
<1>5. CASE Listen
  <2>1. stepped' = stepped
    BY <1>5 DEF Listen, Record
  <2> QED BY <1>1, <1>5, <2>1 DEF Listen
<1>6. CASE Command
  BY <1>b, <1>6 DEF Command
<1>7. CASE Repair
  BY <1>1, <1>7 DEF Repair
<1>8. ASSUME NEW t \in Threads, NEW place \in {"destroy", "clear"},
             \/ CloseSockets(t) \/ ClearPorts(t) \/ DestroyCopy(t)
             \/ BeginClear(t, place) \/ FreeContext(t, place) \/ EndClear(t, place)
      PROVE  NoneLeftOut'
  <2>1. CASE t = "controller"
    BY <1>b, <1>8, <2>1 DEF CloseSockets, ClearPorts, DestroyCopy, BeginClear, FreeContext, EndClear
  <2>2. CASE t = "main"
    <3>1. \/ CloseSockets("main") \/ ClearPorts("main") \/ DestroyCopy("main")
          \/ BeginClear("main", place) \/ FreeContext("main", place) \/ EndClear("main", place)
      BY <1>8, <2>2
    <3>2. at'["main"] \notin {"bind", "accept"}
      BY <3>1, MainCloses DEF Open
    <3> QED BY <1>a, <3>2
  <2> QED BY <2>1, <2>2
<1> QED BY <1>2, <1>3, <1>4, <1>5, <1>6, <1>7, <1>8 DEF BinderNext

LEMMA UndisturbedStep ==
    ASSUME BinderInv, TableTypes, Emptied, Related, Undisturbed, BinderNext
    PROVE  Undisturbed'
<1> USE ThreadsAre DEF history, tables, flags, Open
<1>0. /\ PlaceTypes /\ transports \subseteq served /\ transports \subseteq Bound /\ next \in Nat /\ run \in Nat
      /\ Contexts(tlsData) \subseteq made /\ stepped \in 0..run /\ since \in 1..run
      /\ sockets \cup served \cup made \subseteq (1..run) \X DOMAIN options
      /\ tlsData = [p \in DOMAIN tlsData |-> tlsData[p]]
  BY DEF BinderInv, ListenerTypes, ContextTypes, TableTypes
<1>1. ASSUME UNCHANGED <<since, options, ports, sockets, transports, tlsData, freed, stepped>>,
             at'["main"] \in Open => at["main"] \in Open
      PROVE  Undisturbed'
  <2>1. Secure' = Secure /\ \A id : Listener(id)' = Listener(id)
    BY <1>1 DEF Secure, Listener
  <2> QED BY <1>1, <2>1 DEF Undisturbed, Contexts, Listener
<1>a. ASSUME at'["main"] \notin Open \/ ~(stepped' < since')
      PROVE  Undisturbed'
  BY <1>a DEF Undisturbed
<1>b. ASSUME Record("controller"), UNCHANGED <<run, since>>
      PROVE  Undisturbed'
  BY <1>0, <1>a, <1>b DEF Record
<1>c. ASSUME transports' = {}, Contexts(tlsData)' = {}
      PROVE  Undisturbed'
  BY <1>c DEF Undisturbed
<1>2. CASE PrepareApplications
  <2>1. UNCHANGED <<since, ports, sockets, transports, tlsData, freed, stepped>> /\ at["main"] = "prepare"
    BY <1>2 DEF PrepareApplications, Record
  <2>2. /\ DOMAIN options \subseteq DOMAIN options' /\ \A i \in DOMAIN options : options'[i] = options[i]
    BY <1>2, OptionsGrow
  <2>3. \A id \in transports : Listener(id)' = Listener(id) /\ (id[2] \in Secure' <=> id[2] \in Secure)
    <3>1. \A id \in transports : id[2] \in DOMAIN options
      BY <1>0
    <3> QED BY <2>2, <3>1 DEF Listener, Secure
  <2>4. SUFFICES ASSUME stepped < since PROVE Undisturbed'
    BY <1>a, <2>1
  <2>5. /\ transports \subseteq sockets
        /\ \A i \in transports : Listener(i).port \in ports
        /\ \A i, other \in transports : Listener(i).port = Listener(other).port => i = other
        /\ \A i \in transports :
              i[2] \in Secure => Listener(i).port \in DOMAIN tlsData /\ tlsData[Listener(i).port] = i
        /\ \A i \in Contexts(tlsData) : freed[i] = 0
    BY <2>1, <2>4 DEF Undisturbed
  <2>6. Contexts(tlsData)' = Contexts(tlsData)
    BY <2>1 DEF Contexts
  <2> QED BY <2>1, <2>3, <2>5, <2>6 DEF Undisturbed
<1>3. CASE BindListener
  <2> DEFINE id == <<run, next>>
             port == options[next].port
  <2>1. /\ next \in DOMAIN options /\ UNCHANGED <<run, at, options, stepped, since>> /\ at["main"] = "bind"
        /\ id \notin made \cup served \cup sockets \cup transports
        /\ \A c \in made : freed'[c] = freed[c]
        /\ Refused \/ BoundInVain \/ BoundAndServed
    BY <1>3, Binds
  <2>2. SUFFICES ASSUME stepped < since
                 PROVE  Undisturbed'
    BY <1>a, <2>1
  <2>3. /\ transports \subseteq sockets
        /\ \A i \in transports : Listener(i).port \in ports
        /\ \A i, other \in transports : Listener(i).port = Listener(other).port => i = other
        /\ \A i \in transports :
              i[2] \in Secure => Listener(i).port \in DOMAIN tlsData /\ tlsData[Listener(i).port] = i
        /\ \A i \in Contexts(tlsData) : freed[i] = 0
    BY <2>1, <2>2 DEF Undisturbed
  <2>4. Secure' = Secure /\ (\A i : Listener(i)' = Listener(i)) /\ Listener(id) = options[next]
    BY <2>1 DEF Secure, Listener
  <2>5. CASE Refused \/ BoundInVain
    <3>1. UNCHANGED <<transports, tlsData>> /\ ports \subseteq ports' /\ sockets \subseteq sockets'
      BY <2>5 DEF Refused, BoundInVain
    <3>2. \A i \in Contexts(tlsData)' : freed'[i] = 0
      BY <1>0, <2>1, <2>3, <3>1 DEF Contexts
    <3> QED BY <2>1, <2>3, <2>4, <3>1, <3>2 DEF Undisturbed, Listener
  <2>6. CASE BoundAndServed
    <3>1. /\ transports' = transports \cup {id} /\ sockets' = sockets \cup {id} /\ ports' = ports \cup {port}
          /\ port \notin ports
      BY <2>6 DEF BoundAndServed, Free
    <3>2. \/ tlsData' = tlsData /\ next \notin Secure
          \/ tlsData' = [p \in DOMAIN tlsData \cup {port} |-> IF p = port THEN id ELSE tlsData[p]]
             /\ freed'[id] = 0
      BY <2>6 DEF BoundAndServed
    <3>3. Listener(id).port = port /\ id[2] = next
      BY <2>4
    <3> HIDE DEF id, port
    <3>4. \A i \in transports : Listener(i).port # port
      BY <2>3, <3>1
    <3>5. transports' \subseteq sockets' /\ (\A i \in transports' : Listener(i)'.port \in ports')
      BY <2>3, <2>4, <3>1, <3>3
    <3>6. \A i, other \in transports' : Listener(i)'.port = Listener(other)'.port => i = other
      BY <2>3, <2>4, <3>1, <3>3, <3>4
    <3>7. \A i \in transports' :
             i[2] \in Secure' => Listener(i)'.port \in DOMAIN tlsData' /\ tlsData'[Listener(i)'.port] = i
      BY <2>3, <2>4, <3>1, <3>2, <3>3, <3>4
    <3>8. \A i \in Contexts(tlsData)' : freed'[i] = 0
      BY <1>0, <2>1, <2>3, <3>2 DEF Contexts
    <3> QED BY <2>1, <3>5, <3>6, <3>7, <3>8 DEF Undisturbed, Listener
  <2> QED BY <2>1, <2>5, <2>6
<1>4. CASE QuitLoop \/ Exit
  BY <1>0, <1>a, <1>4, Goes DEF QuitLoop, Exit
<1>5. CASE RunAgain
  <2>1. UNCHANGED <<options, ports, sockets, transports, tlsData, freed, stepped>> /\ at["main"] = "again"
    BY <1>5 DEF RunAgain, Record
  <2>2. CASE transports = {}
    <3>1. Contexts(tlsData)' = {}
      BY <2>1, <2>2 DEF Related, Contexts
    <3> QED BY <1>c, <2>1, <2>2, <3>1
  <2>3. CASE transports # {}
    BY <1>1, <1>5, <2>1, <2>3 DEF RunAgain
  <2> QED BY <2>2, <2>3
<1>9. CASE Listen
  BY <1>1, <1>9 DEF Listen, Record
<1>6. CASE Command
  BY <1>b, <1>6 DEF Command
<1>7. CASE Repair
  BY <1>1, <1>7 DEF Repair
<1>8. ASSUME NEW t \in Threads, NEW place \in {"destroy", "clear"},
             \/ CloseSockets(t) \/ ClearPorts(t) \/ DestroyCopy(t)
             \/ BeginClear(t, place) \/ FreeContext(t, place) \/ EndClear(t, place)
      PROVE  Undisturbed'
  <2>1. CASE t = "controller"
    BY <1>b, <1>8, <2>1 DEF CloseSockets, ClearPorts, DestroyCopy, BeginClear, FreeContext, EndClear
  <2>2. CASE t = "main"
    <3>1. \/ CloseSockets("main") \/ ClearPorts("main") \/ DestroyCopy("main")
          \/ BeginClear("main", place) \/ FreeContext("main", place) \/ EndClear("main", place)
      BY <1>8, <2>2
    <3>2. at'["main"] \notin Open \/ (transports' = {} /\ tlsData' = NoContexts)
      BY <3>1, MainCloses
    <3>3. CASE at'["main"] \notin Open
      BY <1>a, <3>3
    <3>4. CASE transports' = {} /\ tlsData' = NoContexts
      <4>1. Contexts(tlsData)' = {}
        BY <3>4 DEF Contexts, NoContexts
      <4> QED BY <1>c, <3>4, <4>1
    <3> QED BY <3>2, <3>3, <3>4
  <2> QED BY <2>1, <2>2
<1> QED BY <1>2, <1>3, <1>4, <1>5, <1>6, <1>7, <1>8, <1>9 DEF BinderNext

LEMMA ServingStep ==
    ASSUME BinderInv, TableTypes, Emptied, Related, GoesOnServing, BinderNext
    PROVE  GoesOnServing'
<1> USE ThreadsAre DEF history, tables, flags
<1>0. /\ PlaceTypes /\ stepped \in 0..run /\ run \in Nat
  BY DEF BinderInv, ListenerTypes, TableTypes
<1>1. ASSUME at'["main"] \notin {"accept", "again", "exited"}
      PROVE  GoesOnServing'
  BY <1>1 DEF GoesOnServing
<1>2. CASE PrepareApplications \/ QuitLoop \/ RunAgain
  BY <1>0, <1>1, <1>2, Goes DEF PrepareApplications, QuitLoop, RunAgain
<1>3. CASE BindListener
  BY <1>1, <1>3 DEF BindListener, Bind
<1>4. CASE Listen
  <2>1. at'["main"] \in {"clear", "accept", "again"} /\ (transports # {} => active') /\ UNCHANGED transports
    BY <1>0, <1>4, Goes DEF Listen
  <2> QED BY <2>1 DEF GoesOnServing
<1>5. CASE Exit
  <2>1. at'["main"] = "exited" /\ at["main"] = "again" /\ ~active /\ transports' = transports
    BY <1>0, <1>5, Goes DEF Exit
  <2>2. ~overlap' => ~overlap
    BY <1>0, <1>5, Alone DEF Exit
  <2> QED BY <2>1, <2>2 DEF GoesOnServing
<1>6. CASE Repair
  BY <1>6 DEF Repair, GoesOnServing
<1>7. ASSUME Record("controller"), UNCHANGED run, at'["main"] = at["main"]
      PROVE  GoesOnServing'
  <2>1. stepped' = run'
    BY <1>7 DEF Record
  <2>2. ~overlap' => at["main"] = "accept"
    BY <1>0, <1>7, Alone
  <2> QED BY <1>7, <2>1, <2>2 DEF GoesOnServing
<1>8. CASE Command
  BY <1>0, <1>7, <1>8, Goes DEF Command
<1>9. ASSUME NEW t \in Threads, NEW place \in {"destroy", "clear"},
             \/ CloseSockets(t) \/ ClearPorts(t) \/ DestroyCopy(t)
             \/ BeginClear(t, place) \/ FreeContext(t, place) \/ EndClear(t, place)
      PROVE  GoesOnServing'
  <2>1. CASE t = "controller"
    <3>1. Record("controller") /\ UNCHANGED run
      BY <1>9, <2>1 DEF CloseSockets, ClearPorts, DestroyCopy, BeginClear, FreeContext, EndClear
    <3>2. ASSUME NEW to, Goto("controller", to)
          PROVE  at'["main"] = at["main"]
      BY <1>0, <3>2, Goes
    <3>3. at'["main"] = at["main"]
      BY <1>9, <2>1, <3>2 DEF CloseSockets, ClearPorts, DestroyCopy, BeginClear, FreeContext, EndClear
    <3> QED BY <1>7, <3>1, <3>3
  <2>2. CASE t = "main"
    <3>1. \/ CloseSockets("main") \/ ClearPorts("main") \/ DestroyCopy("main")
          \/ BeginClear("main", place) \/ FreeContext("main", place) \/ EndClear("main", place)
      BY <1>9, <2>2
    <3>2. \/ at'["main"] \notin {"accept", "again", "exited"}
          \/ at'["main"] = "again" /\ transports' = {}
      BY <3>1, MainCloses DEF Open
    <3> QED BY <1>1, <3>2 DEF GoesOnServing
  <2> QED BY <2>1, <2>2
<1> QED BY <1>2, <1>3, <1>4, <1>5, <1>6, <1>8, <1>9 DEF BinderNext

LEMMA TableInit == BinderInit => TableInv
<1> SUFFICES ASSUME BinderInit PROVE TableInv
  OBVIOUS
<1> USE DEF BinderInit
<1>1. TableTypes
  BY BinderAssumption, EmptySeq DEF TableTypes, made, NoContexts
<1>2. Emptied /\ Related /\ NoneLeftOut /\ Undisturbed /\ GoesOnServing
  BY DEF Emptied, Related, ContextsMatch, NoneLeftOut, Undisturbed, GoesOnServing, NoContexts, Contexts
<1> QED BY <1>1, <1>2 DEF TableInv

LEMMA TableStep == BinderInv /\ TableInv /\ BinderNext => TableInv'
BY TableTypesStep, EmptiedStep, RelatedStep, NoneLeftOutStep, UndisturbedStep, ServingStep DEF TableInv

(* The context a port leads to while the controller has not begun to close. *)
LEMMA OwnContext ==
    ASSUME BinderInv, TableInv, at["main"] \in Open, stepped < since, NEW id \in transports
    PROVE  /\ ContextOf(Listener(id).port) = IF id[2] \in Secure THEN {id} ELSE {}
           /\ \A other \in ContextOf(Listener(id).port) : freed[other] = 0
<1> DEFINE port == Listener(id).port
<1>1. /\ \A i, other \in transports : Listener(i).port = Listener(other).port => i = other
      /\ id[2] \in Secure => port \in DOMAIN tlsData /\ tlsData[port] = id
      /\ \A i \in Contexts(tlsData) : freed[i] = 0
      /\ \A i \in Contexts(tlsData) : i \in transports
      /\ \A p \in DOMAIN tlsData : Listener(tlsData[p]).port = p /\ tlsData[p][2] \in Secure
  BY DEF TableInv, Undisturbed, Related, ContextsMatch, Open
<1>2. ASSUME port \in DOMAIN tlsData
      PROVE  tlsData[port] = id /\ id[2] \in Secure /\ freed[id] = 0
  <2>1. tlsData[port] \in Contexts(tlsData)
    BY <1>2 DEF Contexts
  <2>2. Listener(tlsData[port]).port = port
    BY <1>1, <1>2
  <2>3. tlsData[port] = id
    BY <1>1, <2>1, <2>2
  <2> QED BY <1>1, <1>2, <2>1, <2>3
<1> HIDE DEF port
<1>3. CASE port \in DOMAIN tlsData
  BY <1>2, <1>3 DEF ContextOf, port
<1>4. CASE port \notin DOMAIN tlsData
  BY <1>1, <1>4 DEF ContextOf, port
<1> QED BY <1>3, <1>4

LEMMA TablesImplied == BinderInv /\ TableInv => BinderTypeOK /\ ListenersWork
<1> SUFFICES ASSUME BinderInv, TableInv PROVE BinderTypeOK /\ ListenersWork
  OBVIOUS
<1>1. BinderTypeOK
  <2>1. /\ at["main"] \in {"prepare", "bind", "accept", "close", "destroy", "destroying", "ports", "copy",
                           "clear", "clearing", "again", "exited"}
        /\ at["controller"] \in {"idle", "close", "destroy", "destroying", "ports", "copy"}
    BY DEF BinderInv, PlaceTypes, MainPlaces, Working
  <2>2. /\ run \in 1..MaxRuns /\ next \in 1..Len(options) + 1 /\ stepped \in 0..run
        /\ since \in 1..run /\ denied \subseteq DOMAIN options
        /\ options \in Seq([port : Nat \ {None}, tls : BOOLEAN, app : {None} \cup DOMAIN Applications])
    BY DEF TableInv, TableTypes, OptionTypes
  <2>3. transports \cup sockets \cup served \cup made \subseteq (1..run) \X DOMAIN options
    BY DEF BinderInv, ListenerTypes, TableInv, TableTypes
  <2>4. \A port \in DOMAIN tlsData : tlsData[port] \in made /\ Listener(tlsData[port]).port = port
    BY DEF BinderInv, ContextTypes, Contexts, TableInv, Related, ContextsMatch
  <2> QED BY <2>1, <2>2, <2>3, <2>4 DEF BinderTypeOK
<1>2. ListenersWork
  <2> SUFFICES ASSUME at["main"] = "accept", stepped < since, NEW i \in DOMAIN options,
                      First(i), ~Blocked(i), i \notin denied, options[i].tls => <<run, i>> \in made
               PROVE  \E r \in 1..run : Works(<<r, i>>)
    BY DEF ListenersWork, Untouched
  <2>1. i \in 1..next - 1
    BY DEF TableInv, TableTypes
  <2>2. options[i].tls <=> i \in Secure
    BY DEF Secure
  <2>3. PICK r \in 1..run : <<r, i>> \in transports
    BY <2>1, <2>2 DEF TableInv, NoneLeftOut
  <2> DEFINE id == <<r, i>>
  <2>4. Listener(id) = options[i] /\ id[2] = i
    BY DEF Listener
  <2>8. id \in transports
    BY <2>3
  <2> HIDE DEF id
  <2>9. id \in sockets
    BY <2>8 DEF TableInv, Undisturbed, Open
  <2> DEFINE port == Listener(id).port
  <2>5. /\ ContextOf(port) = IF i \in Secure THEN {id} ELSE {}
        /\ \A other \in ContextOf(port) : freed[other] = 0
    BY <2>4, <2>8, OwnContext DEF Open
  <2> HIDE DEF port
  <2>6. CASE i \in Secure
    <3>1. port \in DOMAIN tlsData /\ tlsData[port] = id /\ freed[id] = 0
      BY <2>5, <2>6 DEF ContextOf
    <3>2. Works(id)
      BY <2>2, <2>4, <2>6, <2>8, <2>9, <3>1 DEF Works, port
    <3> QED BY <3>2 DEF id
  <2>7. CASE i \notin Secure
    <3>1. port \notin DOMAIN tlsData
      BY <2>5, <2>7 DEF ContextOf
    <3>2. Works(id)
      BY <2>2, <2>4, <2>7, <2>8, <2>9, <3>1 DEF Works, port
    <3> QED BY <3>2 DEF id
  <2> QED BY <2>6, <2>7
<1> QED BY <1>1, <1>2

LEMMA OwnerImplies == TableInv /\ OwnerInv => FreedOnce
<1> SUFFICES ASSUME TableInv, OwnerInv, ~overlap
             PROVE  /\ \A id \in made : freed[id] <= 1
                    /\ at["main"] = "exited" /\ at["controller"] = "idle" =>
                          /\ sockets \cap served = {}
                          /\ \A id \in made \cap served : freed[id] = 1
  BY DEF FreedOnce
<1>1. NoneLost
  BY DEF OwnerInv
<1>2. CASE at["main"] = "exited"
  <2>1. transports = {} /\ Contexts(tlsData) = {} /\ sockets \cap served = {}
    BY <1>2 DEF TableInv, Related, GoesOnServing, Open
  <2> QED BY <1>1, <2>1 DEF NoneLost
<1>3. CASE at["main"] # "exited"
  BY <1>1, <1>3 DEF NoneLost
<1> QED BY <1>2, <1>3

-----------------------------------------------------------------------------
(* What a client has been sent.                                            *)

Places == Nat \X Nat

Last == Len(Answer)

LEMMA AnswerFacts ==
    /\ Last \in Nat \ {0} /\ DOMAIN Answer = 1..Last
    /\ \A k \in DOMAIN Answer : Answer[k] \in Nat \ {0} /\ Answer[k] < Width - 1
    /\ Width \in Nat /\ Width > 2
<1>1. Last \in Nat /\ DOMAIN Answer = 1..Last /\ \A k \in DOMAIN Answer : Answer[k] \in Nat \ {0}
  BY ServiceAssumption DEF Last
<1>2. Last # 0
  BY ServiceAssumption, EmptySeq DEF Last
<1>3. 1 \in DOMAIN Answer
  BY <1>1, <1>2
<1>4. Answer[1] \in Nat \ {0} /\ Answer[1] < Width - 1 /\ Width \in Nat
  BY <1>1, <1>3, ServiceAssumption
<1> QED BY <1>1, <1>2, <1>4, ServiceAssumption

(* The first pieces of an answer, one after the other.                     *)
LEMMA UpToExists == UpTo = [k \in 0..Len(Answer) |-> IF k = 0 THEN <<>> ELSE UpTo[k - 1] \o Piece(k, 0, Answer[k])]
<1> DEFINE g == [k \in 0..Len(Answer) |-> Piece(k, 0, Answer[k])]
<1>1. Len(Answer) \in Nat
  BY ServiceAssumption
<1>2. PICK f : f = [k \in 0..Len(Answer) |-> IF k = 0 THEN <<>> ELSE f[k - 1] \o g[k]]
  <2> HIDE DEF g
  <2> QED BY <1>1, ConcatExists
<1>3. f = [k \in 0..Len(Answer) |-> IF k = 0 THEN <<>> ELSE f[k - 1] \o Piece(k, 0, Answer[k])]
  <2>1. \A k \in 0..Len(Answer) : g[k] = Piece(k, 0, Answer[k])
    OBVIOUS
  <2> HIDE DEF g
  <2> QED BY <1>2, <2>1
<1>4. UpTo = CHOOSE h : h = [k \in 0..Len(Answer) |-> IF k = 0 THEN <<>> ELSE h[k - 1] \o Piece(k, 0, Answer[k])]
  BY DEF UpTo
<1> HIDE DEF g
<1> QED BY <1>3, <1>4, Zenon

LEMMA UpToStep ==
    /\ UpTo[0] = <<>>
    /\ \A m \in 0..Last - 1 : UpTo[m + 1] = UpTo[m] \o Piece(m + 1, 0, Answer[m + 1])
<1> DEFINE F == UpTo
<1>0. Last \in Nat
  BY AnswerFacts
<1>2. F = [k \in 0..Last |-> IF k = 0 THEN <<>> ELSE F[k - 1] \o Piece(k, 0, Answer[k])]
  BY UpToExists DEF Last
<1> HIDE DEF F
<1>3. F[0] = <<>>
  BY <1>0, <1>2
<1>4. ASSUME NEW k \in 1..Last
      PROVE  F[k] = F[k - 1] \o Piece(k, 0, Answer[k])
  <2>1. k \in 0..Last /\ k # 0
    BY <1>0
  <2> QED BY <1>2, <2>1
<1>5. ASSUME NEW m \in 0..Last - 1
      PROVE  F[m + 1] = F[m] \o Piece(m + 1, 0, Answer[m + 1])
  <2>1. PICK k \in 1..Last : k = m + 1
    BY <1>0
  <2>2. k - 1 = m
    BY <2>1
  <2> QED BY <2>1, <2>2, <1>4
<1> QED BY <1>3, <1>5 DEF F

LEMMA PieceIs ==
    ASSUME NEW k \in DOMAIN Answer, NEW from \in Nat, NEW units \in Nat
    PROVE  /\ Piece(k, from, from + units) \in Seq(Places) /\ Len(Piece(k, from, from + units)) = units
           /\ \A j \in 1..units : Piece(k, from, from + units)[j] = <<k, from + j>>
<1>1. k \in Nat /\ from + units - from = units
  BY AnswerFacts
<1> DEFINE P == Piece(k, from, from + units)
<1>2. P = [j \in 1..units |-> <<k, from + j>>]
  BY <1>1 DEF Piece
<1> HIDE DEF P
<1>3. P \in Seq(Places) /\ Len(P) = units /\ \A j \in 1..units : P[j] = <<k, from + j>>
  <2>1. \A j \in 1..units : <<k, from + j>> \in Places
    BY <1>1 DEF Places
  <2>2. P \in [1..units -> Places]
    BY <1>2, <2>1
  <2>3. P \in Seq(Places)
    BY <2>2, IsASeq
  <2>4. DOMAIN P = 1..units
    BY <1>2
  <2>5. Len(P) = units
    BY <2>3, <2>4, LenProperties
  <2>6. \A j \in 1..units : P[j] = <<k, from + j>>
    BY <1>2
  <2> QED BY <2>3, <2>5, <2>6
<1> QED BY <1>3 DEF P

LEMMA UpToOne ==
    ASSUME NEW m \in 0..Last - 1, UpTo[m] \in Seq(Places)
    PROVE  /\ UpTo[m + 1] \in Seq(Places)
           /\ Len(UpTo[m + 1]) = Len(UpTo[m]) + Answer[m + 1]
           /\ \A j \in 1..Len(UpTo[m]) : UpTo[m + 1][j] = UpTo[m][j]
           /\ \A j \in 1..Answer[m + 1] : UpTo[m + 1][Len(UpTo[m]) + j] = <<m + 1, j>>
<1> DEFINE P == Piece(m + 1, 0, 0 + Answer[m + 1])
           u == UpTo[m]
           w == UpTo[m + 1]
           size == Answer[m + 1]
<1>1. m + 1 \in DOMAIN Answer /\ size \in Nat /\ 0 + size = size
  BY AnswerFacts
<1>2. P \in Seq(Places) /\ Len(P) = size /\ \A j \in 1..size : P[j] = <<m + 1, 0 + j>>
  BY <1>1, PieceIs
<1>3. w = u \o P
  BY <1>1, UpToStep
<1>4. u \in Seq(Places) /\ Len(u) \in Nat
  OBVIOUS
<1> HIDE DEF P, u, w, size
<1>5. /\ u \o P \in Seq(Places) /\ Len(u \o P) = Len(u) + Len(P)
      /\ \A j \in 1..Len(u) + Len(P) : (u \o P)[j] = IF j <= Len(u) THEN u[j] ELSE P[j - Len(u)]
  BY <1>2, <1>4, ConcatProperties
<1>6. /\ w \in Seq(Places) /\ Len(w) = Len(u) + size
      /\ \A j \in 1..Len(u) + size : w[j] = IF j <= Len(u) THEN u[j] ELSE P[j - Len(u)]
  BY <1>2, <1>3, <1>5
<1>7. \A j \in 1..Len(u) : w[j] = u[j]
  BY <1>1, <1>4, <1>6
<1>8. ASSUME NEW j \in 1..size
      PROVE  w[Len(u) + j] = <<m + 1, j>>
  <2>1. Len(u) + j \in 1..Len(u) + size /\ ~(Len(u) + j <= Len(u)) /\ Len(u) + j - Len(u) = j /\ 0 + j = j
    BY <1>1, <1>4
  <2>2. w[Len(u) + j] = P[j]
    BY <1>6, <2>1
  <2> QED BY <1>2, <2>1, <2>2
<1> QED BY <1>6, <1>7, <1>8 DEF u, w, size

(* The first n pieces begin with the first m of them.                      *)
Begins(m, n) ==
    /\ Len(UpTo[m]) \in Nat /\ Len(UpTo[m]) <= Len(UpTo[n])
    /\ \A j \in 1..Len(UpTo[m]) : UpTo[n][j] = UpTo[m][j]

LEMMA UpToBegins ==
    ASSUME NEW n \in 0..Last
    PROVE  UpTo[n] \in Seq(Places) /\ \A m \in 0..n : Begins(m, n)
<1> DEFINE S == {i \in Nat : UpTo[i] \in Seq(Places) /\ \A m \in 0..i : Begins(m, i)}
<1>0. Last \in Nat
  BY AnswerFacts
<1>1. 0 \in S
  <2>1. UpTo[0] \in Seq(Places)
    BY UpToStep, EmptySeq
  <2>2. \A m \in 0..0 : m = 0
    OBVIOUS
  <2>3. Begins(0, 0)
    BY <2>1, LenProperties DEF Begins
  <2> QED BY <2>1, <2>2, <2>3
<1>2. ASSUME NEW i \in 0..Last - 1, i \in S
      PROVE  i + 1 \in S
  <2>1. i \in Nat /\ i + 1 \in Nat /\ i + 1 \in DOMAIN Answer /\ Answer[i + 1] \in Nat
    BY AnswerFacts
  <2>2. /\ UpTo[i + 1] \in Seq(Places)
        /\ Len(UpTo[i + 1]) = Len(UpTo[i]) + Answer[i + 1]
        /\ \A j \in 1..Len(UpTo[i]) : UpTo[i + 1][j] = UpTo[i][j]
    BY <1>2, UpToOne
  <2>3. ASSUME NEW m \in 0..i + 1
        PROVE  Begins(m, i + 1)
    <3>1. CASE m \in 0..i
      <4>1. Begins(m, i)
        BY <1>2, <3>1
      <4>2. Len(UpTo[m]) <= Len(UpTo[i + 1])
        <5> DEFINE a == Len(UpTo[m])  b == Len(UpTo[i])  d == Len(UpTo[i + 1])
        <5>1. d = b + Answer[i + 1] /\ a <= b
          BY <2>2, <4>1 DEF Begins
        <5>2. a \in Nat /\ b \in Nat
          BY <1>2, <4>1, LenProperties DEF Begins
        <5> HIDE DEF a, b, d
        <5>3. a <= d
          BY <2>1, <5>1, <5>2
        <5> QED BY <5>3 DEF a, d
      <4>3. \A j \in 1..Len(UpTo[m]) : j \in 1..Len(UpTo[i])
        BY <1>2, <4>1, LenProperties DEF Begins
      <4>4. \A j \in 1..Len(UpTo[m]) : UpTo[i + 1][j] = UpTo[m][j]
        BY <2>2, <4>1, <4>3 DEF Begins
      <4> QED BY <4>2, <4>4 DEF Begins
    <3>2. CASE m = i + 1
      <4>1. Len(UpTo[m]) \in Nat /\ Len(UpTo[m]) <= Len(UpTo[m])
        BY <2>2, <3>2, LenProperties
      <4> QED BY <3>2, <4>1 DEF Begins
    <3> QED BY <2>1, <3>1, <3>2
  <2> QED BY <2>1, <2>2, <2>3
<1>3. \A i \in 0..Last - 1 : i \in S => i + 1 \in S
  BY <1>2
<1>4. n \in S
  <2> HIDE DEF S
  <2> QED BY <1>0, <1>1, <1>3, Induct
<1> QED BY <1>4

(* Where a piece stands in the answer.                                     *)
LEMMA PieceAt ==
    ASSUME NEW m \in 0..Last - 1
    PROVE  /\ Len(UpTo[m]) \in Nat /\ Len(UpTo[Last]) \in Nat
           /\ Len(UpTo[m + 1]) = Len(UpTo[m]) + Answer[m + 1]
           /\ Len(UpTo[m]) + Answer[m + 1] <= Len(UpTo[Last])
           /\ \A j \in 1..Answer[m + 1] : UpTo[Last][Len(UpTo[m]) + j] = <<m + 1, j>>
<1>1. Last \in 0..Last /\ m \in 0..Last /\ m + 1 \in 0..Last /\ m + 1 \in DOMAIN Answer /\ Answer[m + 1] \in Nat
  BY AnswerFacts
<1>2. UpTo[m] \in Seq(Places) /\ UpTo[Last] \in Seq(Places) /\ Begins(m + 1, Last)
  BY <1>1, UpToBegins
<1>3. /\ Len(UpTo[m + 1]) = Len(UpTo[m]) + Answer[m + 1]
      /\ \A j \in 1..Answer[m + 1] : UpTo[m + 1][Len(UpTo[m]) + j] = <<m + 1, j>>
  BY <1>2, UpToOne
<1>4. Len(UpTo[m]) \in Nat /\ Len(UpTo[Last]) \in Nat
  BY <1>2, LenProperties
<1>5. ASSUME NEW j \in 1..Answer[m + 1]
      PROVE  UpTo[Last][Len(UpTo[m]) + j] = <<m + 1, j>>
  <2>1. Len(UpTo[m]) + j \in 1..Len(UpTo[m + 1])
    BY <1>1, <1>3, <1>4
  <2>2. UpTo[Last][Len(UpTo[m]) + j] = UpTo[m + 1][Len(UpTo[m]) + j]
    BY <1>2, <2>1 DEF Begins
  <2> QED BY <1>3, <2>2
<1> QED BY <1>2, <1>3, <1>4, <1>5 DEF Begins

(* What has been written is the first m pieces and n units of the next.    *)
Written(written, m, n) ==
    /\ written \in Seq(Places)
    /\ Len(written) = Len(UpTo[m]) + n /\ Len(written) <= Len(UpTo[Last])
    /\ \A j \in 1..Len(written) : written[j] = UpTo[Last][j]

LEMMA WrittenStep ==
    ASSUME NEW m \in 0..Last - 1, NEW from \in Nat, NEW units \in Nat, from + units <= Answer[m + 1],
           NEW written, Written(written, m, from)
    PROVE  Written(written \o Piece(m + 1, from, from + units), m, from + units)
<1> DEFINE P == Piece(m + 1, from, from + units)
           w == written \o P
           n == m + 1
           base == Len(UpTo[m])
           all == UpTo[Last]
<1>1. n \in DOMAIN Answer /\ Answer[n] \in Nat
  BY AnswerFacts
<1>2. P \in Seq(Places) /\ Len(P) = units /\ \A j \in 1..units : P[j] = <<n, from + j>>
  BY <1>1, PieceIs
<1>3. /\ base \in Nat /\ Len(all) \in Nat /\ base + Answer[n] <= Len(all)
      /\ \A j \in 1..Answer[n] : all[base + j] = <<n, j>>
  BY PieceAt
<1>4. written \in Seq(Places) /\ Len(written) = base + from /\ \A j \in 1..Len(written) : written[j] = all[j]
  BY DEF Written
<1>5. from + units <= Answer[n]
  OBVIOUS
<1> HIDE DEF P, n, base, all, w
<1>6. /\ w \in Seq(Places) /\ Len(w) = Len(written) + Len(P)
      /\ \A j \in 1..Len(written) + Len(P) : w[j] = IF j <= Len(written) THEN written[j] ELSE P[j - Len(written)]
  BY <1>2, <1>4, ConcatProperties DEF w
<1>7. Len(w) = base + (from + units) /\ Len(w) <= Len(all)
  BY <1>1, <1>2, <1>3, <1>4, <1>5, <1>6
<1>8. ASSUME NEW j \in 1..Len(w)
      PROVE  w[j] = all[j]
  <2>1. CASE j <= Len(written)
    <3>1. j \in 1..Len(written) /\ j \in 1..Len(written) + Len(P)
      BY <1>2, <1>3, <1>4, <1>6, <2>1
    <3> QED BY <1>4, <1>6, <2>1, <3>1
  <2>2. CASE ~(j <= Len(written))
    <3> DEFINE i == j - Len(written)
    <3>1. i \in 1..units /\ from + i \in 1..Answer[n] /\ base + (from + i) = j
      BY <1>1, <1>2, <1>3, <1>4, <1>5, <1>6, <2>2
    <3>2. j \in 1..Len(written) + Len(P) /\ w[j] = P[i]
      BY <1>6, <2>2
    <3> HIDE DEF i
    <3>3. P[i] = <<n, from + i>> /\ all[base + (from + i)] = <<n, from + i>>
      BY <1>2, <1>3, <3>1
    <3> QED BY <3>1, <3>2, <3>3
  <2> QED BY <2>1, <2>2
<1>9. Written(w, m, from + units)
  BY <1>6, <1>7, <1>8 DEF Written, base, all
<1> QED BY <1>9 DEF w, P, n

-----------------------------------------------------------------------------
(* What a job knows of its answer: it has sent the pieces up to some m and *)
(* some of the next one.  As long as it has not come to its end that is    *)
(* the piece it is at; the last send may have failed within it.            *)

JobType == [phase : {"resolve", "attach", "handshake", "receive", "send", "close"}, at : Places,
            context : SUBSET Places, dead : BOOLEAN, shaken : BOOLEAN,
            error : {"wantRead", "wantWrite", "other"}, piece : DOMAIN Answer, total : {0}, pending : Nat,
            written : Seq(Places), returned : Seq(Int)]

AtPiece(job, m, n) ==
    /\ Len(job.returned) = m /\ n = job.pending
    /\ job.phase # "close" => job.piece = m + 1

GivenUp(job, m, n) ==
    /\ m < Last /\ n < Answer[m + 1] /\ job.phase = "close"
    /\ Len(job.returned) = m + 1 /\ job.returned[m + 1] <= 0

SentUpTo(job, m, n) ==
    /\ Written(job.written, m, n)
    /\ \A k \in 1..m : job.returned[k] = Answer[k]
    /\ AtPiece(job, m, n) \/ GivenUp(job, m, n)

Honest(job) ==
    /\ job.pending < Answer[job.piece]
    /\ \E m \in 0..Last, n \in Nat : SentUpTo(job, m, n)

HonestJobs == {job \in JobType : Honest(job)}

JobInv == conn \in [Connections -> {NoJob, Done, Dropped} \cup HonestJobs]

LEMMA StepKeeps ==
    ASSUME JobInv, NEW c \in Connections, NEW new \in {NoJob, Done, Dropped} \cup HonestJobs, Step(c, new)
    PROVE  JobInv'
BY DEF JobInv, Step

LEMMA JobOf ==
    ASSUME JobInv, NEW c \in Connections, conn[c].phase \in {"resolve", "attach", "handshake", "receive", "send", "close"}
    PROVE  conn[c] \in HonestJobs
<1>1. NoJob.phase = "none" /\ Done.phase = "done" /\ Dropped.phase = "dropped"
  BY DEF NoJob, Done, Dropped
<1> QED BY <1>1 DEF JobInv

(* A turn of SendAllPacketsAsync adds nothing, the length, or a failure to *)
(* zero: the sum is below the length only in the first case.               *)
LEMMA Sums ==
    ASSUME NEW size \in Nat \ {0}, size < Width - 1
    PROVE  /\ Add(0, 0) = 0 /\ Add(0, size) = size /\ Add(0, -1) = Width - 1
           /\ Signed(size) = size /\ Signed(Width - 1) = -1 /\ ~(Width - 1 < size)
<1>1. Width \in Nat /\ Width > 2
  BY AnswerFacts
<1>2. (0 + 0) % Width = 0 /\ (0 + size) % Width = size
  BY <1>1
<1>3. (0 + (-1)) % Width = Width - 1
  BY <1>1
<1> QED BY <1>1, <1>2, <1>3 DEF Add, Signed

(* A step that leaves the answer alone.                                    *)
LEMMA SameAnswer ==
    ASSUME NEW job \in HonestJobs, NEW new \in JobType, job.phase # "close",
           new.written = job.written, new.returned = job.returned, new.piece = job.piece, new.pending = job.pending
    PROVE  new \in HonestJobs
<1>1. PICK m \in 0..Last, n \in Nat : SentUpTo(job, m, n)
  BY DEF HonestJobs, Honest
<1>2. AtPiece(job, m, n)
  BY <1>1 DEF SentUpTo, GivenUp
<1>3. AtPiece(new, m, n)
  BY <1>2 DEF AtPiece
<1>4. SentUpTo(new, m, n)
  BY <1>1, <1>3 DEF SentUpTo
<1> QED BY <1>4 DEF HonestJobs, Honest

-----------------------------------------------------------------------------
(* A job that sends, at piece m + 1.                                       *)
Sends(c, m) ==
    /\ conn[c] \in JobType /\ m \in 0..Last - 1 /\ conn[c].piece = m + 1
    /\ Size(c) = Answer[m + 1] /\ Size(c) \in Nat \ {0} /\ Size(c) < Width - 1
    /\ Left(c) = Size(c) - conn[c].pending /\ Left(c) \in Nat \ {0}
    /\ Written(conn[c].written, m, conn[c].pending)
    /\ Len(conn[c].returned) = m /\ \A k \in 1..m : conn[c].returned[k] = Answer[k]

LEMMA Sending ==
    ASSUME JobInv, NEW c \in Connections, conn[c].phase = "send"
    PROVE  \E m \in 0..Last - 1 : Sends(c, m)
<1> DEFINE job == conn[c]
<1>1. job \in JobType /\ Honest(job) /\ job.phase # "close"
  BY JobOf DEF HonestJobs
<1>2. job.total = 0 /\ job.piece \in DOMAIN Answer /\ job.pending \in Nat /\ job.pending < Answer[job.piece]
  BY <1>1 DEF JobType, Honest
<1>3. PICK m \in 0..Last, n \in Nat : SentUpTo(job, m, n)
  BY <1>1 DEF Honest
<1>4. AtPiece(job, m, n)
  BY <1>1, <1>3 DEF SentUpTo, GivenUp
<1>5. job.piece = m + 1 /\ Len(job.returned) = m /\ n = job.pending
  BY <1>1, <1>4 DEF AtPiece
<1>6. m \in 0..Last - 1
  BY <1>2, <1>5, AnswerFacts
<1>7. Size(c) = Answer[m + 1] /\ Size(c) \in Nat \ {0} /\ Size(c) < Width - 1
  BY <1>2, <1>5, AnswerFacts DEF Size
<1>8. Left(c) = Size(c) - job.pending /\ Left(c) \in Nat \ {0}
  BY <1>2, <1>5, <1>7 DEF Left
<1>9. Written(job.written, m, job.pending) /\ \A k \in 1..m : job.returned[k] = Answer[k]
  BY <1>3, <1>5 DEF SentUpTo
<1> QED BY <1>1, <1>5, <1>6, <1>7, <1>8, <1>9 DEF Sends

LEMMA SentIs ==
    ASSUME NEW c \in Connections, NEW m, Sends(c, m), NEW units \in 0..Left(c)
    PROVE  /\ Sent(c, units) \in JobType
           /\ Sent(c, units).pending = conn[c].pending + units
           /\ Sent(c, units).piece = m + 1 /\ Sent(c, units).phase = conn[c].phase
           /\ Sent(c, units).returned = conn[c].returned
           /\ Written(Sent(c, units).written, m, conn[c].pending + units)
<1> DEFINE job == conn[c]
           w == job.written \o Piece(m + 1, job.pending, job.pending + units)
           new == [job EXCEPT !.pending = job.pending + units, !.written = w]
<1>1. job \in JobType /\ job.piece = m + 1 /\ job.total = 0 /\ job.pending \in Nat
  BY DEF Sends, JobType
<1>2. units \in Nat /\ job.pending + units \in Nat /\ job.pending + units <= Answer[m + 1]
  BY <1>1 DEF Sends
<1>3. Written(w, m, job.pending + units)
  <2>1. m \in 0..Last - 1 /\ Written(job.written, m, job.pending)
    BY DEF Sends
  <2> HIDE DEF job
  <2> QED BY <1>1, <1>2, <2>1, WrittenStep
<1>4. Sent(c, units) = new
  <2>1. job.total + job.pending = job.pending
    BY <1>1
  <2> QED BY <1>1, <2>1 DEF Sent
<1>5. w \in Seq(Places)
  BY <1>3 DEF Written
<1> HIDE DEF w
<1>6. /\ new \in JobType /\ new.pending = job.pending + units /\ new.piece = job.piece /\ new.phase = job.phase
      /\ new.returned = job.returned /\ new.written = w
  BY <1>1, <1>2, <1>5 DEF JobType
<1> HIDE DEF new
<1> QED BY <1>1, <1>3, <1>4, <1>6

(* It stays in the call, with some of the piece sent.                      *)
LEMMA Continues ==
    ASSUME JobInv, NEW c \in Connections, conn[c].phase = "send", NEW units \in 0..Left(c) - 1,
           NEW error \in {"wantRead", "wantWrite", "other"},
           \/ Step(c, [Sent(c, units) EXCEPT !.error = error])
           \/ Step(c, [Sent(c, units) EXCEPT !.total = 0, !.error = error])
    PROVE  JobInv'
<1>1. PICK m \in 0..Last - 1 : Sends(c, m)
  BY Sending
<1> DEFINE job == Sent(c, units)
           n == conn[c].pending + units
<1>2. /\ units \in 0..Left(c) /\ n \in Nat /\ n < Answer[m + 1]
  BY <1>1 DEF Sends, JobType
<1>3. /\ job \in JobType /\ job.pending = n /\ job.piece = m + 1 /\ job.phase = "send"
      /\ job.returned = conn[c].returned /\ Written(job.written, m, n)
  BY <1>1, <1>2, SentIs
<1> HIDE DEF job, n
<1>4. PICK new : /\ Step(c, new)
                 /\ new = [job EXCEPT !.error = error] \/ new = [job EXCEPT !.total = 0, !.error = error]
  BY DEF job
<1>5. /\ new \in JobType /\ new.pending = n /\ new.piece = m + 1 /\ new.phase = "send"
      /\ new.returned = conn[c].returned /\ new.written = job.written
  BY <1>3, <1>4 DEF JobType
<1>6. AtPiece(new, m, n)
  BY <1>1, <1>5 DEF AtPiece, Sends
<1>7. SentUpTo(new, m, n)
  BY <1>1, <1>3, <1>5, <1>6 DEF SentUpTo, Sends
<1>8. m \in 0..Last
  BY AnswerFacts
<1>9. new \in HonestJobs
  BY <1>2, <1>5, <1>7, <1>8 DEF HonestJobs, Honest
<1> QED BY <1>4, <1>9, StepKeeps

(* The call returns.                                                       *)
LEMMA Returns ==
    ASSUME JobInv, NEW c \in Connections, conn[c].phase = "send", NEW units \in 0..Left(c), NEW result \in Int,
           Return(c, Sent(c, units), result),
           \/ units = Left(c) /\ result = Size(c)
           \/ units < Left(c) /\ result <= 0
    PROVE  JobInv'
<1>1. PICK m \in 0..Last - 1 : Sends(c, m)
  BY Sending
<1> DEFINE job == Sent(c, units)
           n == conn[c].pending + units
           on == GoesOn(c, result)
           returned == Append(job.returned, result)
           piece == IF on THEN job.piece + 1 ELSE job.piece
           phase == IF on THEN "send" ELSE "close"
           new == [job EXCEPT !.returned = returned, !.total = 0, !.pending = 0, !.error = "other",
                              !.piece = piece, !.phase = phase]
<1>2. /\ n \in Nat /\ n <= Answer[m + 1] /\ (units < Left(c) => n < Answer[m + 1])
      /\ units = Left(c) => n = Answer[m + 1]
  BY <1>1 DEF Sends, JobType
<1>3. /\ job \in JobType /\ job.piece = m + 1 /\ job.returned = conn[c].returned /\ Written(job.written, m, n)
  BY <1>1, SentIs
<1>4. Step(c, new)
  BY DEF Return
<1>5. m \in Nat /\ m + 1 \in 0..Last /\ m \in 0..Last /\ m + 1 \in DOMAIN Answer /\ m < Last
  BY AnswerFacts
<1>6. on <=> result > 0 /\ m + 1 < Last
  BY <1>1 DEF GoesOn, SendHeaders, Sends, Last
<1>7. job.returned \in Seq(Int) /\ Len(job.returned) = m /\ \A k \in 1..m : job.returned[k] = Answer[k]
  BY <1>1, <1>3 DEF JobType, Sends
<1>8. /\ returned \in Seq(Int) /\ Len(returned) = m + 1
      /\ returned[m + 1] = result /\ \A k \in 1..m : returned[k] = Answer[k]
  <2> HIDE DEF job
  <2> QED BY <1>5, <1>7, AppendProperties
<1> HIDE DEF job, n, on, returned
<1>9. piece \in DOMAIN Answer
  BY <1>3, <1>5, <1>6, AnswerFacts
<1>10. /\ new \in JobType /\ new.written = job.written /\ new.returned = returned /\ new.pending = 0
       /\ new.piece = (IF on THEN m + 2 ELSE m + 1)
       /\ new.phase = IF on THEN "send" ELSE "close"
  <2>1. job.piece + 1 = m + 2
    BY <1>3, <1>5
  <2>2. piece \in DOMAIN Answer /\ piece = (IF on THEN m + 2 ELSE m + 1)
    BY <1>3, <1>9, <2>1
  <2>3. phase \in {"send", "close"}
    OBVIOUS
  <2> HIDE DEF piece, phase
  <2>4. /\ new \in JobType /\ new.written = job.written /\ new.returned = returned /\ new.pending = 0
        /\ new.piece = piece /\ new.phase = phase
    BY <1>3, <1>8, <2>2, <2>3 DEF JobType
  <2> QED BY <2>2, <2>4 DEF phase
<1>11. new.pending < Answer[new.piece]
  <2>1. new.piece \in DOMAIN Answer
    BY <1>10 DEF JobType
  <2> QED BY <1>10, <2>1, AnswerFacts
<1> HIDE DEF new
<1>12. CASE units = Left(c) /\ result = Size(c)
  <2>1. Written(job.written, m + 1, 0)
    <3>1. Len(UpTo[m + 1]) = Len(UpTo[m]) + Answer[m + 1] /\ Len(UpTo[m]) \in Nat /\ Answer[m + 1] \in Nat
      BY <1>5, PieceAt, AnswerFacts
    <3>2. Len(UpTo[m]) + n = Len(UpTo[m + 1]) + 0
      <4>1. n = Answer[m + 1]
        BY <1>2, <1>12
      <4> QED BY <3>1, <4>1
    <3> QED BY <1>3, <3>2 DEF Written
  <2>2. \A k \in 1..m + 1 : new.returned[k] = Answer[k]
    <3>1. result = Answer[m + 1]
      BY <1>1, <1>12 DEF Sends
    <3>2. \A k \in 1..m + 1 : k \in 1..m \/ k = m + 1
      BY <1>5
    <3> QED BY <1>8, <1>10, <3>1, <3>2
  <2>3. AtPiece(new, m + 1, 0)
    <3>1. m + 2 = m + 1 + 1
      BY <1>5
    <3> QED BY <1>8, <1>10, <3>1 DEF AtPiece
  <2>4. SentUpTo(new, m + 1, 0)
    BY <1>10, <2>1, <2>2, <2>3 DEF SentUpTo
  <2>5. new \in HonestJobs
    BY <1>5, <1>10, <1>11, <2>4 DEF HonestJobs, Honest
  <2> QED BY <1>4, <2>5, StepKeeps
<1>13. CASE units < Left(c) /\ result <= 0
  <2>1. new.phase = "close"
    BY <1>6, <1>10, <1>13
  <2>2. GivenUp(new, m, n)
    BY <1>2, <1>5, <1>8, <1>10, <1>13, <2>1 DEF GivenUp
  <2>3. SentUpTo(new, m, n)
    BY <1>3, <1>8, <1>10, <2>2 DEF SentUpTo
  <2>4. new \in HonestJobs
    BY <1>2, <1>5, <1>10, <1>11, <2>3 DEF HonestJobs, Honest
  <2> QED BY <1>4, <2>4, StepKeeps
<1> QED BY <1>12, <1>13

(* A turn ends: nothing more of the piece, all of it, or a failure.        *)
LEMMA TurnEnds ==
    ASSUME JobInv, NEW c \in Connections, conn[c].phase = "send", NEW units \in 0..Left(c), NEW result \in Int,
           EndTurn(c, Sent(c, units), result),
           \/ units = Left(c) /\ result = Size(c)
           \/ units < Left(c) /\ result \in {-1, 0}
    PROVE  JobInv'
<1>1. PICK m \in 0..Last - 1 : Sends(c, m)
  BY Sending
<1>2. conn[c].total = 0 /\ Size(c) \in Nat \ {0} /\ Size(c) < Width - 1 /\ Left(c) \in Nat
  BY <1>1 DEF Sends, JobType
<1>3. CASE units = Left(c) /\ result = Size(c)
  <2>1. Add(conn[c].total, result) = Size(c) /\ Signed(Size(c)) = Size(c) /\ ~(Size(c) < Size(c))
    BY <1>2, <1>3, Sums
  <2>2. Return(c, Sent(c, units), result)
    BY <1>3, <2>1 DEF EndTurn
  <2> QED BY <1>3, <2>2, Returns
<1>4. CASE units < Left(c) /\ result = 0
  <2>1. Add(conn[c].total, result) = 0 /\ 0 < Size(c)
    BY <1>2, <1>4, Sums
  <2>2. Step(c, [Sent(c, units) EXCEPT !.total = 0, !.error = "other"])
    BY <2>1 DEF EndTurn
  <2>3. units \in 0..Left(c) - 1
    BY <1>2, <1>4
  <2>4. "other" \in {"wantRead", "wantWrite", "other"}
    OBVIOUS
  <2> QED BY <2>2, <2>3, <2>4, Continues, Zenon
<1>5. CASE units < Left(c) /\ result = -1
  <2>1. Add(conn[c].total, result) = Width - 1 /\ Signed(Width - 1) = -1 /\ ~(Width - 1 < Size(c))
    BY <1>2, <1>5, Sums
  <2>2. Return(c, Sent(c, units), -1) /\ -1 \in Int /\ -1 <= 0
    BY <2>1 DEF EndTurn
  <2> QED BY <1>5, <2>2, Returns
<1> QED BY <1>3, <1>4, <1>5

LEMMA JobStep == BinderInv /\ JobInv /\ [Next]_vars => JobInv'
<1> SUFFICES ASSUME BinderInv, JobInv, [Next]_vars PROVE JobInv'
  OBVIOUS
<1>1. ASSUME UNCHANGED conn
      PROVE  JobInv'
  BY <1>1 DEF JobInv
<1>2. ASSUME NEW c \in Connections, Accept(c)
      PROVE  JobInv'
  <2>1. PICK id \in transports \cap sockets :
           Step(c, [phase |-> "resolve", at |-> id, context |-> {}, dead |-> FALSE, shaken |-> FALSE,
                    error |-> "other", piece |-> 1, total |-> 0, pending |-> 0, written |-> <<>>, returned |-> <<>>])
    BY <1>2 DEF Accept
  <2> DEFINE new == [phase |-> "resolve", at |-> id, context |-> {}, dead |-> FALSE, shaken |-> FALSE,
                     error |-> "other", piece |-> 1, total |-> 0, pending |-> 0, written |-> <<>>, returned |-> <<>>]
  <2>2. id \in Places
    BY DEF BinderInv, ListenerTypes, Bound, Places
  <2>3. <<>> \in Seq(Places) /\ <<>> \in Seq(Int) /\ 1 \in DOMAIN Answer
    BY EmptySeq, AnswerFacts
  <2>4. new \in JobType
    BY <2>2, <2>3 DEF JobType
  <2>5. /\ new.written = <<>> /\ new.returned = <<>> /\ new.piece = 0 + 1 /\ new.pending = 0
        /\ Len(new.returned) = 0
    BY <2>3, EmptySeq
  <2> HIDE DEF new
  <2>6. SentUpTo(new, 0, 0)
    <3>1. Written(<<>>, 0, 0)
      <4>1. Len(<<>>) = 0 /\ <<>> \in Seq(Places)
        BY EmptySeq
      <4>2. Len(UpTo[0]) + 0 = 0 /\ 0 <= Len(UpTo[Last])
        BY <4>1, UpToStep, UpToBegins, LenProperties, AnswerFacts
      <4> QED BY <4>1, <4>2 DEF Written
    <3>2. AtPiece(new, 0, 0)
      BY <2>5 DEF AtPiece
    <3> QED BY <2>5, <3>1, <3>2 DEF SentUpTo
  <2>7. Honest(new)
    BY <2>3, <2>5, <2>6, AnswerFacts DEF Honest
  <2>8. new \in HonestJobs
    BY <2>4, <2>7 DEF HonestJobs
  <2>9. Step(c, new)
    BY <2>1 DEF new
  <2> QED BY <2>8, <2>9, StepKeeps
<1>3. ASSUME NEW c \in Connections, NEW new \in JobType, Step(c, new),
             conn[c].phase \in {"resolve", "attach", "handshake", "receive", "send"},
             new.written = conn[c].written, new.returned = conn[c].returned, new.piece = conn[c].piece,
             new.pending = conn[c].pending
      PROVE  JobInv'
  <2>1. conn[c] \in HonestJobs /\ conn[c].phase # "close"
    BY <1>3, JobOf
  <2>2. new \in HonestJobs
    BY <1>3, <2>1, SameAnswer
  <2> QED BY <1>3, <2>2, StepKeeps
<1>4. ASSUME NEW c \in Connections, conn[c].phase \in {"resolve", "attach", "handshake", "receive", "send"}
      PROVE  conn[c] \in JobType
  BY <1>4, JobOf DEF HonestJobs
<1>5. ASSUME NEW c \in Connections, Resolve(c)
      PROVE  JobInv'
  <2> DEFINE found == ContextOf(Listener(conn[c].at).port)
             phase == IF found = {} THEN "receive" ELSE "attach"
             new == [conn[c] EXCEPT !.context = found, !.phase = phase]
  <2>0. CASE Step(c, Dropped)
    BY <2>0, StepKeeps
  <2> SUFFICES ASSUME Step(c, new) PROVE JobInv'
    BY <1>5, <2>0 DEF Resolve
  <2>1. conn[c] \in JobType /\ conn[c].phase = "resolve" /\ Step(c, new)
    BY <1>4, <1>5 DEF Resolve
  <2>2. found \subseteq Places
    BY DEF ContextOf, BinderInv, ContextTypes, Contexts, Bound, Places
  <2> HIDE DEF found
  <2>5. phase \in {"receive", "attach"}
    OBVIOUS
  <2> HIDE DEF phase
  <2>3. new \in JobType
    BY <2>1, <2>2, <2>5 DEF JobType
  <2>4. new.written = conn[c].written /\ new.returned = conn[c].returned /\ new.piece = conn[c].piece
           /\ new.pending = conn[c].pending
    BY <2>1 DEF JobType
  <2> QED BY <1>3, <2>1, <2>3, <2>4
<1>6. ASSUME NEW c \in Connections, Attach(c)
      PROVE  JobInv'
  <2> DEFINE dead == \E id \in conn[c].context : freed[id] > 0
             new == [conn[c] EXCEPT !.phase = "handshake", !.dead = dead]
  <2>1. conn[c] \in JobType /\ conn[c].phase = "attach" /\ Step(c, new)
    BY <1>4, <1>6 DEF Attach
  <2>2. dead \in BOOLEAN
    OBVIOUS
  <2> HIDE DEF dead
  <2>3. new \in JobType
    BY <2>1, <2>2 DEF JobType
  <2>4. new.written = conn[c].written /\ new.returned = conn[c].returned /\ new.piece = conn[c].piece
           /\ new.pending = conn[c].pending
    BY <2>1 DEF JobType
  <2> QED BY <1>3, <2>1, <2>3, <2>4
<1>7. ASSUME NEW c \in Connections, conn[c].phase \in {"handshake", "receive"},
             NEW phase \in {"handshake", "receive", "send", "close"}, NEW shaken \in BOOLEAN,
             NEW error \in {"wantRead", "wantWrite", "other"},
             Step(c, [conn[c] EXCEPT !.phase = phase, !.shaken = shaken, !.error = error])
      PROVE  JobInv'
  <2> DEFINE new == [conn[c] EXCEPT !.phase = phase, !.shaken = shaken, !.error = error]
  <2>1. conn[c] \in JobType
    BY <1>4, <1>7
  <2>2. new \in JobType
    BY <2>1 DEF JobType
  <2>3. /\ new.written = conn[c].written /\ new.returned = conn[c].returned /\ new.piece = conn[c].piece
        /\ new.pending = conn[c].pending
    BY <2>1 DEF JobType
  <2>4. Step(c, new)
    BY <1>7
  <2> HIDE DEF new
  <2> QED BY <1>3, <1>7, <2>2, <2>3, <2>4
<1>8. ASSUME NEW c \in Connections, conn[c].phase \in {"handshake", "receive"}, NEW phase \in {"handshake", "receive", "send", "close"},
             NEW shaken \in BOOLEAN, NEW new, Step(c, new),
             new = [conn[c] EXCEPT !.phase = phase] \/ new = [conn[c] EXCEPT !.phase = phase, !.shaken = shaken]
      PROVE  JobInv'
  <2>1. conn[c] \in JobType
    BY <1>4, <1>8
  <2>2. CASE new = [conn[c] EXCEPT !.phase = phase]
    <3>1. new \in JobType
      BY <2>1, <2>2 DEF JobType
    <3>2. /\ new.written = conn[c].written /\ new.returned = conn[c].returned /\ new.piece = conn[c].piece
          /\ new.pending = conn[c].pending
      BY <2>1, <2>2 DEF JobType
    <3> QED BY <1>3, <1>8, <3>1, <3>2
  <2>3. CASE new = [conn[c] EXCEPT !.phase = phase, !.shaken = shaken]
    <3>1. new \in JobType
      BY <2>1, <2>3 DEF JobType
    <3>2. /\ new.written = conn[c].written /\ new.returned = conn[c].returned /\ new.piece = conn[c].piece
          /\ new.pending = conn[c].pending
      BY <2>1, <2>3 DEF JobType
    <3> QED BY <1>3, <1>8, <3>1, <3>2
  <2> QED BY <1>8, <2>2, <2>3
<1>9. ASSUME NEW c \in Connections, Handshake(c)
      PROVE  JobInv'
  <2>1. conn[c].phase = "handshake"
    BY <1>9, Zenon DEF Handshake
  <2>2. conn[c].phase \in {"handshake", "receive"} /\ "receive" \in {"handshake", "receive", "send", "close"}
        /\ "other" \in {"wantRead", "wantWrite", "other"} /\ TRUE \in BOOLEAN
    BY <2>1
  <2>3. ASSUME Step(c, [conn[c] EXCEPT !.phase = "receive"])
        PROVE  JobInv'
    BY <1>8, <2>2, <2>3, Zenon
  <2>4. ASSUME Step(c, [conn[c] EXCEPT !.error = "wantRead"])
        PROVE  JobInv'
    <3> DEFINE new == [conn[c] EXCEPT !.error = "wantRead"]
    <3>1. conn[c] \in JobType
      BY <1>4, <2>1
    <3>2. new \in JobType
      BY <3>1 DEF JobType
    <3>3. /\ new.written = conn[c].written /\ new.returned = conn[c].returned /\ new.piece = conn[c].piece
          /\ new.pending = conn[c].pending
      BY <3>1 DEF JobType
    <3>4. Step(c, new)
      BY <2>4
    <3> HIDE DEF new
    <3> QED BY <1>3, <2>1, <3>2, <3>3, <3>4
  <2>5. ASSUME NEW result \in BOOLEAN,
               Step(c, [conn[c] EXCEPT !.phase = "receive", !.shaken = result, !.error = "other"])
        PROVE  JobInv'
    BY <1>7, <2>2, <2>5, Zenon
  <2> QED BY <1>9, <2>3, <2>4, <2>5, Zenon DEF Handshake
<1>10. ASSUME NEW c \in Connections, Receive(c)
       PROVE  JobInv'
  <2>1. conn[c].phase = "receive"
    BY <1>10, Zenon DEF Receive
  <2>2. /\ conn[c].phase \in {"handshake", "receive"} /\ Tls(c) \in BOOLEAN
        /\ "send" \in {"handshake", "receive", "send", "close"} /\ "close" \in {"handshake", "receive", "send", "close"}
    BY <2>1 DEF Tls
  <2>3. ASSUME Step(c, [conn[c] EXCEPT !.phase = "send", !.shaken = Tls(c)])
        PROVE  JobInv'
    BY <1>8, <2>2, <2>3, Zenon
  <2>4. ASSUME Step(c, [conn[c] EXCEPT !.phase = "close"])
        PROVE  JobInv'
    BY <1>8, <2>2, <2>4, Zenon
  <2> QED BY <1>10, <2>3, <2>4, Zenon DEF Receive
<1>11. ASSUME NEW c \in Connections, conn[c].phase = "send"
       PROVE  /\ Left(c) \in Nat /\ Size(c) \in Int /\ Size(c) - conn[c].total = Size(c)
              /\ conn[c].total = 0 /\ Add(conn[c].total, 0) = 0 /\ 0 < Size(c)
  <2>1. PICK m \in 0..Last - 1 : Sends(c, m)
    BY <1>11, Sending
  <2>2. conn[c].total = 0 /\ Left(c) \in Nat /\ Size(c) \in Nat \ {0} /\ Size(c) < Width - 1
    BY <2>1 DEF Sends, JobType
  <2> QED BY <2>2, Sums
<1>12. ASSUME NEW c \in Connections, SendSecure(c)
       PROVE  JobInv'
  <2>1. conn[c].phase = "send" /\ conn[c] \in JobType
    BY <1>4, <1>12 DEF SendSecure
  <2>2. CASE EndTurn(c, conn[c], 0)
    <3> DEFINE new == [conn[c] EXCEPT !.total = 0, !.error = "other"]
    <3>1. Step(c, new)
      BY <1>11, <2>1, <2>2 DEF EndTurn
    <3>2. new \in JobType
      BY <2>1 DEF JobType
    <3>3. new.written = conn[c].written /\ new.returned = conn[c].returned /\ new.piece = conn[c].piece
             /\ new.pending = conn[c].pending
      BY <2>1 DEF JobType
    <3> HIDE DEF new
    <3> QED BY <1>3, <2>1, <3>1, <3>2, <3>3
  <2>3. CASE EndTurn(c, Sent(c, Left(c)), Size(c) - conn[c].total)
    <3>1. EndTurn(c, Sent(c, Left(c)), Size(c)) /\ Size(c) \in Int /\ Left(c) \in 0..Left(c)
      BY <1>11, <2>1, <2>3
    <3> QED BY <2>1, <3>1, TurnEnds
  <2>4. ASSUME NEW units \in 0..Left(c) - 1, Step(c, [Sent(c, units) EXCEPT !.error = "wantWrite"])
        PROVE  JobInv'
    <3>1. "wantWrite" \in {"wantRead", "wantWrite", "other"}
      OBVIOUS
    <3> QED BY <2>1, <2>4, <3>1, Continues, Zenon
  <2>5. ASSUME NEW units \in 0..Left(c) - 1, NEW result \in Failures, EndTurn(c, Sent(c, units), result)
        PROVE  JobInv'
    <3>1. units \in 0..Left(c) /\ units < Left(c) /\ result \in Int /\ result \in {-1, 0}
      BY <1>11, <2>1, <2>5 DEF Failures
    <3> QED BY <2>1, <2>5, <3>1, TurnEnds
  <2> QED BY <1>12, <2>2, <2>3, <2>4, <2>5 DEF SendSecure
<1>13. ASSUME NEW c \in Connections, SendPlain(c)
       PROVE  JobInv'
  <2>1. conn[c].phase = "send"
    BY <1>13 DEF SendPlain
  <2>2. CASE Return(c, Sent(c, Left(c)), Size(c))
    <3>1. Size(c) \in Int /\ Left(c) \in 0..Left(c)
      BY <1>11, <2>1
    <3> QED BY <2>1, <2>2, <3>1, Returns
  <2>3. ASSUME NEW units \in 0..Left(c) - 1, NEW result \in Failures, Return(c, Sent(c, units), result)
        PROVE  JobInv'
    <3>1. units \in 0..Left(c) /\ units < Left(c) /\ result \in Int /\ result <= 0
      BY <1>11, <2>1, <2>3 DEF Failures
    <3> QED BY <2>1, <2>3, <3>1, Returns
  <2> QED BY <1>13, <2>2, <2>3 DEF SendPlain
<1>14. ASSUME NEW c \in Connections, Close(c)
       PROVE  JobInv'
  BY <1>14, StepKeeps DEF Close
<1> QED BY <1>1, <1>2, <1>5, <1>6, <1>9, <1>10, <1>12, <1>13, <1>14 DEF Next, JobNext, vars

LEMMA JobImplies == JobInv => AnswerHonest
<1> SUFFICES ASSUME JobInv, NEW c \in Jobs
             PROVE  /\ Len(conn[c].written) <= Len(UpTo[Last])
                    /\ \A j \in DOMAIN conn[c].written : conn[c].written[j] = UpTo[Last][j]
                    /\ \A k \in DOMAIN conn[c].returned :
                          \/ conn[c].returned[k] = Answer[k] /\ Len(conn[c].written) >= Len(UpTo[k])
                          \/ /\ conn[c].returned[k] <= 0 /\ k = Len(conn[c].returned)
                             /\ Len(conn[c].written) < Len(UpTo[k])
  BY DEF AnswerHonest, SendTellsTheTruth, AnswerInOrder, Last
<1> DEFINE job == conn[c]
<1>1. job \in JobType /\ Honest(job)
  BY DEF Jobs, JobInv, HonestJobs
<1>2. PICK m \in 0..Last, n \in Nat : SentUpTo(job, m, n)
  BY <1>1 DEF Honest
<1>3. /\ job.written \in Seq(Places) /\ Len(job.written) = Len(UpTo[m]) + n /\ Len(job.written) <= Len(UpTo[Last])
      /\ \A j \in 1..Len(job.written) : job.written[j] = UpTo[Last][j]
  BY <1>2 DEF SentUpTo, Written
<1>4. DOMAIN job.written = 1..Len(job.written) /\ DOMAIN job.returned = 1..Len(job.returned)
  BY <1>1, <1>3, LenProperties DEF JobType
<1>5. Len(UpTo[m]) \in Nat
  BY UpToBegins, LenProperties
<1>6. ASSUME NEW k \in DOMAIN job.returned
      PROVE  \/ job.returned[k] = Answer[k] /\ Len(job.written) >= Len(UpTo[k])
             \/ /\ job.returned[k] <= 0 /\ k = Len(job.returned)
                /\ Len(job.written) < Len(UpTo[k])
  <2>1. CASE k \in 1..m
    <3>1. job.returned[k] = Answer[k]
      BY <1>2, <2>1 DEF SentUpTo
    <3>2. Begins(k, m)
      BY <2>1, UpToBegins
    <3> HIDE DEF job
    <3> QED BY <1>3, <1>5, <3>1, <3>2 DEF Begins
  <2>2. CASE k \notin 1..m
    <3>1. GivenUp(job, m, n)
      BY <1>2, <1>4, <2>2 DEF SentUpTo, AtPiece
    <3>2. k = m + 1 /\ k = Len(job.returned) /\ job.returned[k] <= 0
      BY <1>4, <2>2, <3>1 DEF GivenUp
    <3>3. m \in 0..Last - 1 /\ n < Answer[m + 1]
      BY <3>1, AnswerFacts DEF GivenUp
    <3>4. Len(UpTo[m + 1]) = Len(UpTo[m]) + Answer[m + 1] /\ Answer[m + 1] \in Nat
      BY <3>3, PieceAt, AnswerFacts
    <3> DEFINE sent == Len(job.written)
    <3>6. sent = Len(UpTo[m]) + n
      BY <1>3
    <3> HIDE DEF sent
    <3>7. sent < Len(UpTo[m + 1])
      <4> DEFINE a == Len(UpTo[m])  b == Len(UpTo[m + 1])
      <4>1. b = a + Answer[m + 1] /\ sent = a + n /\ a \in Nat
        BY <1>5, <3>4, <3>6
      <4> HIDE DEF a, b
      <4>2. sent < b
        BY <3>3, <3>4, <4>1
      <4> QED BY <4>2 DEF b
    <3>5. Len(job.written) < Len(UpTo[k])
      BY <3>2, <3>7 DEF sent
    <3> QED BY <3>2, <3>5
  <2> QED BY <2>1, <2>2
<1> QED BY <1>3, <1>4, <1>6

-----------------------------------------------------------------------------
(* What a job knows of its listener.                                       *)

(* What a job knows of its connection until the controller closes it, or   *)
(* closes those of an earlier Run that are still open.                     *)
Served(job) ==
    stepped < job.at[1] =>
        /\ at["main"] \in Open /\ job.at \in transports
        /\ stepped < since =>
              /\ job.dead = FALSE
              /\ job.phase # "resolve" => job.context = IF job.at[2] \in Secure THEN {job.at} ELSE {}

JobsServed == \A c \in Connections : conn[c] \notin {NoJob, Done, Dropped} => Served(conn[c])

(* While the controller has not begun to close the listeners of its Run    *)
(* main keeps a listener, and binds more of them when it has left them to  *)
(* the next Run.                                                           *)
LEMMA KeepsServing ==
    ASSUME BinderInv, TableInv, BinderNext, at["main"] \in Open, NEW id \in transports, stepped' < id[1]
    PROVE  /\ stepped < id[1] /\ at'["main"] \in Open /\ id \in transports'
           /\ (stepped' < since' => stepped < since) /\ (id[2] \in Secure' <=> id[2] \in Secure)
<1> USE ThreadsAre DEF history, tables, flags
<1>0. /\ PlaceTypes /\ TableTypes /\ stepped \in 0..run /\ run \in Nat /\ since \in 1..run
      /\ id[1] \in 1..run /\ id[2] \in DOMAIN options
  BY BinderAssumption DEF BinderInv, ListenerTypes, TableInv, TableTypes
<1>1. ASSUME UNCHANGED <<stepped, transports, since, options>>, at'["main"] \in Open
      PROVE  /\ stepped < id[1] /\ at'["main"] \in Open /\ id \in transports'
             /\ (stepped' < since' => stepped < since) /\ (id[2] \in Secure' <=> id[2] \in Secure)
  BY <1>1 DEF Secure
<1>2. CASE PrepareApplications
  <2>1. stepped' = stepped /\ transports' = transports /\ since' = since /\ at'["main"] = "bind"
    BY <1>0, <1>2, Goes DEF PrepareApplications, Record
  <2>2. id[2] \in DOMAIN options' /\ options'[id[2]] = options[id[2]]
    BY <1>0, <1>2, OptionsGrow
  <2> QED BY <1>0, <2>1, <2>2 DEF Secure, Open
<1>3. CASE BindListener
  <2>1. PICK granted \in BOOLEAN : Bind(granted)
    BY <1>3 DEF BindListener
  <2>2. stepped' = stepped /\ since' = since /\ options' = options /\ at' = at /\ id \in transports'
    BY <2>1 DEF Bind, Record
  <2> QED BY <2>2 DEF Secure
<1>4. CASE Listen
  <2>1. UNCHANGED <<stepped, transports, since, options>>
    BY <1>4 DEF Listen, Record
  <2>2. at'["main"] \in {"accept", "again"}
    BY <1>0, <1>4, Goes DEF Listen
  <2> QED BY <1>1, <2>1, <2>2 DEF Open
<1>5. CASE QuitLoop \/ Exit
  <2>1. stepped' = stepped /\ ~active /\ at["main"] \in {"accept", "again"} /\ transports # {}
    BY <1>5 DEF QuitLoop, Exit, Record
  <2>2. stepped = run
    BY <2>1 DEF TableInv, GoesOnServing
  <2> QED BY <1>0, <2>1, <2>2
<1>6. CASE RunAgain
  <2>1. stepped' = stepped /\ transports' = transports /\ since' = since /\ options' = options /\ at'["main"] = "prepare"
    BY <1>0, <1>6, Goes DEF RunAgain, Record
  <2> QED BY <1>1, <2>1 DEF Open
<1>7. CASE Command
  <2>1. stepped' = run
    BY <1>7 DEF Command, Record
  <2> QED BY <1>0, <2>1
<1>8. CASE Repair
  BY <1>1, <1>8 DEF Repair
<1>9. ASSUME NEW t \in Threads, NEW place \in {"destroy", "clear"},
             \/ CloseSockets(t) \/ ClearPorts(t) \/ DestroyCopy(t)
             \/ BeginClear(t, place) \/ FreeContext(t, place) \/ EndClear(t, place)
      PROVE  /\ stepped < id[1] /\ at'["main"] \in Open /\ id \in transports'
             /\ (stepped' < since' => stepped < since) /\ (id[2] \in Secure' <=> id[2] \in Secure)
  <2>1. CASE t = "controller"
    <3>1. stepped' = run
      BY <1>9, <2>1 DEF CloseSockets, ClearPorts, DestroyCopy, BeginClear, FreeContext, EndClear, Record
    <3> QED BY <1>0, <3>1
  <2>2. CASE t = "main"
    BY <1>9, <2>2, MainCloses DEF TableInv
  <2> QED BY <2>1, <2>2
<1> QED BY <1>2, <1>3, <1>4, <1>5, <1>6, <1>7, <1>8, <1>9 DEF BinderNext

LEMMA ServedStep == BinderInv /\ TableInv /\ JobInv /\ JobsServed /\ [Next]_vars => JobsServed'
<1> SUFFICES ASSUME BinderInv, TableInv, JobInv, JobsServed, [Next]_vars PROVE JobsServed'
  OBVIOUS
<1>0. stepped \in 0..run /\ run \in Nat
  BY BinderAssumption DEF TableInv, TableTypes
<1>1. CASE BinderNext /\ UNCHANGED conn
  <2> SUFFICES ASSUME NEW c \in Connections, conn[c] \notin {NoJob, Done, Dropped}, stepped' < conn[c].at[1]
               PROVE  Served(conn[c])'
    BY <1>1 DEF JobsServed, Served
  <2> DEFINE id == conn[c].at
  <2>1. Served(conn[c])
    BY DEF JobsServed
  <2>2. stepped' = stepped \/ stepped' = run
    BY <1>1 DEF BinderNext, PrepareApplications, BindListener, Bind, Listen, QuitLoop, RunAgain, Exit, Command, Repair,
                CloseSockets, ClearPorts, DestroyCopy, BeginClear, FreeContext, EndClear, Record, history
  <2>3. id[1] \in Nat
    <3>1. conn[c] \in JobType
      BY DEF JobInv, HonestJobs
    <3> QED BY <3>1 DEF JobType, Places
  <2>4. stepped < id[1]
    BY <1>0, <2>2, <2>3
  <2>5. at["main"] \in Open /\ id \in transports
    BY <2>1, <2>4 DEF Served
  <2>6. /\ at'["main"] \in Open /\ id \in transports'
        /\ stepped' < since' => stepped < since
        /\ id[2] \in Secure' <=> id[2] \in Secure
    <3> HIDE DEF id
    <3> QED BY <1>1, <2>5, KeepsServing DEF id
  <2> QED BY <1>1, <2>1, <2>4, <2>6 DEF Served
<1>2. CASE UNCHANGED vars
  BY <1>2 DEF vars, binderVars, tables, history, JobsServed, Served, Secure
<1>3. ASSUME NEW c \in Connections, NEW new, Step(c, new), new \notin {NoJob, Done, Dropped} => Served(new)
      PROVE  JobsServed'
  <2>1. UNCHANGED <<stepped, since, at, transports, options>> /\ conn' = [conn EXCEPT ![c] = new] /\ DOMAIN conn = Connections
    BY <1>3 DEF Step, binderVars, tables, history, JobInv
  <2>2. Secure' = Secure
    BY <2>1 DEF Secure
  <2> QED BY <1>3, <2>1, <2>2 DEF JobsServed, Served
<1>4. ASSUME NEW c \in Connections, Accept(c)
      PROVE  JobsServed'
  <2>1. PICK id \in transports \cap sockets :
           Step(c, [phase |-> "resolve", at |-> id, context |-> {}, dead |-> FALSE, shaken |-> FALSE,
                    error |-> "other", piece |-> 1, total |-> 0, pending |-> 0, written |-> <<>>, returned |-> <<>>])
    BY <1>4 DEF Accept
  <2> DEFINE new == [phase |-> "resolve", at |-> id, context |-> {}, dead |-> FALSE, shaken |-> FALSE,
                     error |-> "other", piece |-> 1, total |-> 0, pending |-> 0, written |-> <<>>, returned |-> <<>>]
  <2>2. Served(new)
    BY <1>4 DEF Accept, Served, Open
  <2> QED BY <1>3, <2>1, <2>2
<1>5. ASSUME NEW c \in Connections, conn[c].phase \in {"resolve", "attach", "handshake", "receive", "send"}
      PROVE  conn[c] \in JobType /\ Served(conn[c])
  <2>1. conn[c] \in HonestJobs
    BY <1>5, JobOf
  <2>2. conn[c] \notin {NoJob, Done, Dropped}
    BY <1>5 DEF NoJob, Done, Dropped
  <2> QED BY <2>1, <2>2 DEF HonestJobs, JobsServed
<1>6. ASSUME NEW c \in Connections, Resolve(c)
      PROVE  JobsServed'
  <2> DEFINE id == conn[c].at
             found == ContextOf(Listener(id).port)
             phase == IF found = {} THEN "receive" ELSE "attach"
             new == [conn[c] EXCEPT !.context = found, !.phase = phase]
  <2>0. CASE Step(c, Dropped)
    BY <1>3, <2>0
  <2> SUFFICES ASSUME Step(c, new) PROVE JobsServed'
    BY <1>6, <2>0 DEF Resolve
  <2>1. conn[c] \in JobType /\ Served(conn[c]) /\ Step(c, new)
    BY <1>5, <1>6 DEF Resolve
  <2>2. new.at = id /\ new.context = found /\ new.dead = conn[c].dead
    BY <2>1 DEF JobType
  <2>3. ASSUME stepped < id[1]
        PROVE  /\ at["main"] \in Open /\ id \in transports
               /\ stepped < since => found = IF id[2] \in Secure THEN {id} ELSE {}
    BY <2>1, <2>3, OwnContext DEF Served
  <2> HIDE DEF found, phase, new
  <2>4. Served(new)
    BY <2>1, <2>2, <2>3 DEF Served
  <2> QED BY <1>3, <2>1, <2>4
<1>7. ASSUME NEW c \in Connections, Attach(c)
      PROVE  JobsServed'
  <2> DEFINE id == conn[c].at
             dead == \E i \in conn[c].context : freed[i] > 0
             new == [conn[c] EXCEPT !.phase = "handshake", !.dead = dead]
  <2>1. conn[c] \in JobType /\ Served(conn[c]) /\ Step(c, new) /\ conn[c].phase = "attach"
    BY <1>5, <1>7 DEF Attach
  <2>2. new.at = id /\ new.context = conn[c].context /\ new.dead = dead
    BY <2>1 DEF JobType
  <2>3. ASSUME stepped < id[1], stepped < since
        PROVE  ~dead
    <3>1. at["main"] \in Open /\ id \in transports /\ conn[c].context = IF id[2] \in Secure THEN {id} ELSE {}
      BY <2>1, <2>3 DEF Served
    <3>3. /\ ContextOf(Listener(id).port) = IF id[2] \in Secure THEN {id} ELSE {}
          /\ \A other \in ContextOf(Listener(id).port) : freed[other] = 0
      BY <2>3, <3>1, OwnContext
    <3> HIDE DEF id
    <3>4. \A i \in conn[c].context : freed[i] = 0
      BY <3>1, <3>3
    <3> QED BY <3>4
  <2> HIDE DEF dead
  <2>4. dead \in BOOLEAN
    BY DEF dead
  <2>5. Served(new)
    BY <2>1, <2>2, <2>3, <2>4 DEF Served
  <2> QED BY <1>3, <2>1, <2>5
<1>8. ASSUME NEW c \in Connections, NEW new, Step(c, new), conn[c].phase \in {"handshake", "receive", "send"},
             new.at = conn[c].at, new.context = conn[c].context, new.dead = conn[c].dead
      PROVE  JobsServed'
  <2>1. Served(new)
    BY <1>5, <1>8 DEF Served
  <2> QED BY <1>3, <1>8, <2>1
<1>9. ASSUME NEW c \in Connections, conn[c].phase \in {"handshake", "receive", "send"}, NEW phase, NEW shaken, NEW error
      PROVE  /\ Step(c, [conn[c] EXCEPT !.phase = phase]) => JobsServed'
             /\ Step(c, [conn[c] EXCEPT !.error = error]) => JobsServed'
             /\ Step(c, [conn[c] EXCEPT !.phase = phase, !.shaken = shaken]) => JobsServed'
             /\ Step(c, [conn[c] EXCEPT !.phase = phase, !.shaken = shaken, !.error = error]) => JobsServed'
  <2>1. conn[c] \in JobType
    BY <1>5, <1>9
  <2>2. ASSUME NEW new, Step(c, new), new = [conn[c] EXCEPT !.phase = phase]
        PROVE  JobsServed'
    BY <1>8, <1>9, <2>1, <2>2 DEF JobType
  <2>3. ASSUME NEW new, Step(c, new), new = [conn[c] EXCEPT !.error = error]
        PROVE  JobsServed'
    BY <1>8, <1>9, <2>1, <2>3 DEF JobType
  <2>4. ASSUME NEW new, Step(c, new), new = [conn[c] EXCEPT !.phase = phase, !.shaken = shaken]
        PROVE  JobsServed'
    BY <1>8, <1>9, <2>1, <2>4 DEF JobType
  <2>5. ASSUME NEW new, Step(c, new), new = [conn[c] EXCEPT !.phase = phase, !.shaken = shaken, !.error = error]
        PROVE  JobsServed'
    BY <1>8, <1>9, <2>1, <2>5 DEF JobType
  <2> QED BY <2>2, <2>3, <2>4, <2>5, Zenon
<1>10. ASSUME NEW c \in Connections, Handshake(c) \/ Receive(c)
       PROVE  JobsServed'
  <2>1. conn[c].phase = "handshake" \/ conn[c].phase = "receive"
    BY <1>10, Zenon DEF Handshake, Receive
  <2>2. conn[c].phase \in {"handshake", "receive", "send"}
    BY <2>1
  <2> QED BY <1>9, <1>10, <2>2, Zenon DEF Handshake, Receive
<1>11. ASSUME NEW c \in Connections, conn[c].phase = "send", NEW job, job = conn[c] \/ \E units : job = Sent(c, units)
       PROVE  /\ \A error : Step(c, [job EXCEPT !.error = error]) => JobsServed'
              /\ \A result : Return(c, job, result) => JobsServed'
              /\ \A result : EndTurn(c, job, result) => JobsServed'
  <2>1. conn[c] \in JobType
    BY <1>5, <1>11
  <2>2. job.at = conn[c].at /\ job.context = conn[c].context /\ job.dead = conn[c].dead /\ DOMAIN job = DOMAIN conn[c]
    <3>1. CASE job = conn[c]
      BY <3>1
    <3>2. ASSUME NEW units, job = Sent(c, units)
          PROVE  job.at = conn[c].at /\ job.context = conn[c].context /\ job.dead = conn[c].dead /\ DOMAIN job = DOMAIN conn[c]
      BY <2>1, <3>2 DEF Sent, JobType
    <3> QED BY <1>11, <3>1, <3>2
  <2>3. DOMAIN conn[c] = {"phase", "at", "context", "dead", "shaken", "error", "piece", "total", "pending", "written", "returned"}
    BY <2>1 DEF JobType
  <2>4. ASSUME NEW new, Step(c, new), new.at = job.at, new.context = job.context, new.dead = job.dead
        PROVE  JobsServed'
    BY <1>8, <1>11, <2>2, <2>4
  <2>5. ASSUME NEW error, Step(c, [job EXCEPT !.error = error])
        PROVE  JobsServed'
    <3> DEFINE new == [job EXCEPT !.error = error]
    <3>1. new.at = job.at /\ new.context = job.context /\ new.dead = job.dead
      BY <2>2, <2>3
    <3> HIDE DEF new
    <3> QED BY <2>4, <2>5, <3>1 DEF new
  <2>6. ASSUME NEW result, Return(c, job, result)
        PROVE  JobsServed'
    <3> DEFINE on == GoesOn(c, result)
               piece == IF on THEN job.piece + 1 ELSE job.piece
               phase == IF on THEN "send" ELSE "close"
               returned == Append(job.returned, result)
               new == [job EXCEPT !.returned = returned, !.total = 0, !.pending = 0, !.error = "other",
                                  !.piece = piece, !.phase = phase]
    <3>1. Step(c, new)
      BY <2>6 DEF Return
    <3> HIDE DEF piece, phase, returned
    <3>2. new.at = job.at /\ new.context = job.context /\ new.dead = job.dead
      BY <2>2, <2>3
    <3> HIDE DEF new
    <3> QED BY <2>4, <3>1, <3>2
  <2>7. ASSUME NEW result, EndTurn(c, job, result)
        PROVE  JobsServed'
    <3> DEFINE total == Add(conn[c].total, result)
               new == [job EXCEPT !.total = total, !.error = "other"]
    <3>1. CASE Step(c, new)
      <4> HIDE DEF total
      <4>1. new.at = job.at /\ new.context = job.context /\ new.dead = job.dead
        BY <2>2, <2>3
      <4> HIDE DEF new
      <4> QED BY <2>4, <3>1, <4>1
    <3>2. CASE Return(c, job, Signed(total))
      BY <2>6, <3>2
    <3> QED BY <2>7, <3>1, <3>2, Zenon DEF EndTurn
  <2> QED BY <2>5, <2>6, <2>7
<1>12. ASSUME NEW c \in Connections, SendSecure(c) \/ SendPlain(c)
       PROVE  JobsServed'
  <2>1. conn[c].phase = "send"
    BY <1>12, Zenon DEF SendSecure, SendPlain
  <2>2. ASSUME NEW job, job = conn[c] \/ \E units : job = Sent(c, units)
        PROVE  /\ \A error : Step(c, [job EXCEPT !.error = error]) => JobsServed'
               /\ \A result : Return(c, job, result) => JobsServed'
               /\ \A result : EndTurn(c, job, result) => JobsServed'
    BY <1>11, <2>1, <2>2, Zenon
  <2>3. \A units : \E u : Sent(c, units) = Sent(c, u)
    OBVIOUS
  <2> QED BY <1>12, <2>2, <2>3, Zenon DEF SendSecure, SendPlain
<1>13. ASSUME NEW c \in Connections, Close(c)
       PROVE  JobsServed'
  BY <1>3, <1>13 DEF Close
<1> QED BY <1>1, <1>2, <1>4, <1>6, <1>7, <1>10, <1>12, <1>13 DEF Next, JobNext

-----------------------------------------------------------------------------
(* Results.                                                                *)

ServiceInv == BinderInv /\ TableInv /\ OwnerInv /\ JobInv /\ JobsServed

LEMMA ServiceInvariant == Spec => []ServiceInv
<1>1. Init => ServiceInv
  BY PlacesInit, TableInit, OwnerInit DEF Init, ServiceInv, JobInv, JobsServed
<1>2. ServiceInv /\ [Next]_vars => ServiceInv'
  <2> SUFFICES ASSUME ServiceInv, [Next]_vars PROVE ServiceInv'
    OBVIOUS
  <2> USE DEF ServiceInv
  <2>1. BinderInv' /\ OwnerInv' /\ JobInv' /\ JobsServed'
    BY OwnerStep, JobStep, ServedStep
  <2>2. CASE BinderNext
    BY <2>1, <2>2, TableStep
  <2>3. CASE UNCHANGED binderVars
    <3>1. TableInv'
      BY <2>3 DEF binderVars, flags, tables, history, TableInv, TableTypes, Emptied, Related, ContextsMatch, NoneLeftOut,
                  Undisturbed, GoesOnServing, made, Contexts, Listener, Lost, Secure, First, Blocked
    <3> QED BY <2>1, <3>1
  <2> QED BY <2>2, <2>3, JobsOnly DEF Next, vars
<1> QED BY <1>1, <1>2, PTL DEF Spec

(* No context is freed twice, and a server that exits has freed the        *)
(* contexts and closed the sockets of all listeners it has served, as long *)
(* as the two threads that close listeners keep out of each other's way:   *)
(* for every list of applications, any ports, certificates, and number of  *)
(* Runs and commands.                                                      *)
THEOREM EveryContextFreedOnce == Spec => []FreedOnce
<1>1. ServiceInv => FreedOnce
  BY OwnerImplies DEF ServiceInv
<1> QED BY <1>1, ServiceInvariant, PTL

(* As long as the controller has not taken a step since the listeners were *)
(* bound, every one works whose port no earlier one, no other socket of    *)
(* the server and no other process holds and whose certificate could be    *)
(* loaded, be it of this Run or kept from one without a task: for every    *)
(* list of applications, any ports and certificates, whichever ports other *)
(* processes take, and whatever the Runs before have left behind.          *)
THEOREM GoodListenersWork == Spec => []ListenersWork
<1>1. ServiceInv => ListenersWork
  BY TablesImplied DEF ServiceInv
<1> QED BY <1>1, ServiceInvariant, PTL

(* The tables keep their types, and a connection is served as its listener *)
(* says, TLS with the listener's own and live context, plain without any,  *)
(* until the controller begins to close the listeners of its Run or those  *)
(* that a Run has left to it: for any number of jobs, however late they    *)
(* look their port up.                                                     *)
THEOREM ServedAsPromised == Spec => []TlsInv
<1>1. ServiceInv => TlsInv
  <2> SUFFICES ASSUME BinderInv, TableInv, JobInv, JobsServed PROVE TlsInv
    BY DEF ServiceInv
  <2>1. ASSUME NEW c \in Jobs
        PROVE  c \in Connections /\ conn[c] \in JobType /\ Honest(conn[c]) /\ Served(conn[c])
    BY DEF Jobs, JobInv, HonestJobs, JobsServed
  <2>2. TypeOK
    <3>1. ASSUME NEW c \in Jobs
          PROVE  /\ conn[c].phase \in {"resolve", "attach", "handshake", "receive", "send", "close"}
                 /\ conn[c].error \in {"wantRead", "wantWrite", "other"}
                 /\ conn[c].piece \in DOMAIN Answer /\ conn[c].total \in 0..Size(c) - 1
                 /\ conn[c].pending \in 0..Size(c) - 1
      <4>1. Size(c) \in Nat \ {0} /\ conn[c].pending < Size(c)
        BY <2>1, AnswerFacts DEF JobType, Size, Honest
      <4> QED BY <2>1, <4>1 DEF JobType
    <3> QED BY <3>1, TablesImplied DEF TypeOK
  <2>3. ServedAsListening
    <3> SUFFICES ASSUME NEW c \in Jobs, conn[c].phase # "resolve",
                        conn[c].context # (IF Listener(conn[c].at).tls THEN {conn[c].at} ELSE {}) \/ conn[c].dead
                 PROVE  stepped >= conn[c].at[1] \/ stepped >= since
      BY DEF ServedAsListening
    <3> DEFINE id == conn[c].at
    <3>1. id[1] \in Nat /\ stepped \in Nat /\ since \in Nat /\ Served(conn[c])
      BY <2>1 DEF JobType, Places, TableInv, TableTypes
    <3>2. SUFFICES ASSUME stepped < id[1], stepped < since PROVE FALSE
      BY <3>1
    <3>3. id \in transports /\ conn[c].dead = FALSE /\ conn[c].context = IF id[2] \in Secure THEN {id} ELSE {}
      BY <3>1, <3>2 DEF Served
    <3>4. id[2] \in DOMAIN options
      BY <3>3 DEF BinderInv, ListenerTypes, TableInv, TableTypes
    <3>5. Listener(id).tls <=> id[2] \in Secure
      BY <3>4 DEF Secure, Listener
    <3> QED BY <3>3, <3>5
  <2> QED BY <2>2, <2>3 DEF TlsInv
<1> QED BY <1>1, ServiceInvariant, PTL

(* A send that reports a length has sent its piece to the end, one that    *)
(* reports a failure has not and is the last, wherever in the piece it has *)
(* stopped; what a client has been sent is a beginning of its answer: for  *)
(* answers of any number and lengths of pieces, whatever the socket takes  *)
(* at a time and however often the library and the waits fail.             *)
THEOREM AnswersAreHonest == Spec => []AnswerHonest
<1>1. ServiceInv => AnswerHonest
  BY JobImplies DEF ServiceInv
<1> QED BY <1>1, ServiceInvariant, PTL
=============================================================================

-------------------------- MODULE LifecycleProofs --------------------------
(***************************************************************************)
(* Starting and stopping a peer, for any number of goroutines, Starts and  *)
(* Stops: what Lifecycle states of the flags, of the workers, of what a    *)
(* Stop leaves behind and of nil pointers is proved of every execution.    *)
(*                                                                         *)
(* The inductive invariant has three parts.  NumberInv says whose number   *)
(* is whose: a Start keeps its number to itself until its worker is        *)
(* launched.  SingleInv says that of the Starts that passed, one at most   *)
(* still has a worker to come, as long as none passed too early.           *)
(* UncrossedInv says, place by place, what a call that is alone knows of   *)
(* the router it works on.                                                 *)
(***************************************************************************)
EXTENDS Lifecycle, TLAPS

StartPlaces == {"assign", "startRouter", "startWorker"}
RouterPlaces ==
  {"checkServer", "shutServer", "clearServer", "testRouter", "awaitRouter", "clearRouter"}
Alive == {"launched", "running"}

CallerType == [pc : Places, n : Number \cup {Nil}, r : Number \cup {Nil}]
RouterType == [started : BOOLEAN, stopping : BOOLEAN, httpServer : Number \cup {Nil}]
BackgroundType == [pc : Goroutine, router : Number \cup {Nil}]

Types ==
  /\ started \in BOOLEAN /\ stopping \in BOOLEAN /\ panicked \in BOOLEAN
  /\ doubled \in BOOLEAN /\ crossed \in BOOLEAN
  /\ starts \in 0 .. MaxStarts
  /\ router1 \in 0 .. starts
  /\ routers \in [Number -> RouterType]
  /\ worker \in [Number -> Goroutine]
  /\ background \in [Number -> BackgroundType]
  /\ server \in [Number -> Goroutine]
  /\ caller \in [Callers -> CallerType]

NumberInv ==
  /\ \A g \in Callers :
       /\ caller[g].pc \in StartPlaces =>
            caller[g].n \in 1 .. starts /\ worker[caller[g].n] = "none"
       /\ caller[g].pc \notin StartPlaces => caller[g].n = Nil
       /\ caller[g].pc \in RouterPlaces => caller[g].r \in Number
  /\ \A g, h \in Callers : caller[g].n # Nil /\ caller[g].n = caller[h].n => g = h
  /\ \A n \in Number : n > starts => worker[n] = "none"
  /\ \A n \in Number : background[n].pc # "none" => background[n].router \in Number
  /\ started => \E n \in Number : worker[n] \in {"running", "done"}

(* Start n passed its test, and its worker has yet to begin. *)
Coming(n) == worker[n] = "launched" \/ \E g \in Callers : caller[g].n = n

SingleInv ==
  ~doubled =>
    /\ started <=> \E n \in Number : worker[n] = "running"
    /\ \A m, n \in Number : worker[m] = "running" /\ worker[n] = "running" => m = n
    /\ \A n \in Number : Coming(n) => /\ \A m \in Number : worker[m] # "running"
                                      /\ \A m \in Number : Coming(m) => m = n

(* What a call that is alone knows of its router and of what that runs. *)
Knows(g) ==
  /\ At(g, "assign") => ~routers[caller[g].n].stopping
  /\ At(g, "startRouter") => router1 = caller[g].n
  /\ At(g, "stopRouter") => router1 # Nil
  /\ caller[g].pc \in RouterPlaces => router1 = caller[g].r
  /\ At(g, "shutServer") => routers[caller[g].r].httpServer # Nil
  /\ caller[g].pc \in {"clearServer", "testRouter", "awaitRouter", "clearRouter"} =>
       server[caller[g].r] \notin Alive
  /\ At(g, "awaitRouter") => background[caller[g].r].pc \in {"running", "done"}
  /\ At(g, "clearRouter") =>
       background[caller[g].r].pc \notin Alive \/ caller[g].r \in missed

(* What Start n launched serves router n, which is the peer's or lost. *)
Serves(n) ==
  /\ n > starts => ~routers[n].stopping
  /\ routers[n].started <=> background[n].pc = "running"
  /\ routers[n].httpServer \in {Nil, n}
  /\ background[n].pc # "none" => background[n].router = n
  /\ server[n] \in Alive => routers[n].httpServer = n /\ (router1 = n \/ n \in abandoned)
  /\ background[n].pc \in Alive => router1 = n \/ n \in missed \cup abandoned

Alone == \A g, h \in Callers : ~At(g, "idle") /\ ~At(h, "idle") => g = h

(* The peer's router is stopping only while a Stop waits for it. *)
StoppingWaits ==
  router1 # Nil /\ routers[router1].stopping =>
    \E g \in Callers : At(g, "awaitRouter") \/ At(g, "clearRouter")

UncrossedInv ==
  ~crossed =>
    /\ ~panicked
    /\ Alone
    /\ StoppingWaits
    /\ \A g \in Callers : Knows(g)
    /\ \A n \in Number : Serves(n)

-----------------------------------------------------------------------------
(* What moving a caller on leaves as it is. *)
LEMMA Moved ==
  ASSUME NEW c \in [Callers -> CallerType], NEW g \in Callers, NEW p \in Places,
         NEW d, d = [c EXCEPT ![g].pc = p]
  PROVE  /\ d \in [Callers -> CallerType]
         /\ d[g].pc = p /\ d[g].n = c[g].n /\ d[g].r = c[g].r
         /\ \A h \in Callers : h # g => d[h] = c[h]
         /\ \A h \in Callers : d[h].n = c[h].n /\ d[h].r = c[h].r
BY DEF CallerType

(* A caller that has returned is idle again. *)
LEMMA Returned ==
  ASSUME NEW c \in [Callers -> CallerType], NEW g \in Callers,
         NEW d, d = [c EXCEPT ![g] = IdleCaller]
  PROVE  /\ d \in [Callers -> CallerType]
         /\ d[g].pc = "idle" /\ d[g].n = Nil /\ d[g].r = Nil
         /\ \A h \in Callers : h # g => d[h] = c[h]
BY DEF CallerType, IdleCaller, Places, Nil

-----------------------------------------------------------------------------
(* The types over every step. *)
LEMMA TypesStep == Types /\ NumberInv /\ [Next]_vars => Types'
<1> SUFFICES ASSUME Types, NumberInv, [Next]_vars PROVE Types'
  OBVIOUS
<1> USE BoundsAssumption
<1>1. CASE UNCHANGED vars
  BY <1>1 DEF Types, vars, peerVars, routerVars, history
<1>2. ASSUME NEW g \in Callers, StartTest(g) PROVE Types'
  <2>1. [pc |-> "assign", n |-> starts + 1, r |-> Nil] \in CallerType
    BY <1>2 DEF Types, StartTest, CallerType, Places, Number
  <2>2. caller' \in [Callers -> CallerType]
    BY <1>2, <2>1 DEF Types, StartTest
  <2>3. doubled' \in BOOLEAN /\ crossed' \in BOOLEAN
    BY <1>2 DEF StartTest, Types
  <2> QED
    BY <1>2, <2>2, <2>3 DEF Types, StartTest, peerVars, routerVars
<1>3. ASSUME NEW g \in Callers, StopTest(g) PROVE Types'
  <2>1. caller' \in [Callers -> CallerType]
    BY <1>3, Moved DEF Types, StopTest, Goto, Places
  <2> QED
    BY <1>3, <2>1 DEF Types, StopTest, routerVars
<1>4. ASSUME NEW g \in Callers, CallerStep(g) PROVE Types'
  <2>1. CASE AssignRouter(g)
    BY <2>1, Moved DEF Types, NumberInv, AssignRouter, At, Goto, Places, StartPlaces, routerVars
  <2>2. CASE StartRouter(g)
    <3>1. caller[g].n \in Number /\ router1 \in Number
      BY <2>2 DEF Types, NumberInv, StartRouter, At, StartPlaces, Number, Nil
    <3>2. caller' \in [Callers -> CallerType]
      BY <2>2, Moved DEF Types, StartRouter, Goto, Places
    <3>3. routers' \in [Number -> RouterType]
      BY <2>2, <3>1 DEF Types, StartRouter, routerVars, RouterType
    <3>4. background' \in [Number -> BackgroundType] /\ server' \in [Number -> Goroutine]
      BY <2>2, <3>1 DEF Types, StartRouter, routerVars, Goroutine, BackgroundType
    <3> QED
      BY <2>2, <3>2, <3>3, <3>4 DEF Types, StartRouter, peerVars, history
  <2>3. CASE StartWorker(g)
    BY <2>3, Returned DEF Types, NumberInv, StartWorker, At, Return, Goroutine, StartPlaces,
       Number, routerVars, history
  <2>4. CASE CheckRouter(g)
    BY <2>4, Moved DEF Types, CheckRouter, Goto, Places, peerVars, routerVars, history
  <2>5. CASE StopRouter(g)
    <3>1. router1 \in Number \cup {Nil}
      BY DEF Types, Number, Nil
    <3>2. [caller[g] EXCEPT !.r = router1, !.pc = "checkServer"] \in CallerType
      BY <3>1 DEF Types, CallerType, Places
    <3>3. caller' \in [Callers -> CallerType]
      BY <2>5, <3>2 DEF Types, StopRouter
    <3> QED
      BY <2>5, <3>3 DEF Types, StopRouter, peerVars, routerVars, history
  <2>6. CASE CheckServer(g)
    BY <2>6, Moved DEF Types, CheckServer, Goto, Places, peerVars, routerVars, history
  <2>7. CASE ShutServer(g)
    <3>1. caller' \in [Callers -> CallerType]
      BY <2>7, Moved DEF Types, ShutServer, Goto, Places
    <3>2. server' \in [Number -> Goroutine]
      BY <2>7 DEF Types, ShutServer, Goroutine
    <3> QED
      BY <2>7, <3>1, <3>2 DEF Types, ShutServer, peerVars, history
  <2>8. CASE ClearServer(g)
    <3>1. caller' \in [Callers -> CallerType]
      <4>1. caller' = [caller EXCEPT ![g].pc = "testRouter"] /\ "testRouter" \in Places
        BY <2>8 DEF ClearServer, Goto, Places
      <4> QED
        BY <4>1, Moved DEF Types
    <3>2. routers' \in [Number -> RouterType]
      <4>1. [routers EXCEPT ![caller[g].r].httpServer = Nil] \in [Number -> RouterType]
        BY DEF Types, RouterType
      <4> QED
        BY <2>8, <4>1 DEF ClearServer
    <3> QED
      BY <2>8, <3>1, <3>2 DEF Types, ClearServer, peerVars, history
  <2>9. CASE TestRouter(g)
    <3>1. caller' \in [Callers -> CallerType]
      BY <2>9, Moved DEF Types, TestRouter, Goto, Places
    <3>2. routers' \in [Number -> RouterType]
      <4>1. [routers EXCEPT ![caller[g].r].stopping = TRUE] \in [Number -> RouterType]
        BY DEF Types, RouterType
      <4> QED
        BY <2>9, <4>1 DEF Types, TestRouter
    <3> QED
      BY <2>9, <3>1, <3>2 DEF Types, TestRouter, peerVars
  <2>10. CASE AwaitRouter(g) \/ ClearRouter(g)
    BY <2>10, Moved DEF Types, AwaitRouter, ClearRouter, Goto, Places, peerVars, routerVars,
       history, Nil
  <2>11. CASE StopReturns(g) \/ StopTimesOut(g)
    BY <2>11, Returned DEF Types, StopReturns, StopTimesOut, Return, peerVars, routerVars, history
  <2>12. CASE UseNil(g)
    BY <2>12 DEF Types, UseNil, Panic, peerVars, routerVars, history
  <2> QED
    BY <1>4, <2>1, <2>2, <2>3, <2>4, <2>5, <2>6, <2>7, <2>8, <2>9, <2>10, <2>11, <2>12
       DEF CallerStep
<1>5. ASSUME NEW n \in Number, Launched(n) PROVE Types'
  <2>1. CASE WorkerBegins(n) \/ WorkerEnds(n)
    BY <2>1 DEF Types, WorkerBegins, WorkerEnds, Goroutine, routerVars, history
  <2>2. CASE BackgroundBegins(n) \/ BackgroundEnds(n)
    <3>1. background[n].router \in Number
      BY <2>2 DEF NumberInv, BackgroundBegins, BackgroundEnds
    <3>2. routers' \in [Number -> RouterType]
      <4>1. \A b \in BOOLEAN :
              [routers EXCEPT ![background[n].router].started = b] \in [Number -> RouterType]
        BY <3>1 DEF Types, RouterType
      <4> QED
        BY <2>2, <4>1 DEF BackgroundBegins, BackgroundEnds
    <3>3. background' \in [Number -> BackgroundType]
      BY <2>2, <3>1 DEF Types, BackgroundBegins, BackgroundEnds, Goroutine, BackgroundType
    <3> QED
      BY <2>2, <3>2, <3>3 DEF Types, BackgroundBegins, BackgroundEnds, peerVars, history
  <2>3. CASE Listen(n)
    BY <2>3 DEF Types, Listen, Goroutine, peerVars, history
  <2> QED
    BY <1>5, <2>1, <2>2, <2>3 DEF Launched
<1> QED
  BY <1>1, <1>2, <1>3, <1>4, <1>5 DEF Next

-----------------------------------------------------------------------------
(* The numbering of the workers over every step. *)
LEMMA NumberStep == Types /\ NumberInv /\ [Next]_vars => NumberInv'
<1> SUFFICES ASSUME Types, NumberInv, [Next]_vars PROVE NumberInv'
  OBVIOUS
<1> USE BoundsAssumption
<1>1. CASE UNCHANGED vars
  BY <1>1 DEF NumberInv, vars, peerVars, routerVars, history
<1>2. ASSUME NEW g \in Callers, StartTest(g) PROVE NumberInv'
  <2>1. /\ caller'[g] = [pc |-> "assign", n |-> starts + 1, r |-> Nil]
        /\ \A h \in Callers : h # g => caller'[h] = caller[h]
    BY <1>2 DEF StartTest, Types
  <2>2. starts \in Nat /\ starts + 1 \in Number /\ starts' = starts + 1
    BY <1>2 DEF StartTest, Types, Number
  <2>3. UNCHANGED <<worker, started, background>>
    BY <1>2 DEF StartTest, peerVars, routerVars
  <2>4. worker[starts + 1] = "none"
    BY <2>2 DEF NumberInv
  <2>5. \A h \in Callers : caller[h].n # starts + 1
    BY <2>2 DEF NumberInv, Nil
  <2>6. ASSUME NEW h \in Callers
        PROVE  /\ caller'[h].pc \in StartPlaces =>
                    caller'[h].n \in 1 .. starts' /\ worker[caller'[h].n] = "none"
               /\ caller'[h].pc \notin StartPlaces => caller'[h].n = Nil
               /\ caller'[h].pc \in RouterPlaces => caller'[h].r \in Number
    <3>1. CASE h = g
      BY <3>1, <2>1, <2>2, <2>4 DEF StartPlaces, RouterPlaces
    <3>2. CASE h # g
      BY <3>2, <2>1, <2>2 DEF NumberInv
    <3> QED
      BY <3>1, <3>2
  <2>7. \A h, k \in Callers : caller'[h].n # Nil /\ caller'[h].n = caller'[k].n => h = k
    BY <2>1, <2>5 DEF NumberInv
  <2> QED
    BY <2>2, <2>3, <2>6, <2>7 DEF NumberInv, Number
<1>3. ASSUME NEW g \in Callers,
             caller'[g].n = caller[g].n,
             caller'[g].pc \in StartPlaces <=> caller[g].pc \in StartPlaces,
             caller'[g].pc \in RouterPlaces => caller'[g].r \in Number,
             \A h \in Callers : h # g => caller'[h] = caller[h],
             UNCHANGED <<starts, worker, started>>,
             \A n \in Number : background'[n].pc # "none" => background'[n].router \in Number
      PROVE  NumberInv'
  <2>1. \A h \in Callers : caller'[h].n = caller[h].n
    BY <1>3
  <2> QED
    BY <1>3, <2>1 DEF NumberInv
<1>4. ASSUME NEW g \in Callers, StopTest(g) PROVE NumberInv'
  BY <1>4, <1>3, Moved DEF Types, NumberInv, StopTest, At, Goto, Places, StartPlaces,
     RouterPlaces, routerVars
<1>5. ASSUME NEW g \in Callers, CallerStep(g) PROVE NumberInv'
  <2>1. CASE AssignRouter(g)
    BY <2>1, <1>3, Moved DEF Types, NumberInv, AssignRouter, At, Goto, Places, StartPlaces,
       RouterPlaces, routerVars
  <2>2. CASE StartRouter(g)
    <3>1. caller[g].n \in Number /\ router1 \in Number
      BY <2>2 DEF Types, NumberInv, StartRouter, At, StartPlaces, Number, Nil
    <3>2. \A n \in Number : background'[n].pc # "none" => background'[n].router \in Number
      <4>1. CASE UNCHANGED background
        BY <4>1 DEF NumberInv
      <4>2. CASE background' =
                   [background EXCEPT ![caller[g].n] = [pc |-> "launched", router |-> router1]]
        BY <4>2, <3>1 DEF NumberInv, Types
      <4> QED
        BY <2>2, <4>1, <4>2 DEF StartRouter, routerVars
    <3> QED
      BY <2>2, <3>2, <1>3, Moved DEF Types, StartRouter, At, Goto, Places, StartPlaces,
         RouterPlaces, peerVars, history
  <2>3. CASE StartWorker(g)
    <3> DEFINE m == caller[g].n
    <3>1. m \in 1 .. starts /\ m \in Number /\ m # Nil
      BY <2>3 DEF Types, NumberInv, StartWorker, At, StartPlaces, Number, Nil
    <3>2. /\ caller'[g].pc = "idle" /\ caller'[g].n = Nil
          /\ \A h \in Callers : h # g => caller'[h] = caller[h]
      BY <2>3, Returned DEF Types, StartWorker, Return
    <3>3. /\ worker' = [worker EXCEPT ![m] = "launched"]
          /\ UNCHANGED <<started, starts, background>>
      BY <2>3 DEF StartWorker, routerVars, history
    <3>4. worker[m] = "none"
      BY <2>3 DEF NumberInv, StartWorker, At, StartPlaces
    <3>5. \A h \in Callers : h # g => caller[h].n # m
      BY <3>1 DEF NumberInv
    <3> HIDE DEF m
    <3>6. \A n \in Number : n # m => worker'[n] = worker[n]
      BY <3>3 DEF Types
    <3>7. ASSUME NEW h \in Callers
          PROVE  /\ caller'[h].pc \in StartPlaces =>
                      caller'[h].n \in 1 .. starts /\ worker'[caller'[h].n] = "none"
                 /\ caller'[h].pc \notin StartPlaces => caller'[h].n = Nil
                 /\ caller'[h].pc \in RouterPlaces => caller'[h].r \in Number
      <4>1. CASE h = g
        BY <4>1, <3>2 DEF StartPlaces, RouterPlaces
      <4>2. CASE h # g
        BY <4>2, <3>2, <3>5, <3>6 DEF NumberInv, Types, Number
      <4> QED
        BY <4>1, <4>2
    <3>8. \A h, k \in Callers : caller'[h].n # Nil /\ caller'[h].n = caller'[k].n => h = k
      BY <3>2 DEF NumberInv
    <3>9. \A n \in Number : n > starts => worker'[n] = "none"
      BY <3>1, <3>6 DEF NumberInv, Types
    <3>10. started => \E n \in Number : worker'[n] \in {"running", "done"}
      BY <3>4, <3>6 DEF NumberInv
    <3> QED
      BY <3>3, <3>7, <3>8, <3>9, <3>10 DEF NumberInv
  <2>4. CASE CheckRouter(g)
    BY <2>4, <1>3, Moved DEF Types, NumberInv, CheckRouter, At, Goto, Places, StartPlaces,
       RouterPlaces, peerVars, routerVars, history
  <2>5. CASE StopRouter(g)
    <3>1. router1 \in Number
      BY <2>5 DEF StopRouter, Types, Number, Nil
    <3>2. /\ caller'[g].pc = "checkServer" /\ caller'[g].r = router1
          /\ caller'[g].n = caller[g].n
          /\ \A h \in Callers : h # g => caller'[h] = caller[h]
      BY <2>5 DEF Types, StopRouter, CallerType
    <3> QED
      BY <2>5, <3>1, <3>2, <1>3 DEF NumberInv, StopRouter, At, StartPlaces, RouterPlaces,
         peerVars, routerVars, history
  <2>6. CASE CheckServer(g) \/ ShutServer(g) \/ ClearServer(g) \/ AwaitRouter(g)
    <3>1. caller[g].pc \in RouterPlaces
      BY <2>6 DEF CheckServer, ShutServer, ClearServer, AwaitRouter, At, RouterPlaces
    <3>2. PICK p \in RouterPlaces : Goto(g, p)
      BY <2>6 DEF CheckServer, ShutServer, ClearServer, AwaitRouter, RouterPlaces
    <3>3. /\ caller'[g].pc = p /\ caller'[g].n = caller[g].n /\ caller'[g].r = caller[g].r
          /\ \A h \in Callers : h # g => caller'[h] = caller[h]
      BY <3>2 DEF Goto, Types, CallerType
    <3>4. UNCHANGED <<starts, worker, started, background>>
      BY <2>6 DEF CheckServer, ShutServer, ClearServer, AwaitRouter, peerVars, routerVars, history
    <3> QED
      BY <1>3, <3>1, <3>3, <3>4 DEF NumberInv, StartPlaces, RouterPlaces
  <2>7. CASE TestRouter(g)
    BY <2>7, <1>3, Moved DEF Types, NumberInv, TestRouter, At, Goto, Places, StartPlaces,
       RouterPlaces, peerVars
  <2>8. CASE ClearRouter(g)
    BY <2>8, <1>3, Moved DEF Types, NumberInv, ClearRouter, At, Goto, Places, StartPlaces,
       RouterPlaces, routerVars, history
  <2>9. CASE StopReturns(g) \/ StopTimesOut(g)
    BY <2>9, <1>3, Returned DEF Types, NumberInv, StopReturns, StopTimesOut, At, Return,
       StartPlaces, RouterPlaces, peerVars, routerVars, history
  <2>10. CASE UseNil(g)
    BY <2>10 DEF NumberInv, UseNil, Panic, peerVars, routerVars, history
  <2> QED
    BY <1>5, <2>1, <2>2, <2>3, <2>4, <2>5, <2>6, <2>7, <2>8, <2>9, <2>10 DEF CallerStep
<1>6. ASSUME NEW n \in Number, Launched(n) PROVE NumberInv'
  <2>1. CASE WorkerBegins(n) \/ WorkerEnds(n)
    <3>1. /\ worker[n] # "none" /\ worker'[n] \in {"running", "done"}
          /\ \A m \in Number : m # n => worker'[m] = worker[m]
          /\ UNCHANGED <<starts, caller, background>>
      BY <2>1 DEF Types, WorkerBegins, WorkerEnds, routerVars, history
    <3> QED
      BY <3>1 DEF NumberInv, Types, Number
  <2>2. CASE BackgroundBegins(n) \/ BackgroundEnds(n)
    <3>1. /\ background[n].pc # "none" /\ background'[n].router = background[n].router
          /\ \A m \in Number : m # n => background'[m] = background[m]
          /\ UNCHANGED <<starts, caller, worker, started>>
      BY <2>2 DEF Types, BackgroundBegins, BackgroundEnds, BackgroundType, peerVars, history
    <3> QED
      BY <3>1 DEF NumberInv
  <2>3. CASE Listen(n)
    BY <2>3 DEF NumberInv, Listen, peerVars, history
  <2> QED
    BY <1>6, <2>1, <2>2, <2>3 DEF Launched
<1> QED
  BY <1>1, <1>2, <1>4, <1>5, <1>6 DEF Next

-----------------------------------------------------------------------------
(* One Start and one Stop at a time, over every step. *)
LEMMA SingleStep == Types /\ NumberInv /\ SingleInv /\ [Next]_vars => SingleInv'
<1> SUFFICES ASSUME Types, NumberInv, SingleInv, [Next]_vars PROVE SingleInv'
  OBVIOUS
<1> USE BoundsAssumption
<1>1. ASSUME \A h \in Callers : caller'[h].n = caller[h].n, UNCHANGED <<worker, started, doubled>>
      PROVE  SingleInv'
  BY <1>1 DEF SingleInv, Coming
<1>2. ASSUME UNCHANGED <<caller, worker, started, doubled>> PROVE SingleInv'
  BY <1>2, <1>1
<1>3. ASSUME NEW g \in Callers, StartTest(g) PROVE SingleInv'
  <2>1. /\ caller'[g].n = starts + 1
        /\ \A h \in Callers : h # g => caller'[h] = caller[h]
    BY <1>3 DEF StartTest, Types
  <2>2. starts + 1 \in Number /\ starts + 1 # Nil
    BY <1>3 DEF StartTest, Types, Number, Nil
  <2>3. ~started /\ UNCHANGED <<worker, started>>
    BY <1>3 DEF StartTest, peerVars
  <2>4. SUFFICES ASSUME ~doubled' PROVE SingleInv'
    BY DEF SingleInv
  <2>5. /\ ~doubled
        /\ \A h \in Callers : caller[h].n = Nil
        /\ \A n \in Number : worker[n] # "launched"
    BY <1>3, <2>4 DEF StartTest
  <2>6. \A n \in Number : worker[n] # "running"
    BY <2>3, <2>5 DEF SingleInv
  <2>7. ASSUME NEW n \in Number, Coming(n)' PROVE n = starts + 1
    <3>1. PICK h \in Callers : caller'[h].n = n
      BY <2>3, <2>5, <2>7 DEF Coming
    <3>2. CASE h = g
      BY <3>1, <3>2, <2>1
    <3>3. CASE h # g
      BY <3>1, <3>3, <2>1, <2>5 DEF Number, Nil
    <3> QED
      BY <3>2, <3>3
  <2> QED
    BY <2>3, <2>6, <2>7 DEF SingleInv
<1>4. ASSUME NEW g \in Callers, StopTest(g) PROVE SingleInv'
  BY <1>4, <1>1, Moved DEF Types, StopTest, Goto, Places
<1>5. ASSUME NEW g \in Callers, CallerStep(g) PROVE SingleInv'
  <2>1. CASE StartWorker(g)
    <3> DEFINE m == caller[g].n
    <3>1. m \in Number /\ m # Nil
      BY <2>1 DEF Types, NumberInv, StartWorker, At, StartPlaces, Number, Nil
    <3>2. /\ caller'[g].n = Nil
          /\ \A h \in Callers : h # g => caller'[h] = caller[h]
      BY <2>1, Returned DEF Types, StartWorker, Return
    <3>3. worker' = [worker EXCEPT ![m] = "launched"] /\ UNCHANGED <<started, doubled>>
      BY <2>1 DEF StartWorker, history
    <3>4. worker[m] = "none"
      BY <2>1 DEF NumberInv, StartWorker, At, StartPlaces
    <3>5. Coming(m)
      BY DEF Coming
    <3> HIDE DEF m
    <3>6. worker'[m] = "launched" /\ \A n \in Number : n # m => worker'[n] = worker[n]
      BY <3>1, <3>3 DEF Types
    <3>7. \A n \in Number : Coming(n)' => Coming(n)
      <4> SUFFICES ASSUME NEW n \in Number, Coming(n)' PROVE Coming(n)
        OBVIOUS
      <4>1. CASE n = m
        BY <4>1, <3>5
      <4>2. CASE n # m /\ worker'[n] = "launched"
        BY <4>2, <3>6 DEF Coming
      <4>3. CASE \E h \in Callers : caller'[h].n = n
        <5>1. PICK h \in Callers : caller'[h].n = n
          BY <4>3
        <5>2. h # g
          BY <5>1, <3>2 DEF Number, Nil
        <5> QED
          BY <5>1, <5>2, <3>2 DEF Coming
      <4> QED
        BY <4>1, <4>2, <4>3 DEF Coming
    <3>8. \A n \in Number : worker'[n] = "running" <=> worker[n] = "running"
      BY <3>4, <3>6
    <3> QED
      BY <3>3, <3>7, <3>8 DEF SingleInv
  <2>2. CASE StopRouter(g)
    <3>1. \A h \in Callers : caller'[h].n = caller[h].n
      BY <2>2 DEF Types, StopRouter, CallerType
    <3> QED
      BY <2>2, <3>1, <1>1 DEF StopRouter, peerVars, history
  <2>3. CASE StopReturns(g) \/ StopTimesOut(g)
    BY <2>3, <1>1, Returned DEF Types, NumberInv, StopReturns, StopTimesOut, At, Return,
       StartPlaces, peerVars, history
  <2>4. CASE UseNil(g)
    BY <2>4, <1>2 DEF UseNil, Panic, peerVars, history
  <2>5. CASE \E p \in Places : Goto(g, p)
    <3>1. \A h \in Callers : caller'[h].n = caller[h].n
      BY <2>5 DEF Goto, Types, CallerType
    <3>2. CASE \/ AssignRouter(g) \/ StartRouter(g)
               \/ CheckRouter(g) \/ CheckServer(g) \/ ShutServer(g)
      BY <3>1, <3>2, <1>1 DEF AssignRouter, StartRouter, CheckRouter, CheckServer, ShutServer,
         peerVars, history
    <3>3. CASE ClearServer(g) \/ TestRouter(g) \/ AwaitRouter(g) \/ ClearRouter(g)
      BY <3>1, <3>3, <1>1 DEF ClearServer, TestRouter, AwaitRouter, ClearRouter, peerVars, history
    <3> QED
      BY <1>5, <2>1, <2>2, <2>3, <2>4, <3>2, <3>3 DEF CallerStep
  <2>6. \/ StartWorker(g) \/ StopRouter(g) \/ StopReturns(g) \/ StopTimesOut(g) \/ UseNil(g)
        \/ \E p \in Places : Goto(g, p)
    BY <1>5 DEF CallerStep, AssignRouter, StartRouter, CheckRouter, CheckServer, ShutServer,
       ClearServer, TestRouter, AwaitRouter, ClearRouter, Places
  <2> QED
    BY <1>5, <2>1, <2>2, <2>3, <2>4, <2>5, <2>6 DEF CallerStep
<1>6. ASSUME NEW n \in Number, Launched(n) PROVE SingleInv'
  <2>1. CASE WorkerBegins(n)
    <3>1. /\ worker[n] = "launched" /\ worker'[n] = "running" /\ started'
          /\ \A m \in Number : m # n => worker'[m] = worker[m]
          /\ UNCHANGED <<caller, doubled>>
      BY <2>1 DEF Types, WorkerBegins, history
    <3>2. SUFFICES ASSUME ~doubled PROVE SingleInv'
      BY <3>1 DEF SingleInv
    <3>3. Coming(n)
      BY <3>1 DEF Coming
    <3>4. \A m \in Number : worker[m] # "running"
      BY <3>2, <3>3 DEF SingleInv
    <3>5. \A m \in Number : Coming(m) => m = n
      BY <3>2, <3>3 DEF SingleInv
    <3>6. \A m \in Number : ~Coming(m)'
      <4> SUFFICES ASSUME NEW m \in Number, Coming(m)' PROVE FALSE
        OBVIOUS
      <4>1. Coming(m) \/ m = n
        BY <3>1 DEF Coming
      <4>2. m = n
        BY <4>1, <3>5
      <4>3. PICK g \in Callers : caller[g].n = n
        BY <4>2, <3>1 DEF Coming
      <4>4. caller[g].pc \in StartPlaces
        BY <4>3 DEF NumberInv, Number, Nil
      <4> QED
        BY <4>3, <4>4, <3>1 DEF NumberInv
    <3> QED
      BY <3>1, <3>4, <3>6 DEF SingleInv
  <2>2. CASE WorkerEnds(n)
    <3>1. /\ worker[n] = "running" /\ worker'[n] = "done" /\ ~started'
          /\ \A m \in Number : m # n => worker'[m] = worker[m]
          /\ UNCHANGED <<caller, doubled>>
      BY <2>2 DEF Types, WorkerEnds, history
    <3>2. \A m \in Number : Coming(m)' => Coming(m)
      BY <3>1 DEF Coming
    <3> QED
      BY <3>1, <3>2 DEF SingleInv
  <2>3. CASE BackgroundBegins(n) \/ BackgroundEnds(n) \/ Listen(n)
    BY <2>3, <1>2 DEF BackgroundBegins, BackgroundEnds, Listen, peerVars, history
  <2> QED
    BY <1>6, <2>1, <2>2, <2>3 DEF Launched
<1>7. CASE UNCHANGED vars
  BY <1>7, <1>2 DEF vars, peerVars, history
<1> QED
  BY <1>3, <1>4, <1>5, <1>6, <1>7 DEF Next

-----------------------------------------------------------------------------
(* While no calls have crossed, over every step. *)
LEMMA UncrossedStep == Types /\ NumberInv /\ UncrossedInv /\ [Next]_vars => UncrossedInv'
<1> SUFFICES ASSUME Types, NumberInv, UncrossedInv, [Next]_vars, ~crossed'
             PROVE  UncrossedInv'
  BY DEF UncrossedInv
<1> USE BoundsAssumption
<1>1. CASE UNCHANGED vars
  BY <1>1 DEF UncrossedInv, Alone, StoppingWaits, Knows, Serves, At, vars, peerVars, routerVars,
     history
<1>2. ASSUME NEW g \in Callers, \A h \in Callers : h # g => caller'[h].pc = "idle",
             Knows(g)', \A n \in Number : Serves(n)', StoppingWaits', ~panicked'
      PROVE  UncrossedInv'
  <2>1. \A h \in Callers : h # g => Knows(h)'
    BY <1>2 DEF Knows, At, RouterPlaces
  <2> QED
    BY <1>2, <2>1 DEF UncrossedInv, Alone, At
<1>3. ASSUME NEW g \in Callers, StartTest(g) PROVE UncrossedInv'
  <2>1. /\ ~crossed /\ \A h \in Callers : At(h, "idle")
        /\ UNCHANGED <<peerVars, routerVars, missed, abandoned, panicked>>
        /\ starts' = starts + 1
    BY <1>3 DEF StartTest, Busy
  <2>2. /\ caller'[g].pc = "assign" /\ caller'[g].n = starts + 1
        /\ \A h \in Callers : h # g => caller'[h] = caller[h]
    BY <1>3 DEF StartTest, Types
  <2>3. starts + 1 \in Number /\ starts \in Nat /\ starts + 1 > starts
    BY <1>3 DEF StartTest, Types, Number
  <2>4. Knows(g)'
    BY <2>1, <2>2, <2>3 DEF UncrossedInv, Knows, Serves, At, RouterPlaces, peerVars, routerVars
  <2>5. StoppingWaits'
    BY <2>1 DEF UncrossedInv, StoppingWaits, At, peerVars, routerVars
  <2>6. \A n \in Number : Serves(n)'
    BY <2>1, <2>3 DEF UncrossedInv, Serves, peerVars, routerVars, Number
  <2> QED
    BY <1>2, <2>1, <2>2, <2>4, <2>5, <2>6 DEF UncrossedInv, At
<1>4. ASSUME NEW g \in Callers, StopTest(g) PROVE UncrossedInv'
  <2>1. /\ ~crossed /\ \A h \in Callers : At(h, "idle")
        /\ UNCHANGED <<router1, routerVars, starts, missed, abandoned, panicked>>
    BY <1>4 DEF StopTest, Busy
  <2>2. /\ caller'[g].pc = "checkRouter"
        /\ \A h \in Callers : h # g => caller'[h] = caller[h]
    BY <1>4, Moved DEF StopTest, Types, Goto, Places
  <2>3. Knows(g)'
    BY <2>2 DEF Knows, At, RouterPlaces
  <2>4. StoppingWaits'
    BY <2>1 DEF UncrossedInv, StoppingWaits, At, routerVars
  <2>5. \A n \in Number : Serves(n)'
    BY <2>1 DEF UncrossedInv, Serves, routerVars
  <2> QED
    BY <1>2, <2>1, <2>2, <2>3, <2>4, <2>5 DEF UncrossedInv, At
<1>5. ASSUME NEW g \in Callers, CallerStep(g) PROVE UncrossedInv'
  <2>0. ~crossed
    BY <1>5 DEF CallerStep, AssignRouter, StartRouter, StartWorker, CheckRouter, StopRouter,
       CheckServer, ShutServer, ClearServer, TestRouter, AwaitRouter, ClearRouter, StopReturns,
       StopTimesOut, UseNil, Panic, history
  <2>1. /\ ~panicked /\ StoppingWaits /\ Knows(g)
        /\ \A n \in Number : Serves(n)
    BY <2>0 DEF UncrossedInv
  <2>2. \A h \in Callers : h # g => caller'[h].pc = "idle"
    <3>1. ~At(g, "idle")
      BY <1>5 DEF CallerStep, AssignRouter, StartRouter, StartWorker, CheckRouter, StopRouter,
         CheckServer, ShutServer, ClearServer, TestRouter, AwaitRouter, ClearRouter, StopReturns,
         StopTimesOut, UseNil, At
    <3>2. \A h \in Callers : h # g => caller[h].pc = "idle"
      BY <2>0, <3>1 DEF UncrossedInv, Alone, At
    <3>3. \A h \in Callers : h # g => caller'[h] = caller[h]
      BY <1>5 DEF CallerStep, AssignRouter, StartRouter, StartWorker, CheckRouter, StopRouter,
         CheckServer, ShutServer, ClearServer, TestRouter, AwaitRouter, ClearRouter, StopReturns,
         StopTimesOut, UseNil, Panic, Goto, Return, Types
    <3> QED
      BY <3>2, <3>3
  <2>3. CASE AssignRouter(g)
    <3> DEFINE m == caller[g].n
    <3>1. m \in 1 .. starts /\ m \in Number
      BY <2>3 DEF NumberInv, AssignRouter, At, StartPlaces, Types, Number
    <3>2. caller'[g].pc = "startRouter" /\ caller'[g].n = m
      BY <2>3, Moved DEF AssignRouter, Goto, Types, Places
    <3>3. /\ router1' = m /\ abandoned' = abandoned \cup ({router1} \ {Nil})
          /\ UNCHANGED <<routers, background, server, starts, missed, panicked>>
      BY <2>3 DEF AssignRouter, routerVars
    <3>4. ~routers[m].stopping
      BY <2>1, <2>3 DEF Knows, AssignRouter
    <3>5. Knows(g)'
      BY <3>2, <3>3 DEF Knows, At, RouterPlaces
    <3>6. StoppingWaits'
      BY <3>3, <3>4 DEF StoppingWaits
    <3>7. \A n \in Number : Serves(n)'
      BY <2>1, <3>3 DEF Serves, Number, Nil
    <3> QED
      BY <1>2, <2>1, <2>2, <3>3, <3>5, <3>6, <3>7
  <2>4. CASE StartRouter(g)
    <3> DEFINE m == caller[g].n
    <3>1. m \in Number /\ m \in 1 .. starts /\ router1 = m
      BY <2>1, <2>4 DEF NumberInv, StartRouter, At, StartPlaces, Types, Number, Knows
    <3>2. caller'[g].pc = "startWorker"
      BY <2>4, Moved DEF StartRouter, Goto, Types, Places
    <3>3. UNCHANGED <<router1, starts, missed, abandoned, panicked>>
      BY <2>4 DEF StartRouter, peerVars, history
    <3>4. Knows(g)'
      BY <3>2 DEF Knows, At, RouterPlaces
    <3>5. CASE UNCHANGED routerVars
      <4>1. StoppingWaits'
        <5>1. At(g, "startRouter")
          BY <2>4 DEF StartRouter
        <5>2. \A h \in Callers : ~At(h, "awaitRouter") /\ ~At(h, "clearRouter")
          BY <5>1, <2>0 DEF UncrossedInv, Alone, At
        <5> QED
          BY <5>2, <2>1, <3>3, <3>5 DEF StoppingWaits, routerVars
      <4>2. \A n \in Number : Serves(n)'
        BY <2>1, <3>3, <3>5 DEF Serves, routerVars
      <4> QED
        BY <1>2, <2>1, <2>2, <3>3, <3>4, <4>1, <4>2
    <3>6. CASE ~UNCHANGED routerVars
      <4>1. /\ ~routers[m].started /\ ~routers[m].stopping
            /\ background' = [background EXCEPT ![m] = [pc |-> "launched", router |-> m]]
            /\ server' = [server EXCEPT ![m] = "launched"]
            /\ routers' = [routers EXCEPT ![m].httpServer = m]
        BY <2>4, <3>1, <3>6 DEF StartRouter
      <4> HIDE DEF m
      <4>2. /\ background'[m].pc = "launched" /\ background'[m].router = m
            /\ server'[m] = "launched" /\ routers'[m].httpServer = m
            /\ \A n \in Number : n # m => /\ background'[n] = background[n]
                                          /\ server'[n] = server[n] /\ routers'[n] = routers[n]
            /\ routers'[m].started = routers[m].started
            /\ routers'[m].stopping = routers[m].stopping
        BY <3>1, <4>1 DEF Types, BackgroundType, RouterType
      <4>3. StoppingWaits'
        BY <3>1, <3>3, <4>1, <4>2 DEF StoppingWaits
      <4>4. ASSUME NEW n \in Number PROVE Serves(n)'
        <5>1. CASE n = m
          BY <5>1, <2>1, <3>1, <3>3, <4>1, <4>2 DEF Serves, Nil
        <5>2. CASE n # m
          BY <5>2, <2>1, <3>3, <4>2 DEF Serves
        <5> QED
          BY <5>1, <5>2
      <4> QED
        BY <1>2, <2>1, <2>2, <3>3, <3>4, <4>3, <4>4
    <3> QED
      BY <3>5, <3>6
  <2>16. ASSUME UNCHANGED <<router1, routerVars, starts, missed, abandoned, panicked>>,
                Knows(g)', ~At(g, "awaitRouter"), ~At(g, "clearRouter")
         PROVE  UncrossedInv'
    <3>1. ~At(g, "idle")
      BY <1>5 DEF CallerStep, AssignRouter, StartRouter, StartWorker, CheckRouter, StopRouter,
         CheckServer, ShutServer, ClearServer, TestRouter, AwaitRouter, ClearRouter, StopReturns,
         StopTimesOut, UseNil, At
    <3>2. \A h \in Callers : ~At(h, "awaitRouter") /\ ~At(h, "clearRouter")
      BY <2>0, <2>16, <3>1 DEF UncrossedInv, Alone, At
    <3>3. StoppingWaits'
      BY <2>1, <2>16, <3>2 DEF StoppingWaits, routerVars
    <3>4. \A n \in Number : Serves(n)'
      BY <2>1, <2>16 DEF Serves, routerVars
    <3> QED
      BY <1>2, <2>1, <2>2, <2>16, <3>3, <3>4
  <2>5. CASE StartWorker(g)
    <3>1. caller'[g].pc = "idle"
      BY <2>5, Returned DEF StartWorker, Return, Types
    <3> QED
      BY <2>5, <2>16, <3>1 DEF StartWorker, Knows, At, RouterPlaces, history
  <2>6. CASE CheckRouter(g)
    <3>1. caller'[g].pc = IF router1 # Nil THEN "stopRouter" ELSE "awaitWorker"
      BY <2>6, Moved DEF CheckRouter, Goto, Types, Places
    <3> QED
      BY <2>6, <2>16, <3>1 DEF CheckRouter, Knows, At, RouterPlaces, peerVars, history
  <2>7. CASE StopRouter(g)
    <3>1. caller'[g].pc = "checkServer" /\ caller'[g].r = router1
      BY <2>7 DEF StopRouter, Types, CallerType
    <3> QED
      BY <2>7, <2>16, <3>1 DEF StopRouter, Knows, At, RouterPlaces, peerVars, history
  <2>8. CASE CheckServer(g)
    <3> DEFINE r == caller[g].r
    <3>1. r \in Number /\ router1 = r
      BY <2>1, <2>8 DEF CheckServer, NumberInv, Knows, At, RouterPlaces
    <3>2. /\ caller'[g].r = r
          /\ caller'[g].pc = IF routers[r].httpServer # Nil THEN "shutServer" ELSE "testRouter"
      BY <2>8, Moved DEF CheckServer, Goto, Types, Places
    <3>3. routers[r].httpServer = Nil => server[r] \notin Alive
      BY <2>1, <3>1 DEF Serves, Number, Nil
    <3>4. Knows(g)'
      BY <2>8, <3>1, <3>2, <3>3 DEF CheckServer, Knows, At, RouterPlaces, peerVars, routerVars
    <3> QED
      BY <2>8, <2>16, <3>4 DEF CheckServer, At, history, peerVars
  <2>9. CASE ShutServer(g)
    <3> DEFINE r == caller[g].r
    <3>1. r \in Number /\ router1 = r /\ routers[r].httpServer = r
      BY <2>1, <2>9 DEF ShutServer, NumberInv, Knows, Serves, At, RouterPlaces
    <3>2. caller'[g].pc = "clearServer" /\ caller'[g].r = r
      BY <2>9, Moved DEF ShutServer, Goto, Types, Places
    <3>3. /\ server' = [server EXCEPT ![r] = "done"]
          /\ UNCHANGED <<router1, routers, background, starts, missed, abandoned, panicked>>
      BY <2>9, <3>1 DEF ShutServer, peerVars, history
    <3> HIDE DEF r
    <3>4. server'[r] = "done" /\ \A n \in Number : n # r => server'[n] = server[n]
      BY <3>1, <3>3 DEF Types
    <3>5. Knows(g)'
      BY <3>1, <3>2, <3>3, <3>4 DEF Knows, At, RouterPlaces, Alive
    <3>6. StoppingWaits'
      <4>1. \A h \in Callers : ~At(h, "awaitRouter") /\ ~At(h, "clearRouter")
        BY <2>9, <2>0 DEF ShutServer, UncrossedInv, Alone, At
      <4> QED
        BY <4>1, <2>1, <3>3 DEF StoppingWaits
    <3>7. \A n \in Number : Serves(n)'
      BY <2>1, <3>3, <3>4 DEF Serves, Alive
    <3> QED
      BY <1>2, <2>1, <2>2, <3>3, <3>5, <3>6, <3>7
  <2>10. CASE ClearServer(g)
    <3> DEFINE r == caller[g].r
    <3>1. r \in Number /\ router1 = r /\ server[r] \notin Alive
      BY <2>1, <2>10 DEF ClearServer, NumberInv, Knows, At, RouterPlaces
    <3>2. caller'[g].pc = "testRouter" /\ caller'[g].r = r
      BY <2>10, Moved DEF ClearServer, Goto, Types, Places
    <3>3. /\ routers' = [routers EXCEPT ![r].httpServer = Nil]
          /\ UNCHANGED <<router1, server, background, starts, missed, abandoned, panicked>>
      BY <2>10 DEF ClearServer, peerVars, history
    <3> HIDE DEF r
    <3>4. /\ routers'[r].httpServer = Nil /\ \A n \in Number : n # r => routers'[n] = routers[n]
          /\ routers'[r].started = routers[r].started
          /\ routers'[r].stopping = routers[r].stopping
      BY <3>1, <3>3 DEF Types, RouterType
    <3>5. Knows(g)'
      BY <3>1, <3>2, <3>3 DEF Knows, At, RouterPlaces
    <3>6. StoppingWaits'
      <4>1. \A h \in Callers : ~At(h, "awaitRouter") /\ ~At(h, "clearRouter")
        BY <2>10, <2>0 DEF ClearServer, UncrossedInv, Alone, At
      <4> QED
        BY <4>1, <2>1, <3>1, <3>3, <3>4 DEF StoppingWaits
    <3>7. ASSUME NEW n \in Number PROVE Serves(n)'
      <4>1. CASE n = r
        BY <4>1, <2>1, <3>1, <3>3, <3>4 DEF Serves
      <4>2. CASE n # r
        BY <4>2, <2>1, <3>3, <3>4 DEF Serves
      <4> QED
        BY <4>1, <4>2
    <3> QED
      BY <1>2, <2>1, <2>2, <3>3, <3>5, <3>6, <3>7
  <2>11. CASE TestRouter(g)
    <3> DEFINE r == caller[g].r
    <3>1. r \in Number /\ router1 = r /\ server[r] \notin Alive /\ r \in 1 .. starts
      BY <2>1, <2>11 DEF TestRouter, NumberInv, Knows, At, RouterPlaces, Types, Number
    <3>2. UNCHANGED <<router1, server, background, starts, abandoned, panicked>>
      BY <2>11 DEF TestRouter, peerVars
    <3>3. ~routers[r].stopping
      <4>1. \A h \in Callers : ~At(h, "awaitRouter") /\ ~At(h, "clearRouter")
        BY <2>11, <2>0 DEF TestRouter, UncrossedInv, Alone, At
      <4> QED
        BY <4>1, <2>1, <3>1 DEF StoppingWaits, Number, Nil
    <3>4. CASE routers[r].started
      <4>1. /\ routers' = [routers EXCEPT ![r].stopping = TRUE] /\ missed' = missed
            /\ caller'[g].pc = "awaitRouter" /\ caller'[g].r = r
        BY <2>11, <3>3, <3>4, Moved DEF TestRouter, Goto, Types, Places
      <4>2. background[r].pc = "running"
        BY <2>1, <3>1, <3>4 DEF Serves
      <4> HIDE DEF r
      <4>3. /\ routers'[r].started = routers[r].started
            /\ routers'[r].httpServer = routers[r].httpServer
            /\ \A n \in Number : n # r => routers'[n] = routers[n]
        BY <3>1, <4>1 DEF Types, RouterType
      <4>4. Knows(g)'
        BY <3>1, <3>2, <4>1, <4>2 DEF Knows, At, RouterPlaces
      <4>5. StoppingWaits'
        BY <4>1 DEF StoppingWaits, At
      <4>6. ASSUME NEW n \in Number PROVE Serves(n)'
        <5>1. CASE n = r
          BY <5>1, <2>1, <3>1, <3>2, <4>1, <4>3 DEF Serves, Types
        <5>2. CASE n # r
          BY <5>2, <2>1, <3>2, <4>1, <4>3 DEF Serves
        <5> QED
          BY <5>1, <5>2
      <4> QED
        BY <1>2, <2>1, <2>2, <3>2, <4>4, <4>5, <4>6
    <3>5. CASE ~routers[r].started
      <4>1. /\ routers' = routers /\ missed' = missed \cup {r}
            /\ caller'[g].pc = "clearRouter" /\ caller'[g].r = r
        BY <2>11, <3>5, Moved DEF TestRouter, Goto, Types, Places
      <4>2. Knows(g)'
        BY <3>1, <3>2, <4>1 DEF Knows, At, RouterPlaces
      <4>3. StoppingWaits'
        BY <4>1 DEF StoppingWaits, At
      <4>4. \A n \in Number : Serves(n)'
        BY <2>1, <3>2, <4>1 DEF Serves
      <4> QED
        BY <1>2, <2>1, <2>2, <3>2, <4>2, <4>3, <4>4
    <3> QED
      BY <3>4, <3>5
  <2>12. CASE AwaitRouter(g)
    <3> DEFINE r == caller[g].r
    <3>1. /\ r \in Number /\ router1 = r /\ server[r] \notin Alive
          /\ background[r].pc \in {"running", "done"} /\ ~routers[r].started
      BY <2>1, <2>12 DEF AwaitRouter, NumberInv, Knows, At, RouterPlaces
    <3>2. caller'[g].pc = "clearRouter" /\ caller'[g].r = r
      BY <2>12, Moved DEF AwaitRouter, Goto, Types, Places
    <3>3. UNCHANGED <<router1, routerVars, starts, missed, abandoned, panicked>>
      BY <2>12 DEF AwaitRouter, peerVars, history
    <3>4. background[r].pc = "done"
      BY <2>1, <3>1 DEF Serves
    <3>5. Knows(g)'
      BY <3>1, <3>2, <3>3, <3>4 DEF Knows, At, RouterPlaces, Alive, routerVars
    <3>6. StoppingWaits'
      BY <3>2 DEF StoppingWaits, At
    <3>7. \A n \in Number : Serves(n)'
      BY <2>1, <3>3 DEF Serves, routerVars
    <3> QED
      BY <1>2, <2>1, <2>2, <3>3, <3>5, <3>6, <3>7
  <2>13. CASE ClearRouter(g)
    <3> DEFINE r == caller[g].r
    <3>1. /\ r \in Number /\ router1 = r /\ server[r] \notin Alive
          /\ background[r].pc \notin Alive \/ r \in missed
      BY <2>1, <2>13 DEF ClearRouter, NumberInv, Knows, At, RouterPlaces
    <3>2. caller'[g].pc = "awaitWorker"
      BY <2>13, Moved DEF ClearRouter, Goto, Types, Places
    <3>3. router1' = Nil /\ UNCHANGED <<routerVars, starts, missed, abandoned, panicked>>
      BY <2>13 DEF ClearRouter, history
    <3>4. Knows(g)'
      BY <3>2 DEF Knows, At, RouterPlaces
    <3>5. StoppingWaits'
      BY <3>3 DEF StoppingWaits
    <3>6. \A n \in Number : Serves(n)'
      BY <2>1, <3>1, <3>3 DEF Serves, routerVars
    <3> QED
      BY <1>2, <2>1, <2>2, <3>3, <3>4, <3>5, <3>6
  <2>14. CASE StopReturns(g) \/ StopTimesOut(g)
    <3>1. caller'[g].pc = "idle"
      BY <2>14, Returned DEF StopReturns, StopTimesOut, Return, Types
    <3> QED
      BY <2>14, <2>16, <3>1 DEF StopReturns, StopTimesOut, Knows, At, RouterPlaces, history,
         peerVars
  <2>15. CASE UseNil(g)
    BY <2>1, <2>15 DEF UseNil, Knows, NumberInv, At, StartPlaces, Nil
  <2> QED
    BY <1>5, <2>3, <2>4, <2>5, <2>6, <2>7, <2>8, <2>9, <2>10, <2>11, <2>12, <2>13, <2>14, <2>15
       DEF CallerStep
<1>6. ASSUME NEW n \in Number, Launched(n) PROVE UncrossedInv'
  <2>0. ~crossed
    BY <1>6 DEF Launched, WorkerBegins, WorkerEnds, BackgroundBegins, BackgroundEnds, Listen,
       history
  <2>1. ~panicked /\ Alone /\ StoppingWaits /\ (\A g \in Callers : Knows(g))
        /\ \A m \in Number : Serves(m)
    BY <2>0 DEF UncrossedInv
  <2>2. CASE WorkerBegins(n) \/ WorkerEnds(n)
    <3>1. UNCHANGED <<router1, routerVars, caller, starts, missed, abandoned, panicked, crossed>>
      BY <2>2 DEF WorkerBegins, WorkerEnds, history
    <3> QED
      BY <2>1, <3>1 DEF UncrossedInv, Alone, StoppingWaits, Knows, Serves, At, routerVars
  <2>3. CASE BackgroundBegins(n) \/ BackgroundEnds(n)
    <3>1. UNCHANGED <<router1, server, caller, starts, missed, abandoned, panicked, crossed>>
      BY <2>3 DEF BackgroundBegins, BackgroundEnds, peerVars, history
    <3>2. background[n].router = n
      BY <2>1, <2>3 DEF Serves, BackgroundBegins, BackgroundEnds
    <3>3. /\ background'[n].router = n
          /\ \A m \in Number : m # n => background'[m] = background[m] /\ routers'[m] = routers[m]
          /\ routers'[n].stopping = routers[n].stopping
          /\ routers'[n].httpServer = routers[n].httpServer
      BY <2>3, <3>2 DEF BackgroundBegins, BackgroundEnds, Types, BackgroundType, RouterType
    <3>4. \/ /\ background[n].pc = "launched" /\ background'[n].pc = "running"
             /\ routers'[n].started = TRUE
          \/ /\ background[n].pc = "running" /\ background'[n].pc = "done"
             /\ routers'[n].started = FALSE
      BY <2>3, <3>2 DEF BackgroundBegins, BackgroundEnds, Types, BackgroundType, RouterType
    <3>5. ASSUME NEW g \in Callers PROVE Knows(g)'
      <4>1. \A m \in Number : /\ routers'[m].stopping = routers[m].stopping
                              /\ routers'[m].httpServer = routers[m].httpServer
        BY <3>3
      <4>2. \A m \in Number :
              /\ background[m].pc \in {"running", "done"} =>
                   background'[m].pc \in {"running", "done"}
              /\ background[m].pc \notin Alive => background'[m].pc \notin Alive
        BY <3>3, <3>4 DEF Alive
      <4>3. caller[g].pc \in RouterPlaces => caller[g].r \in Number
        BY DEF NumberInv
      <4>4. caller[g].pc \in StartPlaces => caller[g].n \in Number
        BY DEF NumberInv, Types, Number
      <4> QED
        BY <2>1, <3>1, <4>1, <4>2, <4>3, <4>4 DEF Knows, At, RouterPlaces, StartPlaces
    <3>6. StoppingWaits'
      <4>1. router1 # Nil => router1 \in Number
        BY DEF Types, Number, Nil
      <4>2. \A m \in Number : routers'[m].stopping = routers[m].stopping
        BY <3>3
      <4> QED
        BY <2>1, <3>1, <4>1, <4>2 DEF StoppingWaits, At
    <3>7. ASSUME NEW m \in Number PROVE Serves(m)'
      <4>1. CASE m = n
        BY <4>1, <2>1, <3>1, <3>3, <3>4 DEF Serves, Alive
      <4>2. CASE m # n
        BY <4>2, <2>1, <3>1, <3>3 DEF Serves
      <4> QED
        BY <4>1, <4>2
    <3> QED
      BY <2>1, <3>1, <3>5, <3>6, <3>7 DEF UncrossedInv, Alone, At
  <2>4. CASE Listen(n)
    <3>1. /\ UNCHANGED <<router1, routers, background, caller, starts, missed, abandoned>>
          /\ UNCHANGED <<panicked, crossed>>
      BY <2>4 DEF Listen, peerVars, history
    <3>2. /\ server[n] \in Alive
          /\ \A m \in Number : server'[m] \in Alive => server[m] \in Alive
      BY <2>4 DEF Listen, Types, Alive
    <3>3. \A m \in Number : Serves(m)'
      BY <2>1, <3>1, <3>2 DEF Serves
    <3>4. \A g \in Callers : Knows(g)'
      BY <2>1, <3>1, <3>2 DEF Knows, At, NumberInv, RouterPlaces
    <3> QED
      BY <2>1, <3>1, <3>3, <3>4 DEF UncrossedInv, Alone, StoppingWaits, At
  <2> QED
    BY <1>6, <2>2, <2>3, <2>4 DEF Launched
<1> QED
  BY <1>1, <1>3, <1>4, <1>5, <1>6 DEF Next

-----------------------------------------------------------------------------
IInv == Types /\ NumberInv /\ SingleInv /\ UncrossedInv

(* The inductive invariant at the start. *)
LEMMA InitIInv == Init => IInv
<1> SUFFICES ASSUME Init PROVE IInv
  OBVIOUS
<1> USE BoundsAssumption
<1>1. Types
  <2>1. routers \in [Number -> RouterType]
    BY DEF Init, RouterType
  <2>2. background \in [Number -> BackgroundType]
    BY DEF Init, BackgroundType, Goroutine
  <2>3. caller \in [Callers -> CallerType]
    BY DEF Init, CallerType, IdleCaller, Places
  <2>4. worker \in [Number -> Goroutine] /\ server \in [Number -> Goroutine]
    BY DEF Init, Goroutine
  <2>5. 0 \in 0 .. MaxStarts /\ 0 \in 0 .. 0
    OBVIOUS
  <2> QED
    BY <2>1, <2>2, <2>3, <2>4, <2>5 DEF Init, Types, Nil
<1>2. /\ \A g \in Callers : caller[g].pc = "idle" /\ caller[g].n = Nil
      /\ \A n \in Number : worker[n] = "none" /\ server[n] = "none"
      /\ \A n \in Number : background[n].pc = "none" /\ ~routers[n].started
                           /\ ~routers[n].stopping /\ routers[n].httpServer = Nil
  BY DEF Init, IdleCaller
<1>3. NumberInv
  BY <1>2 DEF Init, NumberInv, StartPlaces, RouterPlaces
<1>4. SingleInv
  BY <1>2 DEF Init, SingleInv, Coming, Number, Nil
<1>5. \A g \in Callers : Knows(g)
  BY <1>2 DEF Knows, At, RouterPlaces
<1>6. \A n \in Number : Serves(n)
  BY <1>2 DEF Serves, Alive
<1>7. UncrossedInv
  BY <1>2, <1>5, <1>6 DEF Init, UncrossedInv, Alone, StoppingWaits, At
<1> QED
  BY <1>1, <1>3, <1>4, <1>7 DEF IInv

(* The inductive invariant always holds. *)
LEMMA IInvHolds == Spec => []IInv
<1>1. Init => IInv
  BY InitIInv
<1>2. IInv /\ [Next]_vars => IInv'
  BY TypesStep, NumberStep, SingleStep, UncrossedStep DEF IInv
<1> QED
  BY <1>1, <1>2, PTL DEF Spec

(* Peer, router and callers keep their types, whoever starts and stops,    *)
(* and started is never set before a worker has begun.                     *)
THEOREM TypesKept == Spec => []TypeOK
<1>1. IInv => TypeOK
  <2> SUFFICES ASSUME IInv PROVE TypeOK
    OBVIOUS
  <2>1. router1 \in Number \cup {Nil}
    BY BoundsAssumption DEF IInv, Types, Number, Nil
  <2> QED
    BY <2>1 DEF IInv, Types, NumberInv, TypeOK, RouterType, BackgroundType, CallerType
<1> QED
  BY <1>1, IInvHolds, PTL

(* However many Starts and Stops there are: started is set exactly while a *)
(* worker runs, and one at most does, unless a Start passed its test       *)
(* before the worker of the last one had begun.                            *)
THEOREM StartedIsExact == Spec => []StartedExact
<1>1. IInv => StartedExact
  BY DEF IInv, SingleInv, StartedExact
<1> QED
  BY <1>1, IInvHolds, PTL

(* Between calls that do not cross, nothing that was launched goes on for  *)
(* a router the peer no longer has, but for a router whose Stop came too   *)
(* early and one that a Start replaced.                                    *)
THEOREM StopLeavesNothingBehind == Spec => []StopLeavesNothing
<1>1. IInv => StopLeavesNothing
  <2> SUFFICES ASSUME IInv, ~crossed, NEW n \in Number
               PROVE  /\ server[n] \in Alive => router1 = n \/ n \in abandoned
                      /\ background[n].pc \in Alive =>
                           router1 = background[n].router
                             \/ background[n].router \in missed \cup abandoned
    BY DEF StopLeavesNothing, Alive
  <2>1. Serves(n)
    BY DEF IInv, UncrossedInv
  <2>2. background[n].pc \in Alive => background[n].router = n
    BY <2>1 DEF Serves, Alive
  <2> QED
    BY <2>1, <2>2 DEF Serves
<1> QED
  BY <1>1, IInvHolds, PTL

(* Starts and Stops that do not cross never use a nil pointer: neither the *)
(* peer's router nor the router's server.                                  *)
THEOREM NoPanicAlone == Spec => []PanicOnlyIfCrossed
<1>1. IInv => PanicOnlyIfCrossed
  BY DEF IInv, UncrossedInv, PanicOnlyIfCrossed
<1> QED
  BY <1>1, IInvHolds, PTL
=============================================================================

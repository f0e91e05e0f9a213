------------------------------ MODULE Lifecycle ------------------------------
(***************************************************************************)
(* Starting and stopping a peer (xchg/peer.go) and the router it carries   *)
(* (router/router.go, router/http_server.go), by goroutines that call      *)
(* Start and Stop as they like.                                            *)
(*                                                                         *)
(* Start launches goroutines and returns; started is set by the launched   *)
(* goroutine, so a Start or a Stop that comes before that is misled.  The  *)
(* n-th Start that passes its test makes router n and launches worker n    *)
(* (thWork); if its router starts, background n (thBackgroundOperations)   *)
(* and server n (thListen).  All servers use port 8084.                    *)
(***************************************************************************)
EXTENDS Integers, FiniteSets

CONSTANTS
  Callers,        \* the goroutines that call Start and Stop
  MaxStarts,      \* bound on the Starts that pass their test
  MaxStops        \* bound on the Stops

ASSUME CallersAssumption == IsFiniteSet(Callers)
ASSUME BoundsAssumption == MaxStarts \in Nat \ {0} /\ MaxStops \in Nat

VARIABLES
  started, stopping,    \* the peer's flags
  router1,              \* the peer's router, Nil if none
  routers,              \* each router's flags and its pointer to its server
  worker,               \* thWork of each Start
  background,           \* thBackgroundOperations of each Start, and its router
  server,               \* the HTTP server of each Start
  caller,               \* what each caller is doing
  starts, stops,        \* how many there were
  doubled,              \* history: a Start passed before the last one's worker began
  crossed,              \* history: a Start or Stop passed while another was under way
  missed,               \* history: routers whose Stop found them not started
  abandoned,            \* history: routers replaced by a later Start, never stopped
  panicked              \* a nil pointer was used

peerVars == <<started, stopping, router1, worker>>
routerVars == <<routers, background, server>>
history == <<starts, stops, doubled, crossed, missed, abandoned>>
vars == <<peerVars, routerVars, caller, history, panicked>>

Nil == 0
Number == 1 .. MaxStarts
Goroutine == {"none", "launched", "running", "done"}

(* n is the number of a Start;  r is the router a Stop works on.  A caller  *)
(* is in Start: assign -> startRouter -> startWorker, or in Stop:          *)
(* checkRouter -> stopRouter -> checkServer -> shutServer -> clearServer   *)
(* -> testRouter -> awaitRouter -> clearRouter -> awaitWorker.             *)
IdleCaller == [pc |-> "idle", n |-> Nil, r |-> Nil]

Places == {"idle", "assign", "startRouter", "startWorker", "checkRouter", "stopRouter",
           "checkServer", "shutServer", "clearServer", "testRouter", "awaitRouter", "clearRouter",
           "awaitWorker"}

Init ==
  /\ started = FALSE
  /\ stopping = FALSE
  /\ router1 = Nil
  /\ routers = [r \in Number |-> [started |-> FALSE, stopping |-> FALSE, httpServer |-> Nil]]
  /\ worker = [n \in Number |-> "none"]
  /\ background = [n \in Number |-> [pc |-> "none", router |-> Nil]]
  /\ server = [n \in Number |-> "none"]
  /\ caller = [g \in Callers |-> IdleCaller]
  /\ starts = 0
  /\ stops = 0
  /\ doubled = FALSE
  /\ crossed = FALSE
  /\ missed = {}
  /\ abandoned = {}
  /\ panicked = FALSE

At(g, pc) == caller[g].pc = pc
Goto(g, pc) == caller' = [caller EXCEPT ![g].pc = pc]
Return(g) == caller' = [caller EXCEPT ![g] = IdleCaller]

Busy == \E g \in Callers : ~At(g, "idle")

Panic == panicked' = TRUE /\ UNCHANGED <<peerVars, routerVars, caller, history>>

-----------------------------------------------------------------------------
StartTestAfresh(g) ==
  /\ At(g, "idle")
  /\ ~started
  /\ starts < MaxStarts
  /\ starts' = starts + 1
  /\ stopping' = FALSE
  /\ caller' = [caller EXCEPT ![g] = [pc |-> "assign", n |-> starts + 1, r |-> Nil]]
  /\ UNCHANGED <<started, router1, worker, routerVars, stops, doubled, crossed, missed, abandoned, panicked>>

(* Peer.Start.  A Start that finds started set returns "already started".  *)
StartTest(g) ==
  /\ At(g, "idle")
  /\ ~started
  /\ starts < MaxStarts
  /\ starts' = starts + 1
  /\ caller' = [caller EXCEPT ![g] = [pc |-> "assign", n |-> starts + 1, r |-> Nil]]
  /\ doubled' = (doubled \/ \E h \in Callers : caller[h].n # Nil
                         \/ \E n \in Number : worker[n] = "launched")
  /\ crossed' = (crossed \/ doubled' \/ Busy)
  /\ UNCHANGED <<peerVars, routerVars, stops, missed, abandoned, panicked>>

(* Replaces the router of an earlier Start, if that is still there.        *)
AssignRouter(g) ==
  /\ At(g, "assign")
  /\ router1' = caller[g].n
  /\ abandoned' = abandoned \cup ({router1} \ {Nil})
  /\ Goto(g, "startRouter")
  /\ UNCHANGED <<started, stopping, worker, routerVars>>
  /\ UNCHANGED <<starts, stops, doubled, crossed, missed, panicked>>

(* Router.Start, of the router that is the peer's by now: launches the     *)
(* background and the server unless it is started or stopping.             *)
StartRouter(g) ==
  /\ At(g, "startRouter")
  /\ router1 # Nil
  /\ LET n == caller[g].n
     IN  IF routers[router1].started \/ routers[router1].stopping
         THEN UNCHANGED routerVars
         ELSE /\ background' = [background EXCEPT ![n] = [pc |-> "launched", router |-> router1]]
              /\ server' = [server EXCEPT ![n] = "launched"]
              /\ routers' = [routers EXCEPT ![router1].httpServer = n]
  /\ Goto(g, "startWorker")
  /\ UNCHANGED <<peerVars, history, panicked>>

StartWorkerStarted(g) ==
  /\ At(g, "startWorker")
  /\ worker' = [worker EXCEPT ![caller[g].n] = "launched"]
  /\ started' = TRUE
  /\ Return(g)
  /\ UNCHANGED <<stopping, router1, routerVars, history, panicked>>

StartWorker(g) ==
  /\ At(g, "startWorker")
  /\ worker' = [worker EXCEPT ![caller[g].n] = "launched"]
  /\ Return(g)
  /\ UNCHANGED <<started, stopping, router1, routerVars, history, panicked>>

-----------------------------------------------------------------------------
(* Peer.Stop.  A Stop that finds started unset returns "already stopped"   *)
(* and does nothing.                                                       *)
StopTest(g) ==
  /\ At(g, "idle")
  /\ started
  /\ stops < MaxStops
  /\ stops' = stops + 1
  /\ stopping' = TRUE
  /\ Goto(g, "checkRouter")
  /\ crossed' = (crossed \/ Busy)
  /\ UNCHANGED <<started, router1, worker, routerVars, starts, doubled, missed, abandoned, panicked>>

CheckRouterUnguarded(g) ==
  /\ At(g, "checkRouter")
  /\ Goto(g, "stopRouter")
  /\ UNCHANGED <<peerVars, routerVars, history, panicked>>

CheckRouter(g) ==
  /\ At(g, "checkRouter")
  /\ Goto(g, IF router1 # Nil THEN "stopRouter" ELSE "awaitWorker")
  /\ UNCHANGED <<peerVars, routerVars, history, panicked>>

(* Router.Stop: shut the server down, if there is one, ... *)
StopRouter(g) ==
  /\ At(g, "stopRouter")
  /\ router1 # Nil
  /\ caller' = [caller EXCEPT ![g] = [@ EXCEPT !.r = router1, !.pc = "checkServer"]]
  /\ UNCHANGED <<peerVars, routerVars, history, panicked>>

CheckServer(g) ==
  /\ At(g, "checkServer")
  /\ Goto(g, IF routers[caller[g].r].httpServer # Nil THEN "shutServer" ELSE "testRouter")
  /\ UNCHANGED <<peerVars, routerVars, history, panicked>>

ShutServer(g) ==
  LET s == routers[caller[g].r].httpServer
  IN  /\ At(g, "shutServer")
      /\ s # Nil
      /\ server' = [server EXCEPT ![s] = "done"]
      /\ Goto(g, "clearServer")
      /\ UNCHANGED <<peerVars, routers, background, history, panicked>>

ClearServer(g) ==
  /\ At(g, "clearServer")
  /\ routers' = [routers EXCEPT ![caller[g].r].httpServer = Nil]
  /\ Goto(g, "testRouter")
  /\ UNCHANGED <<peerVars, background, server, history, panicked>>

(* ... then return an error, which Peer.Stop drops, unless the background  *)
(* runs and nobody else is stopping it ...                                 *)
TestRouterEarly(g) ==
  LET r == caller[g].r
  IN  /\ At(g, "testRouter")
      /\ routers' = [routers EXCEPT ![r].stopping = @ \/ routers[r].started]
      /\ missed' = IF routers[r].started THEN missed ELSE missed \cup {r}
      /\ Goto(g, "clearRouter")
      /\ UNCHANGED <<peerVars, background, server, starts, stops, doubled, crossed, abandoned, panicked>>

TestRouter(g) ==
  LET r == caller[g].r
  IN  /\ At(g, "testRouter")
      /\ IF routers[r].started /\ ~routers[r].stopping
         THEN /\ routers' = [routers EXCEPT ![r].stopping = TRUE]
              /\ Goto(g, "awaitRouter")
         ELSE /\ UNCHANGED routers
              /\ Goto(g, "clearRouter")
      /\ missed' = IF routers[r].started THEN missed ELSE missed \cup {r}
      /\ UNCHANGED <<peerVars, background, server, starts, stops, doubled, crossed, abandoned, panicked>>

(* ... and wait, without a limit, for it to end. *)
AwaitRouter(g) ==
  /\ At(g, "awaitRouter")
  /\ ~routers[caller[g].r].started
  /\ Goto(g, "clearRouter")
  /\ UNCHANGED <<peerVars, routerVars, history, panicked>>

ClearRouter(g) ==
  /\ At(g, "clearRouter")
  /\ router1' = Nil
  /\ Goto(g, "awaitWorker")
  /\ UNCHANGED <<started, stopping, worker, routerVars, history, panicked>>

(* Back in Peer.Stop: nil once started is unset, "timeout" after a second. *)
StopReturns(g) ==
  /\ At(g, "awaitWorker")
  /\ ~started
  /\ Return(g)
  /\ UNCHANGED <<peerVars, routerVars, history, panicked>>

StopTimesOut(g) ==
  /\ At(g, "awaitWorker")
  /\ started
  /\ Return(g)
  /\ UNCHANGED <<peerVars, routerVars, history, panicked>>

(* A pointer that was tested and is nil when it is used. *)
UseNil(g) ==
  /\ \/ At(g, "startRouter") /\ router1 = Nil
     \/ At(g, "stopRouter") /\ router1 = Nil
     \/ At(g, "shutServer") /\ routers[caller[g].r].httpServer = Nil
  /\ Panic

-----------------------------------------------------------------------------
(* thWork *)
WorkerBegins(n) ==
  /\ worker[n] = "launched"
  /\ worker' = [worker EXCEPT ![n] = "running"]
  /\ started' = TRUE
  /\ UNCHANGED <<stopping, router1, routerVars, caller, history, panicked>>

WorkerEndsSilently(n) ==
  /\ worker[n] = "running"
  /\ stopping
  /\ worker' = [worker EXCEPT ![n] = "done"]
  /\ UNCHANGED <<started, stopping, router1, routerVars, caller, history, panicked>>

WorkerEnds(n) ==
  /\ worker[n] = "running"
  /\ stopping
  /\ worker' = [worker EXCEPT ![n] = "done"]
  /\ started' = FALSE
  /\ UNCHANGED <<stopping, router1, routerVars, caller, history, panicked>>

(* thBackgroundOperations *)
BackgroundBegins(n) ==
  /\ background[n].pc = "launched"
  /\ background' = [background EXCEPT ![n].pc = "running"]
  /\ routers' = [routers EXCEPT ![background[n].router].started = TRUE]
  /\ UNCHANGED <<peerVars, server, caller, history, panicked>>

BackgroundEndsSilently(n) ==
  /\ background[n].pc = "running"
  /\ routers[background[n].router].stopping
  /\ background' = [background EXCEPT ![n].pc = "done"]
  /\ UNCHANGED <<peerVars, routers, server, caller, history, panicked>>

BackgroundEnds(n) ==
  /\ background[n].pc = "running"
  /\ routers[background[n].router].stopping
  /\ background' = [background EXCEPT ![n].pc = "done"]
  /\ routers' = [routers EXCEPT ![background[n].router].started = FALSE]
  /\ UNCHANGED <<peerVars, server, caller, history, panicked>>

(* thListen: fails if the port is taken; nobody reads the error. *)
Listen(n) ==
  /\ server[n] = "launched"
  /\ server' = [server EXCEPT ![n] =
       IF \E m \in Number : server[m] = "running" THEN "done" ELSE "running"]
  /\ UNCHANGED <<peerVars, routers, background, caller, history, panicked>>

CallerStep(g) ==
  \/ AssignRouter(g) \/ StartRouter(g) \/ StartWorker(g)
  \/ CheckRouter(g) \/ StopRouter(g)
  \/ CheckServer(g) \/ ShutServer(g) \/ ClearServer(g) \/ TestRouter(g)
  \/ AwaitRouter(g) \/ ClearRouter(g) \/ StopReturns(g) \/ StopTimesOut(g)
  \/ UseNil(g)

Launched(n) ==
  \/ WorkerBegins(n) \/ WorkerEnds(n)
  \/ BackgroundBegins(n) \/ BackgroundEnds(n)
  \/ Listen(n)

Next ==
  /\ ~panicked
  /\ \/ \E g \in Callers : StartTest(g) \/ StopTest(g) \/ CallerStep(g)
     \/ \E n \in Number : Launched(n)

Spec == Init /\ [][Next]_vars

(* What was launched runs; a call goes on, and its waits are polls of a    *)
(* flag every ten milliseconds.                                            *)
FairSpec ==
  /\ Spec
  /\ \A g \in Callers : WF_vars(~panicked /\ CallerStep(g))
  /\ \A n \in Number : WF_vars(~panicked /\ Launched(n))

-----------------------------------------------------------------------------
(* Peer, router and callers keep their types; started is never set before  *)
(* a worker has begun.                                                     *)
TypeOK ==
  /\ started \in BOOLEAN /\ stopping \in BOOLEAN /\ panicked \in BOOLEAN
  /\ router1 \in Number \cup {Nil}
  /\ routers \in [Number -> [started : BOOLEAN, stopping : BOOLEAN,
                             httpServer : Number \cup {Nil}]]
  /\ worker \in [Number -> Goroutine]
  /\ background \in [Number -> [pc : Goroutine, router : Number \cup {Nil}]]
  /\ server \in [Number -> Goroutine]
  /\ caller \in [Callers -> [pc : Places, n : Number \cup {Nil}, r : Number \cup {Nil}]]
  /\ started => \E n \in Number : worker[n] \in {"running", "done"}

(* started tells whether a worker runs, and no two run at once, unless a   *)
(* Start passed its test before the worker of the last one had begun.      *)
StartedExact ==
  ~doubled =>
    /\ started <=> \E n \in Number : worker[n] = "running"
    /\ \A m, n \in Number : worker[m] = "running" /\ worker[n] = "running" => m = n

(* When no call is under way, every server and every background belongs to *)
(* the peer's present router: a Stop leaves the port free and nothing      *)
(* running.  The exceptions run for ever: calls crossed; the Stop came     *)
(* before the router's background had begun; or a Start replaced a router  *)
(* that no Stop had stopped, as after a Stop every Start does, for its     *)
(* worker has ended and a Stop does nothing.                               *)
StopLeavesNothing ==
  ~crossed /\ ~Busy =>
    \A n \in Number :
      /\ server[n] \in {"launched", "running"} => router1 = n \/ n \in abandoned
      /\ background[n].pc \in {"launched", "running"} =>
           router1 = background[n].router \/ background[n].router \in missed \cup abandoned

(* Calls that do not cross never use a nil pointer. *)
PanicOnlyIfCrossed == panicked => crossed

(* Every Start and every Stop returns, although Router.Stop waits without  *)
(* a limit.                                                                *)
OperationsReturn == \A g \in Callers : ~At(g, "idle") ~> At(g, "idle") \/ panicked

(* A Stop is for good: stopping is never unset, and whatever worker a      *)
(* later Start launches ends again.                                        *)
StopIsFinal == stopping ~> []((\A n \in Number : worker[n] # "running") \/ panicked)
=============================================================================

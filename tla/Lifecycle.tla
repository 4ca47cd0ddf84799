------------------------------ MODULE Lifecycle ------------------------------
(***************************************************************************)
(* Bind and Server.Close (server.go) and Dial (client.go): goroutines of   *)
(* the application set endpoints up and tear them down, partly themselves, *)
(* partly through EventLoop.Invoke on the endpoints' loops.                *)
(*                                                                         *)
(* Invoke is external: it queues a task on a loop and waits for the result *)
(* or for the end of a context, whichever comes first. A task whose Invoke *)
(* gave up may still run, or may be dropped if it has not been started.    *)
(* Each endpoint has a loop of its own, as Bind arranges with ReusePort.   *)
(***************************************************************************)
EXTENDS Integers, Sequences

CONSTANTS
  Roles,        \* "server": Bind and Server.Close; "client": Dial
  N,            \* sockets of Bind: one, or one per worker with ReusePort
  Callers,      \* goroutines that may call Server.Close
  Completion,   \* completion poller: the registration submits the first read
  Faults,       \* every call that returns an error may fail
  Timeouts,     \* a context may end before the task Invoke waits for
  MaxWrites     \* bound: Write calls per endpoint

ASSUME LifecycleAssumption ==
  /\ Roles \subseteq {"server", "client"}
  /\ N \in Nat \ {0}
  /\ {Completion, Faults, Timeouts} \subseteq BOOLEAN
  /\ MaxWrites \in Nat

VARIABLES
  role,
  setup,         \* Bind or Dial: where it is, and the socket it works on
  endpoints,     \* endpoints created so far: Server.endpoints
  onLoop,        \* endpoints whose loop is set
  serverClosed,
  once,          \* Server.once
  closeLoop,     \* the loop of Server.Close: where it is, and the endpoint
  callers,
  sock, fdCloses,
  alloc,
  phase,         \* how far endpoint.Close has come
  closer,        \* who executes it
  queued,        \* datagrams in the outbound queue
  writes,        \* Write calls so far
  registered,    \* the loop and its poller know the endpoint
  tasks,         \* tasks posted to each loop
  run,           \* what each loop is doing
  waiting,       \* the task an Invoke on that loop waits for
  reply          \* the latest result Invoke got

setupVars == <<role, setup, endpoints, onLoop>>
closeVars == <<serverClosed, once, closeLoop, callers>>
resVars   == <<sock, fdCloses, alloc, phase, closer, queued, writes>>
loopVars  == <<registered, tasks, run, waiting, reply>>
vars      == <<setupVars, closeVars, resVars, loopVars>>

Eps     == 1 .. N
Sockets == IF role = "client" THEN 1 ELSE N
Kinds   == {"register", "close"}

At(pc, i) == [pc |-> pc, ep |-> i]

-----------------------------------------------------------------------------
(* endpoint.Close. The compare-and-swap decides who executes the body; any *)
(* other caller returns at once.                                           *)

(* Seeded defect: the compare-and-swap is a plain store.                   *)
EpCloseUnguarded(i, who) ==
  /\ phase'  = [phase EXCEPT ![i] = "releasing"]
  /\ closer' = [closer EXCEPT ![i] = who]

EpClose(i, who) ==
  IF phase[i] = "open"
  THEN /\ phase'  = [phase EXCEPT ![i] = "releasing"]
       /\ closer' = [closer EXCEPT ![i] = who]
  ELSE UNCHANGED <<phase, closer>>

(* `who' is inside the body of Close.                                      *)
Closing(i, who) == phase[i] \notin {"open", "closed"} /\ closer[i] = who

(* releaseOutbound; closeFD; alloc.Close if there is one, and the last     *)
(* callback.                                                               *)
CloseBody(i) ==
  /\ UNCHANGED <<setupVars, closeVars, loopVars, closer, writes>>
  /\ \/ /\ phase[i] = "releasing"
        /\ phase'  = [phase EXCEPT ![i] = "closingFD"]
        /\ queued' = [queued EXCEPT ![i] = 0]
        /\ UNCHANGED <<sock, fdCloses, alloc>>
     \/ /\ phase[i] = "closingFD"
        /\ phase' = [phase EXCEPT ![i] = "closingAlloc"]
        /\ sock'  = [sock EXCEPT ![i] = "closed"]
        /\ fdCloses' = [fdCloses EXCEPT ![i] = @ + 1]
        /\ UNCHANGED <<alloc, queued>>
     \/ /\ phase[i] = "closingAlloc"
        /\ phase' = [phase EXCEPT ![i] = "closed"]
        /\ alloc' = [alloc EXCEPT ![i] = IF @ = "open" THEN "closed" ELSE @]
        /\ UNCHANGED <<sock, fdCloses, queued>>

-----------------------------------------------------------------------------
(* EventLoop.Invoke.                                                       *)

Post(i, kind) ==
  /\ tasks'   = [tasks EXCEPT ![i] = Append(@, kind)]
  /\ waiting' = [waiting EXCEPT ![i] = kind]

(* The context ends first. The task, if still queued, is the last one: a   *)
(* loop is never asked for two things at once.                             *)
Abandon(i) ==
  /\ Timeouts
  /\ waiting[i] # "none"
  /\ waiting' = [waiting EXCEPT ![i] = "none"]
  /\ reply'   = [reply EXCEPT ![i] = "timeout"]
  /\ \/ UNCHANGED tasks
     \/ /\ tasks[i] # <<>>
        /\ tasks' = [tasks EXCEPT ![i] = SubSeq(@, 1, Len(@) - 1)]

(* The task ends and the loop is free; nobody may be waiting any more.     *)
Finish(i, kind, result) ==
  /\ run'     = [run EXCEPT ![i] = "idle"]
  /\ waiting' = [waiting EXCEPT ![i] = IF @ = kind THEN "none" ELSE @]
  /\ reply'   = [reply EXCEPT ![i] = IF waiting[i] = kind THEN result ELSE @]

-----------------------------------------------------------------------------
(* Bind and Dial, on their caller's goroutine.                             *)

CloseSockets(S) ==
  /\ sock' = [i \in Eps |-> IF i \in S /\ sock[i] = "open" THEN "closed" ELSE sock[i]]
  /\ fdCloses' = [i \in Eps |-> IF i \in S /\ sock[i] = "open" THEN fdCloses[i] + 1
                                                               ELSE fdCloses[i]]

(* listenAll: one socket after the other; a failure closes the earlier.    *)
Listen ==
  /\ setup.pc = "listen"
  /\ \/ /\ sock'  = [sock EXCEPT ![setup.ep] = "open"]
        /\ setup' = IF setup.ep = Sockets THEN At("next", 1) ELSE At("listen", setup.ep + 1)
        /\ UNCHANGED fdCloses
     \/ /\ Faults
        /\ CloseSockets(Eps)
        /\ setup' = At("error", setup.ep)
  /\ UNCHANGED <<role, endpoints, onLoop, closeVars, loopVars, alloc, phase, closer, queued,
                 writes>>

(* Seeded defect: the server learns of the endpoint after its registration.*)
StartEndpointUnlisted ==
  LET i == setup.ep IN
  /\ setup.pc = "next"
  /\ setup'  = At("invoke", i)
  /\ onLoop' = onLoop \cup {i}
  /\ Post(i, "register")
  /\ UNCHANGED <<role, endpoints, closeVars, resVars, registered, run, reply>>

(* The loop for the next endpoint, and the registration posted to it.      *)
StartEndpoint ==
  LET i == setup.ep IN
  /\ setup.pc = "next"
  /\ setup'     = At("invoke", i)
  /\ endpoints' = i
  /\ onLoop'    = onLoop \cup {i}
  /\ Post(i, "register")
  /\ UNCHANGED <<role, closeVars, resVars, registered, run, reply>>

(* No loop: Bind closes the server, Dial the socket, which has no endpoint *)
(* yet.                                                                    *)
NextFails ==
  LET i == setup.ep IN
  /\ Faults
  /\ setup.pc = "next"
  /\ IF role = "server"
     THEN /\ setup' = At("failing", i)
          /\ endpoints' = i
          /\ UNCHANGED <<sock, fdCloses>>
     ELSE /\ setup' = At("error", i)
          /\ CloseSockets({i})
          /\ UNCHANGED endpoints
  /\ UNCHANGED <<role, onLoop, closeVars, loopVars, alloc, phase, closer, queued, writes>>

Registered ==
  LET i == setup.ep IN
  /\ setup.pc = "invoke"
  /\ waiting[i] = "none"
  /\ setup' = CASE reply[i] = "error" -> At("failing", i)
                [] reply[i] = "ok" /\ i < Sockets -> At("next", i + 1)
                [] OTHER -> At("ok", i)
  /\ UNCHANGED <<role, endpoints, onLoop, closeVars, resVars, loopVars>>

(* Seeded defect: the context of Bind or Dial is not passed to Invoke.     *)
ContextIgnored == setup.pc = "invoke" /\ FALSE /\ UNCHANGED vars

RegistrationAbandoned ==
  /\ setup.pc = "invoke"
  /\ Abandon(setup.ep)
  /\ setup' = At("failing", setup.ep)
  /\ UNCHANGED <<role, endpoints, onLoop, closeVars, resVars, registered, run>>

(* Seeded defect: Dial returns the error and leaves the endpoint.          *)
DialFailsOnly ==
  /\ role = "client"
  /\ setup.pc = "failing"
  /\ setup' = At("closing", setup.ep)
  /\ UNCHANGED <<role, endpoints, onLoop, closeVars, resVars, loopVars>>

(* Dial closes the endpoint itself; Bind calls Server.Close.               *)
DialFails ==
  /\ role = "client"
  /\ setup.pc = "failing"
  /\ EpClose(setup.ep, "caller")
  /\ setup' = At("closing", setup.ep)
  /\ UNCHANGED <<role, endpoints, onLoop, closeVars, loopVars, sock, fdCloses, alloc, queued,
                 writes>>

SetupFailed ==
  /\ IF role = "client"
     THEN setup.pc = "closing" /\ ~Closing(setup.ep, "caller")
     ELSE setup.pc = "failing" /\ once = "done"
  /\ setup' = At("error", setup.ep)
  /\ UNCHANGED <<role, endpoints, onLoop, closeVars, resVars, loopVars>>

-----------------------------------------------------------------------------
(* Server.Close. The application has the server once Bind returned it; a   *)
(* failing Bind calls Close itself.                                        *)

CallClose(c) ==
  /\ role = "server" /\ setup.pc = "ok"
  /\ callers[c] = "idle"
  /\ callers' = [callers EXCEPT ![c] = "called"]
  /\ UNCHANGED <<setupVars, serverClosed, once, closeLoop, resVars, loopVars>>

OnceEnter ==
  /\ role = "server"
  /\ once = "fresh"
  /\ setup.pc = "failing" \/ \E c \in Callers : callers[c] = "called"
  /\ once' = "running"
  /\ serverClosed' = TRUE
  /\ closeLoop' = At("endpoint", 1)
  /\ UNCHANGED <<setupVars, callers, resVars, loopVars>>

(* An endpoint without a loop is closed here, the others on their loop.    *)
CloseEndpoint ==
  LET i == closeLoop.ep IN
  /\ closeLoop.pc = "endpoint" /\ i <= endpoints
  /\ IF i \in onLoop
     THEN /\ closeLoop' = At("invoke", i)
          /\ Post(i, "close")
          /\ UNCHANGED <<phase, closer>>
     ELSE /\ closeLoop' = At("self", i)
          /\ EpClose(i, "caller")
          /\ UNCHANGED <<tasks, waiting>>
  /\ UNCHANGED <<setupVars, serverClosed, once, callers, sock, fdCloses, alloc, queued, writes,
                 registered, run, reply>>

(* An error of ep.Close itself makes the caller call it again, to no       *)
(* effect.                                                                 *)
CloseInvoked ==
  LET i == closeLoop.ep IN
  /\ closeLoop.pc = "invoke"
  /\ waiting[i] = "none"
  /\ closeLoop' = At("endpoint", i + 1)
  /\ UNCHANGED <<setupVars, serverClosed, once, callers, resVars, loopVars>>

(* Seeded defect: the caller gives up without closing the endpoint.        *)
CloseAbandonedOnly ==
  LET i == closeLoop.ep IN
  /\ closeLoop.pc = "invoke"
  /\ Abandon(i)
  /\ closeLoop' = At("self", i)
  /\ UNCHANGED <<setupVars, serverClosed, once, callers, resVars, registered, run>>

(* Seeded defect: no closeControlTimeout.                                  *)
NeverAbandoned == closeLoop.pc = "invoke" /\ FALSE /\ UNCHANGED vars

(* closeControlTimeout: the caller closes the endpoint itself.             *)
CloseAbandoned ==
  LET i == closeLoop.ep IN
  /\ closeLoop.pc = "invoke"
  /\ Abandon(i)
  /\ EpClose(i, "caller")
  /\ closeLoop' = At("self", i)
  /\ UNCHANGED <<setupVars, serverClosed, once, callers, sock, fdCloses, alloc, queued, writes,
                 registered, run>>

CloseSelfDone ==
  LET i == closeLoop.ep IN
  /\ closeLoop.pc = "self"
  /\ ~Closing(i, "caller")
  /\ closeLoop' = At("endpoint", i + 1)
  /\ UNCHANGED <<setupVars, serverClosed, once, callers, resVars, loopVars>>

OnceLeave ==
  /\ once = "running"
  /\ closeLoop.pc = "endpoint" /\ closeLoop.ep > endpoints
  /\ once' = "done"
  /\ UNCHANGED <<setupVars, serverClosed, closeLoop, callers, resVars, loopVars>>

(* Seeded defect: sync.Once replaced by a flag, so that a second caller    *)
(* returns while the first is at work.                                     *)
OncePassedEarly == once # "fresh"

(* Every caller of once.Do waits for its body.                             *)
OncePassed == once = "done"

CloseReturn(c) ==
  /\ callers[c] = "called"
  /\ OncePassed
  /\ callers' = [callers EXCEPT ![c] = "returned"]
  /\ UNCHANGED <<setupVars, serverClosed, once, closeLoop, resVars, loopVars>>

-----------------------------------------------------------------------------
(* The loops.                                                              *)

RunTask(i) ==
  /\ run[i] = "idle" /\ tasks[i] # <<>>
  /\ ~Closing(i, "loop")
  /\ tasks' = [tasks EXCEPT ![i] = Tail(@)]
  /\ run'   = [run EXCEPT ![i] = Head(tasks[i])]
  /\ UNCHANGED <<setupVars, closeVars, resVars, registered, waiting, reply>>

GoTo(i, pc) == run' = [run EXCEPT ![i] = pc] /\ UNCHANGED <<waiting, reply>>

(* newAllocator: a closed server refuses; clientAllocator does not ask.    *)
AllocatorAllowed == role = "client" \/ ~serverClosed

(* The registration closure. It fails where the code returns an error.     *)
CheckServer(i) ==
  /\ run[i] = "register"
  /\ IF AllocatorAllowed THEN GoTo(i, "acquire") ELSE Finish(i, "register", "error")
  /\ UNCHANGED <<setupVars, closeVars, resVars, registered, tasks>>

AcquireAllocator(i) ==
  /\ run[i] = "acquire"
  /\ GoTo(i, "initialize")
  /\ alloc' = [alloc EXCEPT ![i] = "open"]
  /\ UNCHANGED <<setupVars, closeVars, sock, fdCloses, phase, closer, queued, writes,
                 registered, tasks>>

Initialize(i) ==
  /\ run[i] = "initialize"
  /\ ~Closing(i, "loop")
  /\ GoTo(i, "registering")
  /\ UNCHANGED <<setupVars, closeVars, resVars, registered, tasks>>

RegisterEndpoint(i) ==
  /\ run[i] = "registering"
  /\ GoTo(i, "active")
  /\ registered' = [registered EXCEPT ![i] = TRUE]
  /\ UNCHANGED <<setupVars, closeVars, resVars, tasks>>

(* ChannelActive has been fired; submitReadCompletion on a closed endpoint *)
(* is no error.                                                            *)
Activated(i) ==
  /\ run[i] = "active"
  /\ ~Closing(i, "loop")
  /\ Finish(i, "register", "ok")
  /\ UNCHANGED <<setupVars, closeVars, resVars, registered, tasks>>

(* The allocator factory, the initializer, Register or the first read      *)
(* fails. What was done before stays.                                      *)
RegistrationFails(i) ==
  /\ Faults
  /\ ~Closing(i, "loop")
  /\ \/ run[i] \in {"acquire", "initialize", "registering"}
     \/ run[i] = "active" /\ Completion /\ phase[i] = "open"
  /\ Finish(i, "register", "error")
  /\ UNCHANGED <<setupVars, closeVars, resVars, registered, tasks>>

(* Server.Close's task: Deregister, then Close.                            *)
Deregister(i) ==
  /\ run[i] = "close"
  /\ GoTo(i, "closing")
  /\ registered' = [registered EXCEPT ![i] = FALSE]
  /\ EpClose(i, "loop")
  /\ UNCHANGED <<setupVars, closeVars, sock, fdCloses, alloc, queued, writes, tasks>>

CloseTaskDone(i) ==
  /\ run[i] = "closing"
  /\ ~Closing(i, "loop")
  /\ Finish(i, "close", "ok")
  /\ UNCHANGED <<setupVars, closeVars, resVars, registered, tasks>>

(* The initializer, a handler or a task of the application calls Close.    *)
HandlerCloses(i) ==
  /\ \/ run[i] \in {"initialize", "active"}
     \/ run[i] = "idle" /\ registered[i]
  /\ phase[i] = "open"
  /\ EpClose(i, "loop")
  /\ UNCHANGED <<setupVars, closeVars, loopVars, sock, fdCloses, alloc, queued, writes>>

(* Write looks at closed, then enqueues.                                   *)
WriteChecks(i) ==
  /\ run[i] = "idle" /\ registered[i]
  /\ writes[i] < MaxWrites
  /\ phase[i] = "open"
  /\ writes' = [writes EXCEPT ![i] = @ + 1]
  /\ GoTo(i, "enqueue")
  /\ UNCHANGED <<setupVars, closeVars, sock, fdCloses, alloc, phase, closer, queued,
                 registered, tasks>>

WriteEnqueues(i) ==
  /\ run[i] = "enqueue"
  /\ queued' = [queued EXCEPT ![i] = @ + 1]
  /\ GoTo(i, "idle")
  /\ UNCHANGED <<setupVars, closeVars, sock, fdCloses, alloc, phase, closer, writes,
                 registered, tasks>>

-----------------------------------------------------------------------------
Init ==
  /\ role \in Roles
  /\ setup = At("listen", 1)
  /\ endpoints = 0
  /\ onLoop = {}
  /\ serverClosed = FALSE
  /\ once = "fresh"
  /\ closeLoop = At("none", 1)
  /\ callers = [c \in Callers |-> "idle"]
  /\ sock = [i \in Eps |-> "none"]
  /\ fdCloses = [i \in Eps |-> 0]
  /\ alloc = [i \in Eps |-> "none"]
  /\ phase = [i \in Eps |-> "open"]
  /\ closer = [i \in Eps |-> "none"]
  /\ queued = [i \in Eps |-> 0]
  /\ writes = [i \in Eps |-> 0]
  /\ registered = [i \in Eps |-> FALSE]
  /\ tasks = [i \in Eps |-> <<>>]
  /\ run = [i \in Eps |-> "idle"]
  /\ waiting = [i \in Eps |-> "none"]
  /\ reply = [i \in Eps |-> "none"]

SetupStep ==
  \/ Listen \/ StartEndpoint \/ NextFails \/ Registered \/ RegistrationAbandoned
  \/ DialFails \/ SetupFailed

CloserStep ==
  \/ OnceEnter \/ CloseEndpoint \/ CloseInvoked \/ CloseAbandoned \/ CloseSelfDone
  \/ OnceLeave \/ \E c \in Callers : CloseReturn(c)

LoopStep(i) ==
  \/ RunTask(i) \/ CheckServer(i) \/ AcquireAllocator(i) \/ Initialize(i)
  \/ RegisterEndpoint(i) \/ Activated(i) \/ RegistrationFails(i)
  \/ Deregister(i) \/ CloseTaskDone(i) \/ WriteEnqueues(i)

Next ==
  \/ SetupStep
  \/ CloserStep
  \/ \E c \in Callers : CallClose(c)
  \/ \E i \in Eps :
       \/ LoopStep(i)
       \/ HandlerCloses(i)
       \/ WriteChecks(i)
       \/ CloseBody(i)

Spec == Init /\ [][Next]_vars

-----------------------------------------------------------------------------
SetupTypes ==
  /\ role \in {"server", "client"}
  /\ setup \in [pc : {"listen", "next", "invoke", "failing", "closing", "ok", "error"},
                ep : Eps]
  /\ endpoints \in 0 .. N
  /\ onLoop \subseteq 1 .. endpoints

CloserTypes ==
  /\ serverClosed \in BOOLEAN
  /\ once \in {"fresh", "running", "done"}
  /\ closeLoop \in [pc : {"none", "endpoint", "invoke", "self"}, ep : 1 .. N + 1]
  /\ callers \in [Callers -> {"idle", "called", "returned"}]

ResourceTypes ==
  /\ sock \in [Eps -> {"none", "open", "closed"}]
  /\ fdCloses \in [Eps -> Nat]
  /\ alloc \in [Eps -> {"none", "open", "closed"}]
  /\ phase \in [Eps -> {"open", "releasing", "closingFD", "closingAlloc", "closed"}]
  /\ closer \in [Eps -> {"none", "loop", "caller"}]
  /\ queued \in [Eps -> Nat]
  /\ writes \in [Eps -> 0 .. MaxWrites]

LoopTypes ==
  /\ registered \in [Eps -> BOOLEAN]
  /\ tasks \in [Eps -> Seq(Kinds)]
  /\ run \in [Eps -> Kinds \cup {"idle", "acquire", "initialize", "registering", "active",
                                 "closing", "enqueue"}]
  /\ waiting \in [Eps -> Kinds \cup {"none"}]
  /\ reply \in [Eps -> {"none", "ok", "error", "timeout"}]

(* Every variable keeps its type, and an endpoint that has a loop is one   *)
(* of the server's: Server.Close looks nowhere else.                       *)
TypeOK == SetupTypes /\ CloserTypes /\ ResourceTypes /\ LoopTypes

(* A descriptor is closed at most once: a second close could hit a         *)
(* descriptor that the process has opened since. Close from the loop,      *)
(* Close after a timeout, and the clean-up of Bind and Dial all close it.  *)
FdClosedOnce == \A i \in Eps : fdCloses[i] <= 1

Released(i) == sock[i] = "closed" /\ alloc[i] # "open" /\ queued[i] = 0

CloseOver == setup.pc = "error" \/ \E c \in Callers : callers[c] = "returned"

(* When any call of Server.Close returns, also one that only waited for    *)
(* another, or when Bind fails, each endpoint whose loop answered the last *)
(* Invoke in time is closed, its descriptor, allocator and queue are       *)
(* released, and it is no longer registered, whatever the other loops do.  *)
(* When Dial fails, the same is true of an endpoint that was not registered*)
(* before. One that was (its first read failed) stays registered: its      *)
(* descriptor and allocator are closed, unless its loop is just closing it,*)
(* but a Write under way may still leave it a datagram.                    *)
CloseIsComplete ==
  CloseOver => \A i \in 1 .. endpoints : reply[i] # "timeout" =>
    /\ registered[i] => role = "client"
    /\ ~registered[i] => Released(i)
    /\ registered[i] /\ ~Closing(i, "loop") => sock[i] = "closed" /\ alloc[i] # "open"

(* Whatever the loops do: when Server.Close returns, or Bind or Dial       *)
(* fails, every endpoint at least refuses further calls.                   *)
NoneLeftOpen == CloseOver => \A i \in 1 .. endpoints : phase[i] # "open"

(* A Bind that fails has closed every socket it opened. The sockets of     *)
(* listenAll that no endpoint got are not closed by Server.Close.          *)
FailedBindClosesSockets == setup.pc = "error" => \A i \in Eps : sock[i] # "open"

Idle(i) == run[i] = "idle" /\ tasks[i] = <<>> /\ ~Closing(i, "loop")

(* A Dial that failed holds no socket, no allocator and no datagram once   *)
(* its loop has come to rest.                                              *)
FailedDialHoldsNothing ==
  role = "client" /\ setup.pc = "error" /\ (\A i \in Eps : Idle(i))
    => \A i \in 1 .. endpoints : Released(i)
=============================================================================

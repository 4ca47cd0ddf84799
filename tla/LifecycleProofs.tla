--------------------------- MODULE LifecycleProofs ---------------------------
(***************************************************************************)
(* Safety of Lifecycle for every number of sockets and of callers, with    *)
(* and without failures and timeouts: types, descriptors and closed        *)
(* endpoints from LifecycleInv, what a complete Close leaves behind from   *)
(* CloseInv.                                                               *)
(***************************************************************************)
EXTENDS Lifecycle, SequenceTheorems, TLAPS

(* A socket is closed by Close, or by the clean-up of Bind and Dial when   *)
(* it has no endpoint yet and will get none.                               *)
SocketInv ==
  \A i \in Eps :
    /\ fdCloses[i] = IF sock[i] = "closed" THEN 1 ELSE 0
    /\ sock[i] = "closed" => \/ phase[i] \in {"closingAlloc", "closed"}
                             \/ i > endpoints /\ setup.pc = "error"

(* Nothing has happened to endpoints that were not created, and a loop     *)
(* that is past the Close of its task finds the endpoint closed.           *)
LoopInv ==
  \A i \in Eps :
    /\ i > endpoints => /\ phase[i] = "open"
                        /\ tasks[i] = <<>>
                        /\ run[i] = "idle"
                        /\ ~registered[i]
    /\ run[i] = "closing" => phase[i] # "open"

SetupInv ==
  /\ role = "client" => setup.ep = 1
  /\ setup.pc = "listen" => endpoints = 0
  /\ setup.pc = "next" => endpoints = setup.ep - 1
  /\ setup.pc \in {"invoke", "failing", "closing"} => endpoints = setup.ep
  /\ setup.pc = "closing" => role = "client" /\ phase[setup.ep] # "open"
  /\ setup.pc = "error" =>
       /\ role = "server" => endpoints = 0 \/ once = "done"
       /\ role = "client" => \A i \in Eps : i <= endpoints => phase[i] # "open"

(* Server.Close has dealt with the endpoints before its current one.       *)
CloserInv ==
  /\ once = "fresh" => closeLoop.pc = "none"
  /\ once # "fresh" => /\ role = "server"
                       /\ setup.pc \in {"failing", "ok", "error"}
                       /\ \A i \in Eps : i <= endpoints /\ i < closeLoop.ep => phase[i] # "open"
  /\ closeLoop.pc \in {"invoke", "self"} => closeLoop.ep <= endpoints
  /\ closeLoop.pc = "self" => phase[closeLoop.ep] # "open"
  /\ closeLoop.pc = "invoke" => \/ waiting[closeLoop.ep] = "close"
                                \/ phase[closeLoop.ep] # "open"
  /\ once = "done" => \A i \in Eps : i <= endpoints => phase[i] # "open"
  /\ \A c \in Callers : /\ callers[c] # "idle" => setup.pc = "ok"
                        /\ callers[c] = "returned" => once = "done"

LifecycleInv == TypeOK /\ SocketInv /\ LoopInv /\ SetupInv /\ CloserInv

-----------------------------------------------------------------------------
(* What the operators that the actions share do to a single endpoint.      *)

LEMMA EpCloseEffect ==
  ASSUME ResourceTypes, NEW i \in Eps, NEW who \in {"loop", "caller"}, EpClose(i, who)
  PROVE  /\ phase' \in [Eps -> {"open", "releasing", "closingFD", "closingAlloc", "closed"}]
         /\ closer' \in [Eps -> {"none", "loop", "caller"}]
         /\ \A j \in Eps : phase'[j] = IF j = i /\ phase[i] = "open" THEN "releasing"
                                                                     ELSE phase[j]
  BY DEF ResourceTypes, EpClose

(* CloseSockets closes and counts the open sockets of S.                   *)
LEMMA CloseSocketsEffect ==
  ASSUME ResourceTypes, NEW S, CloseSockets(S)
  PROVE  /\ sock' \in [Eps -> {"none", "open", "closed"}]
         /\ fdCloses' \in [Eps -> Nat]
         /\ \A j \in Eps : /\ sock'[j] = IF j \in S /\ sock[j] = "open" THEN "closed" ELSE sock[j]
                           /\ fdCloses'[j] = IF j \in S /\ sock[j] = "open" THEN fdCloses[j] + 1
                                                                           ELSE fdCloses[j]
<1>1. \A j \in Eps : sock[j] \in {"none", "open", "closed"} /\ fdCloses[j] \in Nat
  BY DEF ResourceTypes
<1>2. \A j \in Eps : /\ sock'[j] = IF j \in S /\ sock[j] = "open" THEN "closed" ELSE sock[j]
                     /\ fdCloses'[j] = IF j \in S /\ sock[j] = "open" THEN fdCloses[j] + 1
                                                                     ELSE fdCloses[j]
  BY DEF CloseSockets
<1>3. sock' = [j \in Eps |-> sock'[j]]
  BY DEF CloseSockets
<1>4. fdCloses' = [j \in Eps |-> fdCloses'[j]]
  BY DEF CloseSockets
<1>5. \A j \in Eps : sock'[j] \in {"none", "open", "closed"} /\ fdCloses'[j] \in Nat
  BY <1>1, <1>2
<1> QED
  BY <1>2, <1>3, <1>4, <1>5

LEMMA PostEffect ==
  ASSUME LoopTypes, NEW i \in Eps, NEW kind \in Kinds, Post(i, kind)
  PROVE  /\ tasks' \in [Eps -> Seq(Kinds)]
         /\ waiting' \in [Eps -> Kinds \cup {"none"}]
         /\ \A j \in Eps : /\ j # i => tasks'[j] = tasks[j]
                           /\ waiting'[j] = IF j = i THEN kind ELSE waiting[j]
  BY AppendProperties DEF LoopTypes, Post

LEMMA AbandonEffect ==
  ASSUME LoopTypes, NEW i \in Eps, Abandon(i)
  PROVE  /\ tasks' \in [Eps -> Seq(Kinds)]
         /\ waiting' \in [Eps -> Kinds \cup {"none"}]
         /\ reply' \in [Eps -> {"none", "ok", "error", "timeout"}]
         /\ \A j \in Eps : /\ tasks[j] = <<>> => tasks'[j] = <<>>
                           /\ waiting'[j] = IF j = i THEN "none" ELSE waiting[j]
<1>1. tasks[i] \in Seq(Kinds)
  BY DEF LoopTypes
<1>2. SubSeq(tasks[i], 1, Len(tasks[i]) - 1) \in Seq(Kinds)
  BY <1>1, SubSeqProperties
<1> QED
  BY <1>2 DEF LoopTypes, Abandon

LEMMA GoToEffect ==
  ASSUME LoopTypes, NEW i \in Eps, NEW pc, GoTo(i, pc)
  PROVE  /\ waiting' = waiting
         /\ \A j \in Eps : run'[j] = IF j = i THEN pc ELSE run[j]
  BY DEF LoopTypes, GoTo

LEMMA FinishEffect ==
  ASSUME LoopTypes, NEW i \in Eps, NEW kind \in Kinds, NEW result, Finish(i, kind, result)
  PROVE  \A j \in Eps : /\ run'[j] = IF j = i THEN "idle" ELSE run[j]
                        /\ waiting'[j] = IF j = i /\ waiting[i] = kind THEN "none"
                                                                      ELSE waiting[j]
  BY DEF LoopTypes, Finish

LEMMA RunTaskEffect ==
  ASSUME LoopTypes, NEW i \in Eps, RunTask(i)
  PROVE  /\ tasks[i] # <<>>
         /\ \A j \in Eps : /\ j # i => tasks'[j] = tasks[j]
                           /\ run'[j] = IF j = i THEN Head(tasks[i]) ELSE run[j]
         /\ Head(tasks[i]) \in Kinds
  BY HeadTailProperties DEF LoopTypes, RunTask

(* The body of Close advances and closes the descriptor in one place.      *)
LEMMA CloseBodyEffect ==
  ASSUME ResourceTypes, NEW i \in Eps, CloseBody(i)
  PROVE  /\ phase[i] \in {"releasing", "closingFD", "closingAlloc"}
         /\ phase'[i] = CASE phase[i] = "releasing" -> "closingFD"
                          [] phase[i] = "closingFD" -> "closingAlloc"
                          [] phase[i] = "closingAlloc" -> "closed"
         /\ \A j \in Eps : j # i => /\ phase'[j] = phase[j]
                                    /\ sock'[j] = sock[j]
                                    /\ fdCloses'[j] = fdCloses[j]
         /\ IF phase[i] = "closingFD" THEN sock'[i] = "closed" /\ fdCloses'[i] = fdCloses[i] + 1
                                      ELSE sock'[i] = sock[i] /\ fdCloses'[i] = fdCloses[i]
  BY DEF ResourceTypes, CloseBody

-----------------------------------------------------------------------------
(* Type correctness: each action preserves the types of what it changes.   *)
LEMMA TypePreserved ==
  ASSUME LifecycleInv, [Next]_vars
  PROVE  TypeOK'
<1> USE LifecycleAssumption DEF TypeOK
<1>t. SetupTypes /\ CloserTypes /\ ResourceTypes /\ LoopTypes
  BY DEF LifecycleInv
<1>e. /\ Eps = 1 .. N /\ endpoints \in 0 .. N
      /\ setup.ep \in Eps
      /\ setup.pc = "next" => endpoints = setup.ep - 1
      /\ role = "client" => setup.ep = 1
      /\ closeLoop.ep \in 1 .. N + 1
      /\ closeLoop.pc \in {"invoke", "self"} => closeLoop.ep \in Eps
      /\ closeLoop.ep <= endpoints => closeLoop.ep \in Eps
  BY <1>t DEF LifecycleInv, SetupTypes, CloserTypes, SetupInv, CloserInv, Eps
<1>a. ASSUME UNCHANGED setupVars PROVE SetupTypes'
  BY <1>a, <1>t DEF SetupTypes, setupVars
<1>b. ASSUME UNCHANGED closeVars PROVE CloserTypes'
  BY <1>b, <1>t DEF CloserTypes, closeVars
<1>c. ASSUME UNCHANGED resVars PROVE ResourceTypes'
  BY <1>c, <1>t DEF ResourceTypes, resVars
<1>d. ASSUME UNCHANGED loopVars PROVE LoopTypes'
  BY <1>d, <1>t DEF LoopTypes, loopVars
<1>1. CASE Listen
  <2>1. SetupTypes'
    BY <1>1, <1>t, <1>e DEF SetupTypes, Listen, Sockets, At
  <2>2. CloserTypes'
    BY <1>1, <1>b DEF Listen
  <2>3. ResourceTypes'
    BY <1>1, <1>t, <1>e, CloseSocketsEffect DEF ResourceTypes, Listen
  <2>4. LoopTypes'
    BY <1>1, <1>d DEF Listen
  <2> QED
    BY <2>1, <2>2, <2>3, <2>4
<1>2. CASE StartEndpoint
  <2>1. SetupTypes'
    <3>1. endpoints' = setup.ep /\ onLoop' = onLoop \cup {setup.ep} /\ setup' = At("invoke", setup.ep)
          /\ role' = role
      BY <1>2 DEF StartEndpoint
    <3>2. onLoop \subseteq 1 .. endpoints /\ endpoints = setup.ep - 1
      BY <1>2, <1>t, <1>e DEF SetupTypes, StartEndpoint
    <3>3. setup.ep \in 1 .. setup.ep /\ setup.ep \in 0 .. N
      BY <1>e
    <3>4. 1 .. endpoints \subseteq 1 .. setup.ep
      BY <3>2, <1>e
    <3>5. onLoop' \subseteq 1 .. endpoints'
      BY <3>1, <3>2, <3>3, <3>4, Zenon
    <3> QED
      BY <3>1, <3>3, <3>5, <1>e, <1>t DEF SetupTypes, At
  <2>2. CloserTypes'
    BY <1>2, <1>b DEF StartEndpoint
  <2>3. ResourceTypes'
    BY <1>2, <1>c DEF StartEndpoint
  <2>4. LoopTypes'
    BY <1>2, <1>t, <1>e, PostEffect DEF LoopTypes, StartEndpoint, Kinds
  <2> QED
    BY <2>1, <2>2, <2>3, <2>4
<1>3. CASE NextFails
  <2>1. SetupTypes'
    BY <1>3, <1>t, <1>e DEF SetupTypes, NextFails, At
  <2>2. CloserTypes'
    BY <1>3, <1>b DEF NextFails
  <2>3. ResourceTypes'
    BY <1>3, <1>t, <1>e, CloseSocketsEffect DEF ResourceTypes, NextFails
  <2>4. LoopTypes'
    BY <1>3, <1>d DEF NextFails
  <2> QED
    BY <2>1, <2>2, <2>3, <2>4
<1>4. CASE Registered
  <2>1. SetupTypes'
    BY <1>4, <1>t, <1>e DEF SetupTypes, Registered, Sockets, At
  <2>2. CloserTypes'
    BY <1>4, <1>b DEF Registered
  <2>3. ResourceTypes'
    BY <1>4, <1>c DEF Registered
  <2>4. LoopTypes'
    BY <1>4, <1>d DEF Registered
  <2> QED
    BY <2>1, <2>2, <2>3, <2>4
<1>5. CASE RegistrationAbandoned
  <2>1. SetupTypes'
    BY <1>5, <1>t, <1>e DEF SetupTypes, RegistrationAbandoned, At
  <2>2. CloserTypes'
    BY <1>5, <1>b DEF RegistrationAbandoned
  <2>3. ResourceTypes'
    BY <1>5, <1>c DEF RegistrationAbandoned
  <2>4. LoopTypes'
    BY <1>5, <1>t, <1>e, AbandonEffect DEF LoopTypes, RegistrationAbandoned, Kinds
  <2> QED
    BY <2>1, <2>2, <2>3, <2>4
<1>6. CASE DialFails
  <2>1. SetupTypes'
    BY <1>6, <1>t, <1>e DEF SetupTypes, DialFails, At
  <2>2. CloserTypes'
    BY <1>6, <1>b DEF DialFails
  <2>3. ResourceTypes'
    BY <1>6, <1>t, <1>e, EpCloseEffect DEF ResourceTypes, DialFails
  <2>4. LoopTypes'
    BY <1>6, <1>d DEF DialFails
  <2> QED
    BY <2>1, <2>2, <2>3, <2>4
<1>7. CASE SetupFailed
  <2>1. SetupTypes'
    BY <1>7, <1>t, <1>e DEF SetupTypes, SetupFailed, At
  <2>2. CloserTypes'
    BY <1>7, <1>b DEF SetupFailed
  <2>3. ResourceTypes'
    BY <1>7, <1>c DEF SetupFailed
  <2>4. LoopTypes'
    BY <1>7, <1>d DEF SetupFailed
  <2> QED
    BY <2>1, <2>2, <2>3, <2>4
<1>8. CASE OnceEnter
  <2>1. SetupTypes'
    BY <1>8, <1>a DEF OnceEnter
  <2>2. CloserTypes'
    BY <1>8, <1>t, <1>e DEF CloserTypes, OnceEnter, At
  <2>3. ResourceTypes'
    BY <1>8, <1>c DEF OnceEnter
  <2>4. LoopTypes'
    BY <1>8, <1>d DEF OnceEnter
  <2> QED
    BY <2>1, <2>2, <2>3, <2>4
<1>9. CASE CloseEndpoint
  <2>1. SetupTypes'
    BY <1>9, <1>a DEF CloseEndpoint
  <2>2. CloserTypes'
    BY <1>9, <1>t, <1>e DEF CloserTypes, CloseEndpoint, At
  <2>3. ResourceTypes'
    BY <1>9, <1>t, <1>e, EpCloseEffect DEF ResourceTypes, CloseEndpoint
  <2>4. LoopTypes'
    BY <1>9, <1>t, <1>e, PostEffect DEF LoopTypes, CloseEndpoint, Kinds
  <2> QED
    BY <2>1, <2>2, <2>3, <2>4
<1>10. CASE CloseInvoked
  <2>1. SetupTypes'
    BY <1>10, <1>a DEF CloseInvoked
  <2>2. CloserTypes'
    BY <1>10, <1>t, <1>e DEF CloserTypes, CloseInvoked, At
  <2>3. ResourceTypes'
    BY <1>10, <1>c DEF CloseInvoked
  <2>4. LoopTypes'
    BY <1>10, <1>d DEF CloseInvoked
  <2> QED
    BY <2>1, <2>2, <2>3, <2>4
<1>11. CASE CloseAbandoned
  <2>1. SetupTypes'
    BY <1>11, <1>a DEF CloseAbandoned
  <2>2. CloserTypes'
    BY <1>11, <1>t, <1>e DEF CloserTypes, CloseAbandoned, At
  <2>3. ResourceTypes'
    BY <1>11, <1>t, <1>e, EpCloseEffect DEF ResourceTypes, CloseAbandoned
  <2>4. LoopTypes'
    BY <1>11, <1>t, <1>e, AbandonEffect DEF LoopTypes, CloseAbandoned, Kinds
  <2> QED
    BY <2>1, <2>2, <2>3, <2>4
<1>12. CASE CloseSelfDone
  <2>1. SetupTypes'
    BY <1>12, <1>a DEF CloseSelfDone
  <2>2. CloserTypes'
    BY <1>12, <1>t, <1>e DEF CloserTypes, CloseSelfDone, At
  <2>3. ResourceTypes'
    BY <1>12, <1>c DEF CloseSelfDone
  <2>4. LoopTypes'
    BY <1>12, <1>d DEF CloseSelfDone
  <2> QED
    BY <2>1, <2>2, <2>3, <2>4
<1>13. CASE OnceLeave
  <2>1. SetupTypes'
    BY <1>13, <1>a DEF OnceLeave
  <2>2. CloserTypes'
    BY <1>13, <1>t DEF CloserTypes, OnceLeave, At
  <2>3. ResourceTypes'
    BY <1>13, <1>c DEF OnceLeave
  <2>4. LoopTypes'
    BY <1>13, <1>d DEF OnceLeave
  <2> QED
    BY <2>1, <2>2, <2>3, <2>4
<1>14. ASSUME NEW c \in Callers, CloseReturn(c)
     PROVE  TypeOK'
  <2>1. SetupTypes'
    BY <1>14, <1>a DEF CloseReturn
  <2>2. CloserTypes'
    BY <1>14, <1>t DEF CloserTypes, CloseReturn
  <2>3. ResourceTypes'
    BY <1>14, <1>c DEF CloseReturn
  <2>4. LoopTypes'
    BY <1>14, <1>d DEF CloseReturn
  <2> QED
    BY <2>1, <2>2, <2>3, <2>4
<1>15. ASSUME NEW c \in Callers, CallClose(c)
     PROVE  TypeOK'
  <2>1. SetupTypes'
    BY <1>15, <1>a DEF CallClose
  <2>2. CloserTypes'
    BY <1>15, <1>t DEF CloserTypes, CallClose
  <2>3. ResourceTypes'
    BY <1>15, <1>c DEF CallClose
  <2>4. LoopTypes'
    BY <1>15, <1>d DEF CallClose
  <2> QED
    BY <2>1, <2>2, <2>3, <2>4
<1>16. ASSUME NEW i \in Eps, RunTask(i)
     PROVE  TypeOK'
  <2>1. SetupTypes'
    BY <1>16, <1>a DEF RunTask
  <2>2. CloserTypes'
    BY <1>16, <1>b DEF RunTask
  <2>3. ResourceTypes'
    BY <1>16, <1>c DEF RunTask
  <2>4. LoopTypes'
    BY <1>16, <1>t, HeadTailProperties DEF LoopTypes, RunTask, Kinds
  <2> QED
    BY <2>1, <2>2, <2>3, <2>4
<1>17. ASSUME NEW i \in Eps, CheckServer(i)
     PROVE  TypeOK'
  <2>1. SetupTypes'
    BY <1>17, <1>a DEF CheckServer
  <2>2. CloserTypes'
    BY <1>17, <1>b DEF CheckServer
  <2>3. ResourceTypes'
    BY <1>17, <1>c DEF CheckServer
  <2>4. LoopTypes'
    BY <1>17, <1>t DEF LoopTypes, CheckServer, GoTo, Finish, Kinds
  <2> QED
    BY <2>1, <2>2, <2>3, <2>4
<1>18. ASSUME NEW i \in Eps, AcquireAllocator(i)
     PROVE  TypeOK'
  <2>1. SetupTypes'
    BY <1>18, <1>a DEF AcquireAllocator
  <2>2. CloserTypes'
    BY <1>18, <1>b DEF AcquireAllocator
  <2>3. ResourceTypes'
    BY <1>18, <1>t DEF ResourceTypes, AcquireAllocator
  <2>4. LoopTypes'
    BY <1>18, <1>t DEF LoopTypes, AcquireAllocator, GoTo, Kinds
  <2> QED
    BY <2>1, <2>2, <2>3, <2>4
<1>19. ASSUME NEW i \in Eps, Initialize(i)
     PROVE  TypeOK'
  <2>1. SetupTypes'
    BY <1>19, <1>a DEF Initialize
  <2>2. CloserTypes'
    BY <1>19, <1>b DEF Initialize
  <2>3. ResourceTypes'
    BY <1>19, <1>c DEF Initialize
  <2>4. LoopTypes'
    BY <1>19, <1>t DEF LoopTypes, Initialize, GoTo, Kinds
  <2> QED
    BY <2>1, <2>2, <2>3, <2>4
<1>20. ASSUME NEW i \in Eps, RegisterEndpoint(i)
     PROVE  TypeOK'
  <2>1. SetupTypes'
    BY <1>20, <1>a DEF RegisterEndpoint
  <2>2. CloserTypes'
    BY <1>20, <1>b DEF RegisterEndpoint
  <2>3. ResourceTypes'
    BY <1>20, <1>c DEF RegisterEndpoint
  <2>4. LoopTypes'
    BY <1>20, <1>t DEF LoopTypes, RegisterEndpoint, GoTo, Kinds
  <2> QED
    BY <2>1, <2>2, <2>3, <2>4
<1>21. ASSUME NEW i \in Eps, Activated(i)
     PROVE  TypeOK'
  <2>1. SetupTypes'
    BY <1>21, <1>a DEF Activated
  <2>2. CloserTypes'
    BY <1>21, <1>b DEF Activated
  <2>3. ResourceTypes'
    BY <1>21, <1>c DEF Activated
  <2>4. LoopTypes'
    BY <1>21, <1>t DEF LoopTypes, Activated, Finish, Kinds
  <2> QED
    BY <2>1, <2>2, <2>3, <2>4
<1>22. ASSUME NEW i \in Eps, RegistrationFails(i)
     PROVE  TypeOK'
  <2>1. SetupTypes'
    BY <1>22, <1>a DEF RegistrationFails
  <2>2. CloserTypes'
    BY <1>22, <1>b DEF RegistrationFails
  <2>3. ResourceTypes'
    BY <1>22, <1>c DEF RegistrationFails
  <2>4. LoopTypes'
    BY <1>22, <1>t DEF LoopTypes, RegistrationFails, Finish, Kinds
  <2> QED
    BY <2>1, <2>2, <2>3, <2>4
<1>23. ASSUME NEW i \in Eps, Deregister(i)
     PROVE  TypeOK'
  <2>1. SetupTypes'
    BY <1>23, <1>a DEF Deregister
  <2>2. CloserTypes'
    BY <1>23, <1>b DEF Deregister
  <2>3. ResourceTypes'
    BY <1>23, <1>t, EpCloseEffect DEF ResourceTypes, Deregister
  <2>4. LoopTypes'
    BY <1>23, <1>t DEF LoopTypes, Deregister, GoTo, Kinds
  <2> QED
    BY <2>1, <2>2, <2>3, <2>4
<1>24. ASSUME NEW i \in Eps, CloseTaskDone(i)
     PROVE  TypeOK'
  <2>1. SetupTypes'
    BY <1>24, <1>a DEF CloseTaskDone
  <2>2. CloserTypes'
    BY <1>24, <1>b DEF CloseTaskDone
  <2>3. ResourceTypes'
    BY <1>24, <1>c DEF CloseTaskDone
  <2>4. LoopTypes'
    BY <1>24, <1>t DEF LoopTypes, CloseTaskDone, Finish, Kinds
  <2> QED
    BY <2>1, <2>2, <2>3, <2>4
<1>25. ASSUME NEW i \in Eps, WriteEnqueues(i)
     PROVE  TypeOK'
  <2>1. SetupTypes'
    BY <1>25, <1>a DEF WriteEnqueues
  <2>2. CloserTypes'
    BY <1>25, <1>b DEF WriteEnqueues
  <2>3. ResourceTypes'
    BY <1>25, <1>t DEF ResourceTypes, WriteEnqueues
  <2>4. LoopTypes'
    BY <1>25, <1>t DEF LoopTypes, WriteEnqueues, GoTo, Kinds
  <2> QED
    BY <2>1, <2>2, <2>3, <2>4
<1>26. ASSUME NEW i \in Eps, HandlerCloses(i)
     PROVE  TypeOK'
  <2>1. SetupTypes'
    BY <1>26, <1>a DEF HandlerCloses
  <2>2. CloserTypes'
    BY <1>26, <1>b DEF HandlerCloses
  <2>3. ResourceTypes'
    BY <1>26, <1>t, EpCloseEffect DEF ResourceTypes, HandlerCloses
  <2>4. LoopTypes'
    BY <1>26, <1>d DEF HandlerCloses
  <2> QED
    BY <2>1, <2>2, <2>3, <2>4
<1>27. ASSUME NEW i \in Eps, WriteChecks(i)
     PROVE  TypeOK'
  <2>1. SetupTypes'
    BY <1>27, <1>a DEF WriteChecks
  <2>2. CloserTypes'
    BY <1>27, <1>b DEF WriteChecks
  <2>3. ResourceTypes'
    BY <1>27, <1>t DEF ResourceTypes, WriteChecks
  <2>4. LoopTypes'
    BY <1>27, <1>t DEF LoopTypes, WriteChecks, GoTo, Kinds
  <2> QED
    BY <2>1, <2>2, <2>3, <2>4
<1>28. ASSUME NEW i \in Eps, CloseBody(i)
     PROVE  TypeOK'
  <2>1. SetupTypes'
    BY <1>28, <1>a DEF CloseBody
  <2>2. CloserTypes'
    BY <1>28, <1>b DEF CloseBody
  <2>3. ResourceTypes'
    BY <1>28, <1>t DEF ResourceTypes, CloseBody
  <2>4. LoopTypes'
    BY <1>28, <1>d DEF CloseBody
  <2> QED
    BY <2>1, <2>2, <2>3, <2>4
<1>29. CASE UNCHANGED vars
  BY <1>29, <1>a, <1>b, <1>c, <1>d DEF vars
<1> QED
  BY <1>1, <1>2, <1>3, <1>4, <1>5, <1>6, <1>7, <1>8, <1>9, <1>10, <1>11, <1>12, <1>13, <1>14,
     <1>15, <1>16, <1>17, <1>18, <1>19, <1>20, <1>21, <1>22, <1>23, <1>24, <1>25, <1>26, <1>27,
     <1>28, <1>29 DEF Next, SetupStep, CloserStep, LoopStep

(* A descriptor is closed either by clean-up code or by Close, never by    *)
(* both.                                                                   *)
LEMMA SocketInvPreserved ==
  ASSUME LifecycleInv, [Next]_vars
  PROVE  SocketInv'
<1> USE LifecycleAssumption
<1>a. /\ SetupTypes /\ CloserTypes /\ ResourceTypes /\ LoopTypes
      /\ SocketInv /\ LoopInv /\ SetupInv /\ CloserInv
  BY DEF LifecycleInv, TypeOK
<1>b. /\ setup.ep \in Eps /\ endpoints \in 0 .. N
      /\ closeLoop.ep \in 1 .. N + 1
      /\ closeLoop.pc \in {"invoke", "self"} => closeLoop.ep \in Eps
      /\ closeLoop.ep <= endpoints => closeLoop.ep \in Eps
      /\ Eps = 1 .. N
  BY <1>a DEF SetupTypes, CloserTypes, CloserInv, Eps
<1>1. CASE Listen
  <2>1. /\ endpoints = 0 /\ endpoints' = 0 /\ phase' = phase
        /\ \A j \in Eps : phase[j] = "open" /\ sock[j] # "closed" /\ fdCloses[j] = 0
    BY <1>1, <1>a, <1>b DEF Listen, SetupInv, LoopInv, SocketInv
  <2>2. CASE sock' = [sock EXCEPT ![setup.ep] = "open"] /\ UNCHANGED fdCloses
    BY <2>1, <2>2, <1>a DEF SocketInv, ResourceTypes
  <2>3. CASE CloseSockets(Eps) /\ setup' = At("error", setup.ep)
    <3>1. \A j \in Eps : fdCloses'[j] = IF sock'[j] = "closed" THEN 1 ELSE 0
      BY <2>1, <2>3, <1>a, CloseSocketsEffect
    <3>2. \A j \in Eps : j > endpoints' /\ setup'.pc = "error"
      BY <2>1, <2>3, <1>b DEF At
    <3> QED
      BY <3>1, <3>2 DEF SocketInv
  <2> QED
    BY <1>1, <2>2, <2>3 DEF Listen
<1>2. CASE StartEndpoint
  BY <1>2, <1>a, <1>b, PostEffect
     DEF SocketInv, LoopInv, SetupInv, CloserInv, StartEndpoint, At,
     setupVars, closeVars, resVars, loopVars
<1>3. CASE NextFails
  <2>1. /\ setup.pc = "next" /\ endpoints = setup.ep - 1 /\ phase' = phase
        /\ \A j \in Eps : sock[j] = "closed" => phase[j] \in {"closingAlloc", "closed"}
    BY <1>3, <1>a DEF NextFails, SetupInv, SocketInv
  <2>2. CASE UNCHANGED <<sock, fdCloses>>
    BY <2>1, <2>2, <1>a DEF SocketInv
  <2>3. CASE setup' = At("error", setup.ep) /\ CloseSockets({setup.ep}) /\ UNCHANGED endpoints
    <3>1. setup'.pc = "error" /\ setup.ep > endpoints'
      BY <2>1, <2>3, <1>b DEF At
    <3>2. \A j \in Eps : j # setup.ep => sock'[j] = sock[j] /\ fdCloses'[j] = fdCloses[j]
      BY <2>3, <1>a, CloseSocketsEffect
    <3>3. fdCloses'[setup.ep] = IF sock'[setup.ep] = "closed" THEN 1 ELSE 0
      <4>1. \A j \in Eps : /\ sock'[j] = IF j \in {setup.ep} /\ sock[j] = "open" THEN "closed"
                                                                            ELSE sock[j]
                          /\ fdCloses'[j] = IF j \in {setup.ep} /\ sock[j] = "open"
                                            THEN fdCloses[j] + 1 ELSE fdCloses[j]
        BY <2>3, <1>a, CloseSocketsEffect
      <4>2. fdCloses[setup.ep] = IF sock[setup.ep] = "closed" THEN 1 ELSE 0
        BY <1>a, <1>b DEF SocketInv
      <4> QED
        BY <4>1, <4>2, <1>b
    <3>4. \A j \in Eps : fdCloses'[j] = IF sock'[j] = "closed" THEN 1 ELSE 0
      BY <3>2, <3>3, <1>a DEF SocketInv
    <3>5. ASSUME NEW j \in Eps, sock'[j] = "closed"
          PROVE  \/ phase'[j] \in {"closingAlloc", "closed"}
                 \/ (j > endpoints' /\ setup'.pc = "error")
      <4>1. CASE j = setup.ep
        BY <3>1, <4>1
      <4>2. CASE j # setup.ep
        BY <2>1, <3>2, <3>5, <4>2
      <4> QED
        BY <4>1, <4>2
    <3> QED
      BY <3>4, <3>5 DEF SocketInv
  <2> QED
    BY <1>3, <2>2, <2>3 DEF NextFails
<1>4. CASE Registered
  BY <1>4, <1>a, <1>b DEF SocketInv, LoopInv, SetupInv, CloserInv, Registered, Sockets, At,
     setupVars, closeVars, resVars, loopVars
<1>5. CASE RegistrationAbandoned
  BY <1>5, <1>a, <1>b, AbandonEffect DEF SocketInv, LoopInv, SetupInv, CloserInv,
     RegistrationAbandoned, At, setupVars, closeVars, resVars, loopVars
<1>6. CASE DialFails
  BY <1>6, <1>a, <1>b, EpCloseEffect DEF SocketInv, LoopInv, SetupInv, CloserInv, DialFails, At,
     setupVars, closeVars, resVars, loopVars
<1>7. CASE SetupFailed
  BY <1>7, <1>a, <1>b DEF SocketInv, LoopInv, SetupInv, CloserInv, SetupFailed, At, setupVars,
     closeVars, resVars, loopVars
<1>8. CASE OnceEnter
  BY <1>8, <1>a, <1>b DEF SocketInv, LoopInv, SetupInv, CloserInv, OnceEnter, At, setupVars,
     closeVars, resVars, loopVars
<1>9. CASE CloseEndpoint
  BY <1>9, <1>a, <1>b, PostEffect, EpCloseEffect DEF SocketInv, LoopInv, SetupInv, CloserInv,
     CloseEndpoint, At, setupVars, closeVars, resVars, loopVars
<1>10. CASE CloseInvoked
  BY <1>10, <1>a, <1>b DEF SocketInv, LoopInv, SetupInv, CloserInv, CloseInvoked, At, setupVars,
     closeVars, resVars, loopVars
<1>11. CASE CloseAbandoned
  <2>1. closeLoop.ep \in Eps /\ closeLoop.ep <= endpoints
    BY <1>11, <1>a, <1>b DEF CloseAbandoned, CloserInv
  <2>2. /\ UNCHANGED <<role, setup, endpoints, once, callers, sock, fdCloses, registered, run>>
        /\ closeLoop' = At("self", closeLoop.ep)
    BY <1>11 DEF CloseAbandoned, setupVars
  <2>3. /\ phase'[closeLoop.ep] # "open"
        /\ \A j \in Eps : phase'[j] = IF j = closeLoop.ep /\ phase[j] = "open" THEN "releasing"
                                                                           ELSE phase[j]
    <3>1. EpClose(closeLoop.ep, "caller") /\ ResourceTypes
      BY <1>11, <1>a DEF CloseAbandoned
    <3> QED
      BY <3>1, <2>1, EpCloseEffect
  <2>4. \A j \in Eps : tasks[j] = <<>> => tasks'[j] = <<>>
    BY <1>11, <2>1, <1>a, AbandonEffect DEF CloseAbandoned
  <2>5. closeLoop.pc = "invoke"
    BY <1>11 DEF CloseAbandoned
  <2> QED
    BY <2>1, <2>2, <2>3, <2>4, <2>5, <1>a, <1>b DEF SocketInv
<1>12. CASE CloseSelfDone
  BY <1>12, <1>a, <1>b
     DEF SocketInv, LoopInv, SetupInv, CloserInv, CloseSelfDone, At, setupVars,
     closeVars, resVars, loopVars
<1>13. CASE OnceLeave
  BY <1>13, <1>a, <1>b DEF SocketInv, LoopInv, SetupInv, CloserInv, OnceLeave, At, setupVars,
     closeVars, resVars, loopVars
<1>14. ASSUME NEW c \in Callers, CloseReturn(c)
     PROVE  SocketInv'
  BY <1>14, <1>a, <1>b DEF SocketInv, LoopInv, SetupInv, CloserInv, CloseReturn, At, setupVars,
     closeVars, resVars, loopVars
<1>15. ASSUME NEW c \in Callers, CallClose(c)
     PROVE  SocketInv'
  BY <1>15, <1>a, <1>b DEF SocketInv, LoopInv, SetupInv, CloserInv, CallClose, At, setupVars,
     closeVars, resVars, loopVars
<1>16. ASSUME NEW i \in Eps, RunTask(i)
     PROVE  SocketInv'
  BY <1>16, <1>a, <1>b, RunTaskEffect DEF SocketInv, LoopInv, SetupInv, CloserInv, RunTask, At,
     setupVars, closeVars, resVars, loopVars
<1>17. ASSUME NEW i \in Eps, CheckServer(i)
     PROVE  SocketInv'
  BY <1>17, <1>a, <1>b, GoToEffect, FinishEffect DEF SocketInv, LoopInv, SetupInv, CloserInv,
     CheckServer, At, setupVars, closeVars, resVars, loopVars
<1>18. ASSUME NEW i \in Eps, AcquireAllocator(i)
     PROVE  SocketInv'
  BY <1>18, <1>a, <1>b, GoToEffect
     DEF SocketInv, LoopInv, SetupInv, CloserInv, AcquireAllocator,
     At, setupVars, closeVars, resVars, loopVars
<1>19. ASSUME NEW i \in Eps, Initialize(i)
     PROVE  SocketInv'
  BY <1>19, <1>a, <1>b, GoToEffect DEF SocketInv, LoopInv, SetupInv, CloserInv, Initialize, At,
     setupVars, closeVars, resVars, loopVars
<1>20. ASSUME NEW i \in Eps, RegisterEndpoint(i)
     PROVE  SocketInv'
  BY <1>20, <1>a, <1>b, GoToEffect
     DEF SocketInv, LoopInv, SetupInv, CloserInv, RegisterEndpoint,
     At, setupVars, closeVars, resVars, loopVars
<1>21. ASSUME NEW i \in Eps, Activated(i)
     PROVE  SocketInv'
  BY <1>21, <1>a, <1>b, FinishEffect DEF SocketInv, LoopInv, SetupInv, CloserInv, Activated, At,
     setupVars, closeVars, resVars, loopVars
<1>22. ASSUME NEW i \in Eps, RegistrationFails(i)
     PROVE  SocketInv'
  BY <1>22, <1>a, <1>b, FinishEffect DEF SocketInv, LoopInv, SetupInv, CloserInv,
     RegistrationFails, At, setupVars, closeVars, resVars, loopVars
<1>23. ASSUME NEW i \in Eps, Deregister(i)
     PROVE  SocketInv'
  BY <1>23, <1>a, <1>b, GoToEffect, EpCloseEffect DEF SocketInv, LoopInv, SetupInv, CloserInv,
     Deregister, At, setupVars, closeVars, resVars, loopVars
<1>24. ASSUME NEW i \in Eps, CloseTaskDone(i)
     PROVE  SocketInv'
  BY <1>24, <1>a, <1>b, FinishEffect DEF SocketInv, LoopInv, SetupInv, CloserInv, CloseTaskDone,
     At, setupVars, closeVars, resVars, loopVars
<1>25. ASSUME NEW i \in Eps, WriteEnqueues(i)
     PROVE  SocketInv'
  BY <1>25, <1>a, <1>b, GoToEffect
     DEF SocketInv, LoopInv, SetupInv, CloserInv, WriteEnqueues, At,
     setupVars, closeVars, resVars, loopVars
<1>26. ASSUME NEW i \in Eps, HandlerCloses(i)
     PROVE  SocketInv'
  BY <1>26, <1>a, <1>b, EpCloseEffect
     DEF SocketInv, LoopInv, SetupInv, CloserInv, HandlerCloses,
     At, setupVars, closeVars, resVars, loopVars
<1>27. ASSUME NEW i \in Eps, WriteChecks(i)
     PROVE  SocketInv'
  BY <1>27, <1>a, <1>b, GoToEffect DEF SocketInv, LoopInv, SetupInv, CloserInv, WriteChecks, At,
     setupVars, closeVars, resVars, loopVars
<1>28. ASSUME NEW i \in Eps, CloseBody(i)
     PROVE  SocketInv'
  BY <1>28, <1>a, <1>b, CloseBodyEffect DEF SocketInv, LoopInv, SetupInv, CloserInv, CloseBody,
     At, setupVars, closeVars, resVars, loopVars
<1>29. CASE UNCHANGED vars
  BY <1>29, <1>a
     DEF SocketInv, LoopInv, SetupInv, CloserInv, vars, setupVars, closeVars, resVars,
     loopVars
<1> QED
  BY <1>1, <1>2, <1>3, <1>4, <1>5, <1>6, <1>7, <1>8, <1>9, <1>10, <1>11, <1>12, <1>13, <1>14,
     <1>15, <1>16, <1>17, <1>18, <1>19, <1>20, <1>21, <1>22, <1>23, <1>24, <1>25, <1>26, <1>27,
     <1>28, <1>29 DEF Next, SetupStep, CloserStep, LoopStep

(* Only endpoints that exist are given tasks, and Deregister is followed   *)
(* by Close in the same task.                                              *)
LEMMA LoopInvPreserved ==
  ASSUME LifecycleInv, [Next]_vars
  PROVE  LoopInv'
<1> USE LifecycleAssumption
<1>a. /\ SetupTypes /\ CloserTypes /\ ResourceTypes /\ LoopTypes
      /\ LoopInv /\ SetupInv /\ CloserInv
  BY DEF LifecycleInv, TypeOK
<1>b. /\ setup.ep \in Eps /\ endpoints \in 0 .. N
      /\ closeLoop.ep \in 1 .. N + 1
      /\ closeLoop.pc \in {"invoke", "self"} => closeLoop.ep \in Eps
      /\ closeLoop.ep <= endpoints => closeLoop.ep \in Eps
      /\ Eps = 1 .. N
  BY <1>a DEF SetupTypes, CloserTypes, CloserInv, Eps
<1>1. CASE Listen
  BY <1>1, <1>a, <1>b, CloseSocketsEffect DEF LoopInv, SetupInv, CloserInv, Kinds, Listen,
     Sockets, At, setupVars, closeVars, resVars, loopVars
<1>2. CASE StartEndpoint
  <2>1. endpoints' = setup.ep /\ setup.ep = endpoints + 1
    BY <1>2, <1>a, <1>b DEF StartEndpoint, SetupInv
  <2>2. UNCHANGED <<phase, registered, run>>
    BY <1>2 DEF StartEndpoint, resVars
  <2>3. \A j \in Eps : j # setup.ep => tasks'[j] = tasks[j]
    BY <1>2, <1>a, <1>b, PostEffect DEF StartEndpoint, Kinds
  <2> QED
    BY <2>1, <2>2, <2>3, <1>a, <1>b DEF LoopInv
<1>3. CASE NextFails
  BY <1>3, <1>a, <1>b, CloseSocketsEffect
     DEF LoopInv, SetupInv, CloserInv, Kinds, NextFails, At,
     setupVars, closeVars, resVars, loopVars
<1>4. CASE Registered
  BY <1>4, <1>a, <1>b
     DEF LoopInv, SetupInv, CloserInv, Kinds, Registered, Sockets, At, setupVars,
     closeVars, resVars, loopVars
<1>5. CASE RegistrationAbandoned
  BY <1>5, <1>a, <1>b, AbandonEffect DEF LoopInv, SetupInv, CloserInv, Kinds,
     RegistrationAbandoned, At, setupVars, closeVars, resVars, loopVars
<1>6. CASE DialFails
  BY <1>6, <1>a, <1>b, EpCloseEffect DEF LoopInv, SetupInv, CloserInv, Kinds, DialFails, At,
     setupVars, closeVars, resVars, loopVars
<1>7. CASE SetupFailed
  BY <1>7, <1>a, <1>b DEF LoopInv, SetupInv, CloserInv, Kinds, SetupFailed, At, setupVars,
     closeVars, resVars, loopVars
<1>8. CASE OnceEnter
  BY <1>8, <1>a, <1>b DEF LoopInv, SetupInv, CloserInv, Kinds, OnceEnter, At, setupVars,
     closeVars, resVars, loopVars
<1>9. CASE CloseEndpoint
  BY <1>9, <1>a, <1>b, PostEffect, EpCloseEffect DEF LoopInv, SetupInv, CloserInv, Kinds,
     CloseEndpoint, At, setupVars, closeVars, resVars, loopVars
<1>10. CASE CloseInvoked
  BY <1>10, <1>a, <1>b DEF LoopInv, SetupInv, CloserInv, Kinds, CloseInvoked, At, setupVars,
     closeVars, resVars, loopVars
<1>11. CASE CloseAbandoned
  <2>1. closeLoop.ep \in Eps /\ closeLoop.ep <= endpoints
    BY <1>11, <1>a, <1>b DEF CloseAbandoned, CloserInv
  <2>2. /\ UNCHANGED <<role, setup, endpoints, once, callers, sock, fdCloses, registered, run>>
        /\ closeLoop' = At("self", closeLoop.ep)
    BY <1>11 DEF CloseAbandoned, setupVars
  <2>3. /\ phase'[closeLoop.ep] # "open"
        /\ \A j \in Eps : phase'[j] = IF j = closeLoop.ep /\ phase[j] = "open" THEN "releasing"
                                                                           ELSE phase[j]
    <3>1. EpClose(closeLoop.ep, "caller") /\ ResourceTypes
      BY <1>11, <1>a DEF CloseAbandoned
    <3> QED
      BY <3>1, <2>1, EpCloseEffect
  <2>4. \A j \in Eps : tasks[j] = <<>> => tasks'[j] = <<>>
    BY <1>11, <2>1, <1>a, AbandonEffect DEF CloseAbandoned
  <2>5. closeLoop.pc = "invoke"
    BY <1>11 DEF CloseAbandoned
  <2> QED
    BY <2>1, <2>2, <2>3, <2>4, <2>5, <1>a, <1>b DEF LoopInv
<1>12. CASE CloseSelfDone
  BY <1>12, <1>a, <1>b DEF LoopInv, SetupInv, CloserInv, Kinds, CloseSelfDone, At, setupVars,
     closeVars, resVars, loopVars
<1>13. CASE OnceLeave
  BY <1>13, <1>a, <1>b DEF LoopInv, SetupInv, CloserInv, Kinds, OnceLeave, At, setupVars,
     closeVars, resVars, loopVars
<1>14. ASSUME NEW c \in Callers, CloseReturn(c)
     PROVE  LoopInv'
  BY <1>14, <1>a, <1>b DEF LoopInv, SetupInv, CloserInv, Kinds, CloseReturn, At, setupVars,
     closeVars, resVars, loopVars
<1>15. ASSUME NEW c \in Callers, CallClose(c)
     PROVE  LoopInv'
  BY <1>15, <1>a, <1>b DEF LoopInv, SetupInv, CloserInv, Kinds, CallClose, At, setupVars,
     closeVars, resVars, loopVars
<1>16. ASSUME NEW i \in Eps, RunTask(i)
     PROVE  LoopInv'
  <2>1. /\ tasks[i] # <<>>
        /\ \A j \in Eps : /\ j # i => tasks'[j] = tasks[j]
                          /\ run'[j] = IF j = i THEN Head(tasks[i]) ELSE run[j]
    BY <1>16, <1>a, RunTaskEffect
  <2>2. Head(tasks[i]) # "closing"
    BY <1>16, <1>a, RunTaskEffect DEF Kinds
  <2>3. UNCHANGED <<endpoints, phase, registered>>
    BY <1>16 DEF RunTask, setupVars, resVars
  <2> QED
    BY <2>1, <2>2, <2>3, <1>a, <1>b DEF LoopInv
<1>17. ASSUME NEW i \in Eps, CheckServer(i)
     PROVE  LoopInv'
  BY <1>17, <1>a, <1>b, GoToEffect, FinishEffect DEF LoopInv, SetupInv, CloserInv, Kinds,
     CheckServer, At, setupVars, closeVars, resVars, loopVars
<1>18. ASSUME NEW i \in Eps, AcquireAllocator(i)
     PROVE  LoopInv'
  BY <1>18, <1>a, <1>b, GoToEffect
     DEF LoopInv, SetupInv, CloserInv, Kinds, AcquireAllocator, At,
     setupVars, closeVars, resVars, loopVars
<1>19. ASSUME NEW i \in Eps, Initialize(i)
     PROVE  LoopInv'
  BY <1>19, <1>a, <1>b, GoToEffect DEF LoopInv, SetupInv, CloserInv, Kinds, Initialize, At,
     setupVars, closeVars, resVars, loopVars
<1>20. ASSUME NEW i \in Eps, RegisterEndpoint(i)
     PROVE  LoopInv'
  BY <1>20, <1>a, <1>b, GoToEffect
     DEF LoopInv, SetupInv, CloserInv, Kinds, RegisterEndpoint, At,
     setupVars, closeVars, resVars, loopVars
<1>21. ASSUME NEW i \in Eps, Activated(i)
     PROVE  LoopInv'
  BY <1>21, <1>a, <1>b, FinishEffect DEF LoopInv, SetupInv, CloserInv, Kinds, Activated, At,
     setupVars, closeVars, resVars, loopVars
<1>22. ASSUME NEW i \in Eps, RegistrationFails(i)
     PROVE  LoopInv'
  BY <1>22, <1>a, <1>b, FinishEffect DEF LoopInv, SetupInv, CloserInv, Kinds, RegistrationFails,
     At, setupVars, closeVars, resVars, loopVars
<1>23. ASSUME NEW i \in Eps, Deregister(i)
     PROVE  LoopInv'
  <2>1. i <= endpoints
    BY <1>23, <1>a, <1>b DEF Deregister, LoopInv
  <2>2. UNCHANGED <<role, setup, endpoints, once, closeLoop, callers, waiting, tasks>>
    BY <1>23 DEF Deregister, GoTo, setupVars, closeVars
  <2>3. /\ phase'[i] # "open"
        /\ \A j \in Eps : phase'[j] = IF j = i /\ phase[j] = "open" THEN "releasing" ELSE phase[j]
    BY <1>23, <1>a, EpCloseEffect DEF Deregister
  <2>4. \A j \in Eps : run'[j] = IF j = i THEN "closing" ELSE run[j]
    BY <1>23, <1>a, GoToEffect DEF Deregister
  <2>5. \A j \in Eps : registered'[j] => registered[j]
    BY <1>23, <1>a DEF Deregister, LoopTypes
  <2> QED
    BY <2>1, <2>2, <2>3, <2>4, <2>5, <1>a, <1>b DEF LoopInv
<1>24. ASSUME NEW i \in Eps, CloseTaskDone(i)
     PROVE  LoopInv'
  BY <1>24, <1>a, <1>b, FinishEffect DEF LoopInv, SetupInv, CloserInv, Kinds, CloseTaskDone, At,
     setupVars, closeVars, resVars, loopVars
<1>25. ASSUME NEW i \in Eps, WriteEnqueues(i)
     PROVE  LoopInv'
  BY <1>25, <1>a, <1>b, GoToEffect DEF LoopInv, SetupInv, CloserInv, Kinds, WriteEnqueues, At,
     setupVars, closeVars, resVars, loopVars
<1>26. ASSUME NEW i \in Eps, HandlerCloses(i)
     PROVE  LoopInv'
  BY <1>26, <1>a, <1>b, EpCloseEffect
     DEF LoopInv, SetupInv, CloserInv, Kinds, HandlerCloses, At,
     setupVars, closeVars, resVars, loopVars
<1>27. ASSUME NEW i \in Eps, WriteChecks(i)
     PROVE  LoopInv'
  BY <1>27, <1>a, <1>b, GoToEffect DEF LoopInv, SetupInv, CloserInv, Kinds, WriteChecks, At,
     setupVars, closeVars, resVars, loopVars
<1>28. ASSUME NEW i \in Eps, CloseBody(i)
     PROVE  LoopInv'
  BY <1>28, <1>a, <1>b, CloseBodyEffect DEF LoopInv, SetupInv, CloserInv, Kinds, CloseBody, At,
     setupVars, closeVars, resVars, loopVars
<1>29. CASE UNCHANGED vars
  BY <1>29, <1>a DEF LoopInv, SetupInv, CloserInv, Kinds, vars, setupVars, closeVars, resVars,
     loopVars
<1> QED
  BY <1>1, <1>2, <1>3, <1>4, <1>5, <1>6, <1>7, <1>8, <1>9, <1>10, <1>11, <1>12, <1>13, <1>14,
     <1>15, <1>16, <1>17, <1>18, <1>19, <1>20, <1>21, <1>22, <1>23, <1>24, <1>25, <1>26, <1>27,
     <1>28, <1>29 DEF Next, SetupStep, CloserStep, LoopStep

(* Bind and Dial leave no open endpoint behind when they fail.             *)
LEMMA SetupInvPreserved ==
  ASSUME LifecycleInv, [Next]_vars
  PROVE  SetupInv'
<1> USE LifecycleAssumption
<1>a. /\ SetupTypes /\ CloserTypes /\ ResourceTypes /\ LoopTypes
      /\ LoopInv /\ SetupInv /\ CloserInv
  BY DEF LifecycleInv, TypeOK
<1>b. /\ setup.ep \in Eps /\ endpoints \in 0 .. N
      /\ closeLoop.ep \in 1 .. N + 1
      /\ closeLoop.pc \in {"invoke", "self"} => closeLoop.ep \in Eps
      /\ closeLoop.ep <= endpoints => closeLoop.ep \in Eps
      /\ Eps = 1 .. N
  BY <1>a DEF SetupTypes, CloserTypes, CloserInv, Eps
<1>1. CASE Listen
  BY <1>1, <1>a, <1>b, CloseSocketsEffect
     DEF SetupInv, CloserInv, Listen, Sockets, At, setupVars,
     closeVars, resVars, loopVars
<1>2. CASE StartEndpoint
  BY <1>2, <1>a, <1>b, PostEffect DEF SetupInv, CloserInv, StartEndpoint, At, setupVars,
     closeVars, resVars, loopVars
<1>3. CASE NextFails
  BY <1>3, <1>a, <1>b, CloseSocketsEffect DEF SetupInv, CloserInv, NextFails, At, setupVars,
     closeVars, resVars, loopVars
<1>4. CASE Registered
  <2>1. UNCHANGED <<role, endpoints, once, phase>>
    BY <1>4 DEF Registered, closeVars, resVars
  <2>2. CASE setup' = At("failing", setup.ep)
    BY <1>4, <2>1, <2>2, <1>a DEF Registered, SetupInv, At
  <2>3. CASE setup' = At("next", setup.ep + 1) /\ setup.ep < Sockets
    BY <1>4, <2>1, <2>3, <1>a, <1>b DEF Registered, SetupInv, At, Sockets
  <2>4. CASE setup' = At("ok", setup.ep)
    BY <2>1, <2>4, <1>a DEF SetupInv, At
  <2> QED
    BY <1>4, <2>2, <2>3, <2>4 DEF Registered
<1>5. CASE RegistrationAbandoned
  BY <1>5, <1>a, <1>b, AbandonEffect DEF SetupInv, CloserInv, RegistrationAbandoned, At,
     setupVars, closeVars, resVars, loopVars
<1>6. CASE DialFails
  BY <1>6, <1>a, <1>b, EpCloseEffect
     DEF SetupInv, CloserInv, DialFails, At, setupVars, closeVars,
     resVars, loopVars
<1>7. CASE SetupFailed
  BY <1>7, <1>a, <1>b DEF SetupInv, CloserInv, SetupFailed, At, setupVars, closeVars, resVars,
     loopVars
<1>8. CASE OnceEnter
  BY <1>8, <1>a, <1>b DEF SetupInv, CloserInv, OnceEnter, At, setupVars, closeVars, resVars,
     loopVars
<1>9. CASE CloseEndpoint
  BY <1>9, <1>a, <1>b, PostEffect, EpCloseEffect DEF SetupInv, CloserInv, CloseEndpoint, At,
     setupVars, closeVars, resVars, loopVars
<1>10. CASE CloseInvoked
  BY <1>10, <1>a, <1>b DEF SetupInv, CloserInv, CloseInvoked, At, setupVars, closeVars, resVars,
     loopVars
<1>11. CASE CloseAbandoned
  BY <1>11, <1>a, <1>b, AbandonEffect, EpCloseEffect
     DEF SetupInv, CloserInv, CloseAbandoned, At,
     setupVars, closeVars, resVars, loopVars
<1>12. CASE CloseSelfDone
  BY <1>12, <1>a, <1>b
     DEF SetupInv, CloserInv, CloseSelfDone, At, setupVars, closeVars, resVars,
     loopVars
<1>13. CASE OnceLeave
  BY <1>13, <1>a, <1>b DEF SetupInv, CloserInv, OnceLeave, At, setupVars, closeVars, resVars,
     loopVars
<1>14. ASSUME NEW c \in Callers, CloseReturn(c)
     PROVE  SetupInv'
  BY <1>14, <1>a, <1>b DEF SetupInv, CloserInv, CloseReturn, At, setupVars, closeVars, resVars,
     loopVars
<1>15. ASSUME NEW c \in Callers, CallClose(c)
     PROVE  SetupInv'
  BY <1>15, <1>a, <1>b DEF SetupInv, CloserInv, CallClose, At, setupVars, closeVars, resVars,
     loopVars
<1>16. ASSUME NEW i \in Eps, RunTask(i)
     PROVE  SetupInv'
  BY <1>16, <1>a, <1>b, RunTaskEffect
     DEF SetupInv, CloserInv, RunTask, At, setupVars, closeVars,
     resVars, loopVars
<1>17. ASSUME NEW i \in Eps, CheckServer(i)
     PROVE  SetupInv'
  BY <1>17, <1>a, <1>b, GoToEffect, FinishEffect DEF SetupInv, CloserInv, CheckServer, At,
     setupVars, closeVars, resVars, loopVars
<1>18. ASSUME NEW i \in Eps, AcquireAllocator(i)
     PROVE  SetupInv'
  BY <1>18, <1>a, <1>b, GoToEffect DEF SetupInv, CloserInv, AcquireAllocator, At, setupVars,
     closeVars, resVars, loopVars
<1>19. ASSUME NEW i \in Eps, Initialize(i)
     PROVE  SetupInv'
  BY <1>19, <1>a, <1>b, GoToEffect
     DEF SetupInv, CloserInv, Initialize, At, setupVars, closeVars,
     resVars, loopVars
<1>20. ASSUME NEW i \in Eps, RegisterEndpoint(i)
     PROVE  SetupInv'
  BY <1>20, <1>a, <1>b, GoToEffect DEF SetupInv, CloserInv, RegisterEndpoint, At, setupVars,
     closeVars, resVars, loopVars
<1>21. ASSUME NEW i \in Eps, Activated(i)
     PROVE  SetupInv'
  BY <1>21, <1>a, <1>b, FinishEffect
     DEF SetupInv, CloserInv, Activated, At, setupVars, closeVars,
     resVars, loopVars
<1>22. ASSUME NEW i \in Eps, RegistrationFails(i)
     PROVE  SetupInv'
  BY <1>22, <1>a, <1>b, FinishEffect DEF SetupInv, CloserInv, RegistrationFails, At, setupVars,
     closeVars, resVars, loopVars
<1>23. ASSUME NEW i \in Eps, Deregister(i)
     PROVE  SetupInv'
  BY <1>23, <1>a, <1>b, GoToEffect, EpCloseEffect DEF SetupInv, CloserInv, Deregister, At,
     setupVars, closeVars, resVars, loopVars
<1>24. ASSUME NEW i \in Eps, CloseTaskDone(i)
     PROVE  SetupInv'
  BY <1>24, <1>a, <1>b, FinishEffect DEF SetupInv, CloserInv, CloseTaskDone, At, setupVars,
     closeVars, resVars, loopVars
<1>25. ASSUME NEW i \in Eps, WriteEnqueues(i)
     PROVE  SetupInv'
  BY <1>25, <1>a, <1>b, GoToEffect DEF SetupInv, CloserInv, WriteEnqueues, At, setupVars,
     closeVars, resVars, loopVars
<1>26. ASSUME NEW i \in Eps, HandlerCloses(i)
     PROVE  SetupInv'
  BY <1>26, <1>a, <1>b, EpCloseEffect DEF SetupInv, CloserInv, HandlerCloses, At, setupVars,
     closeVars, resVars, loopVars
<1>27. ASSUME NEW i \in Eps, WriteChecks(i)
     PROVE  SetupInv'
  BY <1>27, <1>a, <1>b, GoToEffect
     DEF SetupInv, CloserInv, WriteChecks, At, setupVars, closeVars,
     resVars, loopVars
<1>28. ASSUME NEW i \in Eps, CloseBody(i)
     PROVE  SetupInv'
  BY <1>28, <1>a, <1>b, CloseBodyEffect DEF SetupInv, CloserInv, CloseBody, At, setupVars,
     closeVars, resVars, loopVars
<1>29. CASE UNCHANGED vars
  BY <1>29, <1>a DEF SetupInv, CloserInv, vars, setupVars, closeVars, resVars, loopVars
<1> QED
  BY <1>1, <1>2, <1>3, <1>4, <1>5, <1>6, <1>7, <1>8, <1>9, <1>10, <1>11, <1>12, <1>13, <1>14,
     <1>15, <1>16, <1>17, <1>18, <1>19, <1>20, <1>21, <1>22, <1>23, <1>24, <1>25, <1>26, <1>27,
     <1>28, <1>29 DEF Next, SetupStep, CloserStep, LoopStep

(* Server.Close goes on only from an endpoint that is closed.              *)
LEMMA CloserInvPreserved ==
  ASSUME LifecycleInv, [Next]_vars
  PROVE  CloserInv'
<1> USE LifecycleAssumption
<1>a. /\ SetupTypes /\ CloserTypes /\ ResourceTypes /\ LoopTypes
      /\ LoopInv /\ SetupInv /\ CloserInv
  BY DEF LifecycleInv, TypeOK
<1>b. /\ setup.ep \in Eps /\ endpoints \in 0 .. N
      /\ closeLoop.ep \in 1 .. N + 1
      /\ closeLoop.pc \in {"invoke", "self"} => closeLoop.ep \in Eps
      /\ closeLoop.ep <= endpoints => closeLoop.ep \in Eps
      /\ Eps = 1 .. N
  BY <1>a DEF SetupTypes, CloserTypes, CloserInv, Eps
<1>1. CASE Listen
  BY <1>1, <1>a, <1>b, CloseSocketsEffect DEF SetupInv, CloserInv, LoopInv, Kinds, Listen,
     Sockets, At, setupVars, closeVars, resVars, loopVars
<1>2. CASE StartEndpoint
  BY <1>2, <1>a, <1>b, PostEffect DEF SetupInv, CloserInv, LoopInv, Kinds, StartEndpoint, At,
     setupVars, closeVars, resVars, loopVars
<1>3. CASE NextFails
  BY <1>3, <1>a, <1>b, CloseSocketsEffect
     DEF SetupInv, CloserInv, LoopInv, Kinds, NextFails, At,
     setupVars, closeVars, resVars, loopVars
<1>4. CASE Registered
  BY <1>4, <1>a, <1>b
     DEF SetupInv, CloserInv, LoopInv, Kinds, Registered, Sockets, At, setupVars,
     closeVars, resVars, loopVars
<1>5. CASE RegistrationAbandoned
  BY <1>5, <1>a, <1>b, AbandonEffect DEF SetupInv, CloserInv, LoopInv, Kinds,
     RegistrationAbandoned, At, setupVars, closeVars, resVars, loopVars
<1>6. CASE DialFails
  BY <1>6, <1>a, <1>b, EpCloseEffect DEF SetupInv, CloserInv, LoopInv, Kinds, DialFails, At,
     setupVars, closeVars, resVars, loopVars
<1>7. CASE SetupFailed
  BY <1>7, <1>a, <1>b DEF SetupInv, CloserInv, LoopInv, Kinds, SetupFailed, At, setupVars,
     closeVars, resVars, loopVars
<1>8. CASE OnceEnter
  BY <1>8, <1>a, <1>b DEF SetupInv, CloserInv, LoopInv, Kinds, OnceEnter, At, setupVars,
     closeVars, resVars, loopVars
<1>9. CASE CloseEndpoint
  BY <1>9, <1>a, <1>b, PostEffect, EpCloseEffect DEF SetupInv, CloserInv, LoopInv, Kinds,
     CloseEndpoint, At, setupVars, closeVars, resVars, loopVars
<1>10. CASE CloseInvoked
  BY <1>10, <1>a, <1>b DEF SetupInv, CloserInv, LoopInv, Kinds, CloseInvoked, At, setupVars,
     closeVars, resVars, loopVars
<1>11. CASE CloseAbandoned
  <2>1. closeLoop.ep \in Eps /\ closeLoop.ep <= endpoints
    BY <1>11, <1>a, <1>b DEF CloseAbandoned, CloserInv
  <2>2. /\ UNCHANGED <<role, setup, endpoints, once, callers, sock, fdCloses, registered, run>>
        /\ closeLoop' = At("self", closeLoop.ep)
    BY <1>11 DEF CloseAbandoned, setupVars
  <2>3. /\ phase'[closeLoop.ep] # "open"
        /\ \A j \in Eps : phase'[j] = IF j = closeLoop.ep /\ phase[j] = "open" THEN "releasing"
                                                                           ELSE phase[j]
    <3>1. EpClose(closeLoop.ep, "caller") /\ ResourceTypes
      BY <1>11, <1>a DEF CloseAbandoned
    <3> QED
      BY <3>1, <2>1, EpCloseEffect
  <2>5. closeLoop.pc = "invoke"
    BY <1>11 DEF CloseAbandoned
  <2> QED
    BY <2>1, <2>2, <2>3, <2>5, <1>a, <1>b DEF CloserInv, At
<1>12. CASE CloseSelfDone
  BY <1>12, <1>a, <1>b DEF SetupInv, CloserInv, LoopInv, Kinds, CloseSelfDone, At, setupVars,
     closeVars, resVars, loopVars
<1>13. CASE OnceLeave
  BY <1>13, <1>a, <1>b DEF SetupInv, CloserInv, LoopInv, Kinds, OnceLeave, At, setupVars,
     closeVars, resVars, loopVars
<1>14. ASSUME NEW c \in Callers, CloseReturn(c)
     PROVE  CloserInv'
  <2>1. once = "done" /\ UNCHANGED <<role, setup, endpoints, once, closeLoop, phase, waiting>>
    BY <1>14 DEF CloseReturn, OncePassed, setupVars, resVars, loopVars
  <2>2. \A d \in Callers : callers'[d] = IF d = c THEN "returned" ELSE callers[d]
    BY <1>14, <1>a DEF CloseReturn, CloserTypes
  <2>3. callers[c] = "called"
    BY <1>14 DEF CloseReturn
  <2> QED
    BY <2>1, <2>2, <2>3, <1>a, <1>b DEF CloserInv
<1>15. ASSUME NEW c \in Callers, CallClose(c)
     PROVE  CloserInv'
  BY <1>15, <1>a, <1>b DEF SetupInv, CloserInv, LoopInv, Kinds, CallClose, At, setupVars,
     closeVars, resVars, loopVars
<1>16. ASSUME NEW i \in Eps, RunTask(i)
     PROVE  CloserInv'
  BY <1>16, <1>a, <1>b, RunTaskEffect DEF SetupInv, CloserInv, LoopInv, Kinds, RunTask, At,
     setupVars, closeVars, resVars, loopVars
<1>17. ASSUME NEW i \in Eps, CheckServer(i)
     PROVE  CloserInv'
  BY <1>17, <1>a, <1>b, GoToEffect, FinishEffect DEF SetupInv, CloserInv, LoopInv, Kinds,
     CheckServer, At, setupVars, closeVars, resVars, loopVars
<1>18. ASSUME NEW i \in Eps, AcquireAllocator(i)
     PROVE  CloserInv'
  BY <1>18, <1>a, <1>b, GoToEffect
     DEF SetupInv, CloserInv, LoopInv, Kinds, AcquireAllocator, At,
     setupVars, closeVars, resVars, loopVars
<1>19. ASSUME NEW i \in Eps, Initialize(i)
     PROVE  CloserInv'
  BY <1>19, <1>a, <1>b, GoToEffect DEF SetupInv, CloserInv, LoopInv, Kinds, Initialize, At,
     setupVars, closeVars, resVars, loopVars
<1>20. ASSUME NEW i \in Eps, RegisterEndpoint(i)
     PROVE  CloserInv'
  BY <1>20, <1>a, <1>b, GoToEffect
     DEF SetupInv, CloserInv, LoopInv, Kinds, RegisterEndpoint, At,
     setupVars, closeVars, resVars, loopVars
<1>21. ASSUME NEW i \in Eps, Activated(i)
     PROVE  CloserInv'
  BY <1>21, <1>a, <1>b, FinishEffect DEF SetupInv, CloserInv, LoopInv, Kinds, Activated, At,
     setupVars, closeVars, resVars, loopVars
<1>22. ASSUME NEW i \in Eps, RegistrationFails(i)
     PROVE  CloserInv'
  BY <1>22, <1>a, <1>b, FinishEffect DEF SetupInv, CloserInv, LoopInv, Kinds, RegistrationFails,
     At, setupVars, closeVars, resVars, loopVars
<1>23. ASSUME NEW i \in Eps, Deregister(i)
     PROVE  CloserInv'
  <2>1. i <= endpoints
    BY <1>23, <1>a, <1>b DEF Deregister, LoopInv
  <2>2. UNCHANGED <<role, setup, endpoints, once, closeLoop, callers, waiting, tasks>>
    BY <1>23 DEF Deregister, GoTo, setupVars, closeVars
  <2>3. /\ phase'[i] # "open"
        /\ \A j \in Eps : phase'[j] = IF j = i /\ phase[j] = "open" THEN "releasing" ELSE phase[j]
    BY <1>23, <1>a, EpCloseEffect DEF Deregister
  <2>4. \A j \in Eps : run'[j] = IF j = i THEN "closing" ELSE run[j]
    BY <1>23, <1>a, GoToEffect DEF Deregister
  <2>5. \A j \in Eps : registered'[j] => registered[j]
    BY <1>23, <1>a DEF Deregister, LoopTypes
  <2> QED
    BY <2>1, <2>2, <2>3, <2>4, <2>5, <1>a, <1>b DEF CloserInv
<1>24. ASSUME NEW i \in Eps, CloseTaskDone(i)
     PROVE  CloserInv'
  BY <1>24, <1>a, <1>b, FinishEffect DEF SetupInv, CloserInv, LoopInv, Kinds, CloseTaskDone, At,
     setupVars, closeVars, resVars, loopVars
<1>25. ASSUME NEW i \in Eps, WriteEnqueues(i)
     PROVE  CloserInv'
  BY <1>25, <1>a, <1>b, GoToEffect DEF SetupInv, CloserInv, LoopInv, Kinds, WriteEnqueues, At,
     setupVars, closeVars, resVars, loopVars
<1>26. ASSUME NEW i \in Eps, HandlerCloses(i)
     PROVE  CloserInv'
  BY <1>26, <1>a, <1>b, EpCloseEffect
     DEF SetupInv, CloserInv, LoopInv, Kinds, HandlerCloses, At,
     setupVars, closeVars, resVars, loopVars
<1>27. ASSUME NEW i \in Eps, WriteChecks(i)
     PROVE  CloserInv'
  BY <1>27, <1>a, <1>b, GoToEffect DEF SetupInv, CloserInv, LoopInv, Kinds, WriteChecks, At,
     setupVars, closeVars, resVars, loopVars
<1>28. ASSUME NEW i \in Eps, CloseBody(i)
     PROVE  CloserInv'
  BY <1>28, <1>a, <1>b, CloseBodyEffect DEF SetupInv, CloserInv, LoopInv, Kinds, CloseBody, At,
     setupVars, closeVars, resVars, loopVars
<1>29. CASE UNCHANGED vars
  BY <1>29, <1>a DEF SetupInv, CloserInv, LoopInv, Kinds, vars, setupVars, closeVars, resVars,
     loopVars
<1> QED
  BY <1>1, <1>2, <1>3, <1>4, <1>5, <1>6, <1>7, <1>8, <1>9, <1>10, <1>11, <1>12, <1>13, <1>14,
     <1>15, <1>16, <1>17, <1>18, <1>19, <1>20, <1>21, <1>22, <1>23, <1>24, <1>25, <1>26, <1>27,
     <1>28, <1>29 DEF Next, SetupStep, CloserStep, LoopStep

-----------------------------------------------------------------------------
(* The inductive invariant holds in every reachable state: Bind, Dial and  *)
(* Server.Close with all their interleavings and failures keep it.         *)
THEOREM Invariance == Spec => []LifecycleInv
<1>1. Init => LifecycleInv
  <2> SUFFICES ASSUME Init PROVE LifecycleInv
    OBVIOUS
  <2> USE LifecycleAssumption
  <2>1. SetupTypes /\ CloserTypes
    <3>1. 1 \in Eps /\ 1 \in 1 .. N + 1 /\ 0 \in 0 .. N
      BY DEF Eps
    <3> QED
      BY <3>1 DEF Init, SetupTypes, CloserTypes, At
  <2>2. ResourceTypes /\ LoopTypes
    BY DEF Init, ResourceTypes, LoopTypes, Kinds
  <2>3. SocketInv /\ LoopInv
    BY DEF Init, SocketInv, LoopInv
  <2>4. SetupInv /\ CloserInv
    BY DEF Init, SetupInv, CloserInv, At
  <2> QED
    BY <2>1, <2>2, <2>3, <2>4 DEF LifecycleInv, TypeOK
<1>2. LifecycleInv /\ [Next]_vars => LifecycleInv'
  BY TypePreserved, SocketInvPreserved, LoopInvPreserved, SetupInvPreserved,
     CloserInvPreserved DEF LifecycleInv
<1> QED
  BY <1>1, <1>2, PTL DEF Spec

(* Type correctness of Bind, Dial, Server.Close and the loops.             *)
THEOREM TypeCorrect == Spec => []TypeOK
<1>1. LifecycleInv => TypeOK
  BY DEF LifecycleInv
<1> QED
  BY <1>1, Invariance, PTL

(* No descriptor is closed twice, whoever closes it and whatever times out.*)
THEOREM NoDoubleClose == Spec => []FdClosedOnce
<1>1. LifecycleInv => FdClosedOnce
  BY DEF LifecycleInv, SocketInv, FdClosedOnce
<1> QED
  BY <1>1, Invariance, PTL

(* When Server.Close returns to any caller, or Bind or Dial fails, no      *)
(* endpoint of it is open, although loops may have hung.                   *)
THEOREM CloseClosesAll == Spec => []NoneLeftOpen
<1>1. LifecycleInv => NoneLeftOpen
  <2> SUFFICES ASSUME LifecycleInv, CloseOver, NEW i \in 1 .. endpoints
               PROVE  phase[i] # "open"
    BY DEF NoneLeftOpen
  <2>1. i \in Eps /\ i <= endpoints /\ endpoints # 0
    BY LifecycleAssumption DEF LifecycleInv, TypeOK, SetupTypes, Eps
  <2>2. CASE setup.pc = "error"
    BY <2>1, <2>2, LifecycleAssumption
       DEF LifecycleInv, TypeOK, SetupTypes, SetupInv, CloserInv
  <2>3. CASE \E c \in Callers : callers[c] = "returned"
    BY <2>1, <2>3 DEF LifecycleInv, CloserInv
  <2> QED
    BY <2>2, <2>3 DEF CloseOver
<1> QED
  BY <1>1, Invariance, PTL
-----------------------------------------------------------------------------
(* Close is complete: each endpoint whose loop answered in time holds      *)
(* nothing. The argument follows the tasks of a loop: it is asked to       *)
(* register once, then to close once, and does so in this order.           *)

NoTasks      == <<>>
JustRegister == <<"register">>
JustClose    == <<"close">>
Both         == <<"register", "close">>

RegisterQueued(i)  == tasks[i] \in {JustRegister, Both}
RegisterRunning(i) == run[i] \in {"register", "acquire", "initialize", "registering", "active"}
CloseUnderWay(i)   == tasks[i] \in {JustClose, Both} \/ run[i] \in {"close", "closing"}

(* Server.Close has come to the endpoint, and has gone past its loop.      *)
Reached(i) == /\ once # "fresh"
              /\ \/ i < closeLoop.ep
                 \/ i = closeLoop.ep /\ closeLoop.pc \in {"invoke", "self"}
Passed(i)  == /\ once # "fresh"
              /\ \/ i < closeLoop.ep
                 \/ i = closeLoop.ep /\ closeLoop.pc = "self"

AtRest(i) == tasks[i] = NoTasks /\ run[i] = "idle" /\ ~registered[i]
Gone(i)   == waiting[i] = "none" /\ reply[i] = "timeout"
Done(i)   == AtRest(i) /\ phase[i] = "closed" /\ waiting[i] = "none" /\ Released(i)

(* What a loop has to do, and who waits for it.                            *)
TaskInv(i) ==
  /\ tasks[i] \in {NoTasks, JustRegister, JustClose, Both}
  /\ RegisterQueued(i) => run[i] = "idle"
  /\ run[i] \in {"close", "closing"} => tasks[i] = NoTasks
  /\ run[i] = "closing" => ~registered[i]
  /\ run[i] = "enqueue" => registered[i]
  /\ registered[i] => /\ ~RegisterQueued(i)
                      /\ run[i] \notin {"register", "acquire", "initialize", "registering"}
  /\ RegisterQueued(i) \/ RegisterRunning(i) => waiting[i] = "register" \/ reply[i] = "timeout"
  /\ CloseUnderWay(i) => Reached(i)
  /\ waiting[i] = "register" => /\ setup = At("invoke", i)
                                /\ \/ tasks[i] = JustRegister
                                   \/ tasks[i] = NoTasks /\ RegisterRunning(i)
  /\ waiting[i] = "close" => closeLoop = At("invoke", i) /\ CloseUnderWay(i)
  /\ i \notin onLoop => /\ AtRest(i) /\ waiting[i] = "none" /\ reply[i] = "none"
                        /\ alloc[i] # "open" /\ queued[i] = 0 /\ closer[i] # "loop"

Cleared(i) == /\ phase[i] \in {"closingFD", "closingAlloc", "closed"} => queued[i] = 0
              /\ phase[i] = "closed" => alloc[i] # "open"

(* Close leaves nothing, unless another goroutine than the loop executes it*)
(* while the loop may still be in the registration or in a Write: its      *)
(* Invoke has timed out, or it is a registered endpoint of a failed Dial.  *)
BodyInv(i) ==
  /\ phase[i] = "open" <=> closer[i] = "none"
  /\ phase[i] \in {"closingAlloc", "closed"} => sock[i] = "closed"
  /\ closer[i] = "loop" => /\ ~RegisterQueued(i) /\ run[i] \notin {"register", "acquire", "enqueue"}
                           /\ Cleared(i)
  /\ closer[i] = "caller" /\ i \in onLoop =>
       /\ waiting[i] = "none"
       /\ \/ reply[i] = "timeout" /\ Passed(i)
          \/ /\ reply[i] \in {"timeout", "error"}
             /\ role = "client" /\ setup.pc \in {"closing", "error"}
  /\ closer[i] = "caller" /\ reply[i] # "timeout" /\ ~registered[i] => Cleared(i)
  /\ closer[i] = "caller" /\ reply[i] # "timeout" /\ phase[i] = "closed" => alloc[i] # "open"

(* What Server.Close leaves behind.                                        *)
ServerInv(i) ==
  /\ once # "fresh" /\ i <= endpoints /\ i < closeLoop.ep => Done(i) \/ Gone(i)
  /\ closeLoop = At("invoke", i) /\ waiting[i] = "none" => Done(i)
  /\ closeLoop = At("self", i) => i \notin onLoop \/ Gone(i)

(* What a failed registration leaves, and the failed Dial.                 *)
ClientInv(i) ==
  /\ setup = At("invoke", i) /\ waiting[i] = "none" =>
       /\ reply[i] \in {"ok", "error"}
       /\ reply[i] = "error" /\ ~registered[i] => AtRest(i) /\ phase[i] \in {"open", "closed"}
  /\ role = "client" /\ setup.pc \in {"failing", "closing", "error"} /\ i <= endpoints =>
       /\ waiting[i] = "none" /\ reply[i] \in {"timeout", "error"}
       /\ reply[i] = "error" /\ ~registered[i] =>
            AtRest(i) /\ (phase[i] \in {"open", "closed"} \/ closer[i] = "caller")
  /\ role = "client" /\ setup.pc = "error" /\ i <= endpoints => ~Closing(i, "caller")

EpInv(i) == TaskInv(i) /\ BodyInv(i) /\ ServerInv(i) /\ ClientInv(i)

CloseInv ==
  /\ \A i \in Eps : EpInv(i)
  /\ once = "done" => closeLoop.pc = "endpoint" /\ closeLoop.ep > endpoints
  /\ role = "client" => endpoints <= 1

(* The lists of tasks, and what posting, running and dropping make of them.*)
LEMMA TaskLists ==
  /\ NoTasks # JustRegister /\ NoTasks # JustClose /\ NoTasks # Both
  /\ JustRegister # JustClose /\ JustRegister # Both /\ JustClose # Both
  /\ Append(NoTasks, "register") = JustRegister /\ Append(NoTasks, "close") = JustClose
  /\ Append(JustRegister, "close") = Both
  /\ Head(JustRegister) = "register" /\ Tail(JustRegister) = NoTasks
  /\ Head(JustClose) = "close" /\ Tail(JustClose) = NoTasks
  /\ Head(Both) = "register" /\ Tail(Both) = JustClose
  /\ SubSeq(JustRegister, 1, Len(JustRegister) - 1) = NoTasks
  /\ SubSeq(JustClose, 1, Len(JustClose) - 1) = NoTasks
  /\ SubSeq(Both, 1, Len(Both) - 1) = JustRegister
<1>1. /\ Len(NoTasks) = 0 /\ Len(JustRegister) = 1 /\ Len(JustClose) = 1 /\ Len(Both) = 2
      /\ JustRegister[1] = "register" /\ JustClose[1] = "close"
      /\ Both[1] = "register" /\ Both[2] = "close"
  BY DEF NoTasks, JustRegister, JustClose, Both
<1>2. /\ JustRegister \in Seq(Kinds) /\ JustClose \in Seq(Kinds) /\ Both \in Seq(Kinds)
      /\ "register" \in Kinds /\ "close" \in Kinds
  BY DEF JustRegister, JustClose, Both, Kinds
<1>3. /\ NoTasks # JustRegister /\ NoTasks # JustClose /\ NoTasks # Both
      /\ JustRegister # Both /\ JustClose # Both
  <2>1. /\ Len(NoTasks) # Len(JustRegister) /\ Len(NoTasks) # Len(JustClose)
        /\ Len(NoTasks) # Len(Both) /\ Len(JustRegister) # Len(Both)
        /\ Len(JustClose) # Len(Both)
    BY <1>1
  <2> QED
    BY <2>1, Zenon
<1>4. JustRegister # JustClose
  BY <1>1
<1>5. Append(NoTasks, "register") = JustRegister /\ Append(NoTasks, "close") = JustClose
  BY DEF NoTasks, JustRegister, JustClose
<1>6. ASSUME NEW s \in Seq(Kinds), NEW t \in Seq(Kinds), Len(s) = 1, Len(t) = 1, s[1] = t[1]
      PROVE  s = t
  <2>1. \A k \in 1 .. 1 : k = 1
    OBVIOUS
  <2> QED
    BY <1>6, <2>1, SeqEqual
<1>7. Append(JustRegister, "close") = Both
  <2> DEFINE s == Append(JustRegister, "close")
  <2>1. s \in Seq(Kinds) /\ Len(s) = 2 /\ s[1] = "register" /\ s[2] = "close"
    <3>1. s \in Seq(Kinds) /\ Len(s) = Len(JustRegister) + 1
          /\ (\A k \in 1 .. Len(JustRegister) : s[k] = JustRegister[k])
          /\ s[Len(JustRegister) + 1] = "close"
      BY <1>2, AppendProperties
    <3> HIDE DEF s
    <3>2. Len(JustRegister) + 1 = 2 /\ 1 \in 1 .. Len(JustRegister)
      BY <1>1
    <3>3. s[2] = "close" /\ Len(s) = 2
      BY <3>1, <3>2
    <3>4. s[1] = "register"
      BY <1>1, <3>1, <3>2
    <3> QED
      BY <3>1, <3>3, <3>4
  <2>2. \A k \in 1 .. 2 : k = 1 \/ k = 2
    OBVIOUS
  <2> HIDE DEF s
  <2>3. s = Both
    BY <1>1, <1>2, <2>1, <2>2, SeqEqual
  <2> QED
    BY <2>3 DEF s
<1>8. Head(JustRegister) = "register" /\ Head(JustClose) = "close" /\ Head(Both) = "register"
  BY <1>1, <1>2, HeadTailProperties
<1>9. ASSUME NEW s \in Seq(Kinds), Len(s) = 1
      PROVE  Tail(s) = NoTasks /\ SubSeq(s, 1, Len(s) - 1) = NoTasks
  <2>1. Tail(s) \in Seq(Kinds) /\ Len(Tail(s)) = 0
    BY <1>9, HeadTailProperties, EmptySeq
  <2>2. SubSeq(s, 1, 0) \in Seq(Kinds) /\ Len(SubSeq(s, 1, 0)) = 0
    BY <1>9
  <2>3. Len(s) - 1 = 0
    BY <1>9
  <2>4. SubSeq(s, 1, Len(s) - 1) = NoTasks
    BY <2>2, <2>3, EmptySeq DEF NoTasks
  <2> QED
    BY <2>1, <2>4, EmptySeq DEF NoTasks
<1>10. Tail(Both) = JustClose
  <2> DEFINE s == Tail(Both)
  <2>1. s \in Seq(Kinds) /\ Len(s) = 1 /\ s[1] = "close"
    <3>1. Both # <<>>
      BY <1>3 DEF NoTasks
    <3>2. /\ s \in Seq(Kinds) /\ Len(s) = Len(Both) - 1
          /\ \A k \in 1 .. Len(s) : s[k] = Both[k + 1]
      BY <1>2, <3>1, HeadTailProperties
    <3> HIDE DEF s
    <3>3. Len(s) = 1 /\ 1 \in 1 .. Len(s) /\ 1 + 1 = 2
      BY <1>1, <3>2
    <3>4. s[1] = Both[2]
      BY <3>2, <3>3
    <3> QED
      BY <1>1, <3>2, <3>3, <3>4
  <2> HIDE DEF s
  <2>2. s = JustClose
    BY <1>1, <1>2, <1>6, <2>1
  <2> QED
    BY <2>2 DEF s
<1>11. SubSeq(Both, 1, Len(Both) - 1) = JustRegister
  <2> DEFINE s == SubSeq(Both, 1, 1)
  <2>1. s \in Seq(Kinds) /\ Len(s) = 1 /\ s[1] = "register"
    BY <1>1, <1>2
  <2>2. Len(Both) - 1 = 1
    BY <1>1
  <2> HIDE DEF s
  <2>3. s = JustRegister
    BY <1>1, <1>2, <1>6, <2>1
  <2> QED
    BY <2>2, <2>3 DEF s
<1> QED
  BY <1>1, <1>2, <1>3, <1>4, <1>5, <1>7, <1>8, <1>9, <1>10, <1>11

SameEp(j) ==
  /\ sock'[j] = sock[j] /\ alloc'[j] = alloc[j] /\ phase'[j] = phase[j] /\ closer'[j] = closer[j]
  /\ queued'[j] = queued[j] /\ registered'[j] = registered[j] /\ tasks'[j] = tasks[j]
  /\ run'[j] = run[j] /\ waiting'[j] = waiting[j] /\ reply'[j] = reply[j]

globals == <<role, setup, endpoints, onLoop, once, closeLoop>>

(* A step of one loop leaves the other endpoints as they are.              *)
LEMMA Untouched ==
  ASSUME NEW j \in Eps, EpInv(j), SameEp(j), UNCHANGED globals
  PROVE  EpInv(j)'
<1> USE DEF SameEp, globals
<1>1. /\ AtRest(j)' <=> AtRest(j)
      /\ Released(j)' <=> Released(j)
      /\ RegisterQueued(j)' <=> RegisterQueued(j)
      /\ RegisterRunning(j)' <=> RegisterRunning(j)
      /\ CloseUnderWay(j)' <=> CloseUnderWay(j)
      /\ Reached(j)' <=> Reached(j)
      /\ Passed(j)' <=> Passed(j)
      /\ Cleared(j)' <=> Cleared(j)
      /\ Gone(j)' <=> Gone(j)
      /\ Closing(j, "caller")' <=> Closing(j, "caller")
  BY DEF AtRest, Released, RegisterQueued, RegisterRunning, CloseUnderWay, Reached, Passed,
         Cleared, Gone, Closing
<1>2. Done(j)' <=> Done(j)
  BY <1>1 DEF Done
<1>3. TaskInv(j)'
  BY <1>1 DEF EpInv, TaskInv, At
<1>4. BodyInv(j)'
  BY <1>1 DEF EpInv, BodyInv
<1>5. ServerInv(j)'
  BY <1>1, <1>2 DEF EpInv, ServerInv, At
<1>6. ClientInv(j)'
  BY <1>1 DEF EpInv, ClientInv, At
<1> QED
  BY <1>3, <1>4, <1>5, <1>6 DEF EpInv

(* What the earlier invariant says of an endpoint and of Server.Close.     *)
LEMMA EarlierFacts ==
  ASSUME LifecycleInv, NEW i \in Eps
  PROVE  /\ phase[i] \in {"open", "releasing", "closingFD", "closingAlloc", "closed"}
         /\ closer[i] \in {"none", "loop", "caller"}
         /\ run[i] = "closing" => phase[i] # "open"
         /\ once # "fresh" => role = "server" /\ setup.pc \in {"failing", "ok", "error"}
         /\ closeLoop.pc \in {"invoke", "self"} => once # "fresh"
         /\ i > endpoints => tasks[i] = <<>> /\ run[i] = "idle" /\ phase[i] = "open"
  BY DEF LifecycleInv, TypeOK, ResourceTypes, LoopInv, CloserInv

(* A step of one loop keeps the invariant if it does for its endpoint.     *)
LEMMA LocalStep ==
  ASSUME CloseInv, NEW i \in Eps, \A j \in Eps : j # i => SameEp(j), UNCHANGED globals,
         EpInv(i)'
  PROVE  CloseInv'
<1>1. ASSUME NEW j \in Eps, j # i
      PROVE  EpInv(j)'
  BY <1>1, Untouched DEF CloseInv
<1>2. \A j \in Eps : EpInv(j)'
  BY <1>1
<1> QED
  BY <1>2 DEF CloseInv, globals

(* A loop takes up its next task.                                          *)
LEMMA RunTaskKeeps ==
  ASSUME LifecycleInv, CloseInv, NEW i \in Eps, RunTask(i)
  PROVE  CloseInv'
<1>1. /\ UNCHANGED globals
      /\ \A j \in Eps : j # i => SameEp(j)
  BY DEF RunTask, NoTasks, globals, SameEp, LifecycleInv, TypeOK, ResourceTypes,
         LoopTypes, setupVars, closeVars, resVars, loopVars
<1>2. EpInv(i)
  BY DEF CloseInv
<1> USE DEF globals, EpInv, TaskInv, BodyInv, AtRest, Released, RegisterQueued, RegisterRunning,
        CloseUnderWay, Reached, Passed, Cleared, Gone, Done, Closing, At
<1>3. /\ run[i] = "idle" /\ tasks[i] # NoTasks /\ ~Closing(i, "loop")
      /\ tasks'[i] = Tail(tasks[i])
      /\ run'[i] = Head(tasks[i])
      /\ sock'[i] = sock[i]
      /\ alloc'[i] = alloc[i]
      /\ phase'[i] = phase[i]
      /\ closer'[i] = closer[i]
      /\ queued'[i] = queued[i]
      /\ registered'[i] = registered[i]
      /\ waiting'[i] = waiting[i]
      /\ reply'[i] = reply[i]
  BY DEF RunTask, NoTasks, LifecycleInv, TypeOK, ResourceTypes, LoopTypes, setupVars,
         closeVars, resVars, loopVars
<1>4. EpInv(i)'
  <2>1. TaskInv(i)'
    <3>1. CASE tasks[i] = JustRegister
      <4>1. tasks'[i] = NoTasks /\ run'[i] = "register"
        BY <1>3, <3>1, TaskLists
      <4> QED
        BY <1>1, <1>2, <1>3, <3>1, <4>1, TaskLists
    <3>2. CASE tasks[i] = JustClose
      <4>1. tasks'[i] = NoTasks /\ run'[i] = "close"
        BY <1>3, <3>2, TaskLists
      <4> QED
        BY <1>1, <1>2, <1>3, <3>2, <4>1, TaskLists
    <3>3. CASE tasks[i] = Both
      <4>1. tasks'[i] = JustClose /\ run'[i] = "register"
        BY <1>3, <3>3, TaskLists
      <4> QED
        BY <1>1, <1>2, <1>3, <3>3, <4>1, TaskLists
    <3> QED
      BY <1>2, <1>3, <3>1, <3>2, <3>3
  <2>2. BodyInv(i)'
    BY <1>1, <1>2, <1>3, TaskLists, EarlierFacts
  <2>3. ServerInv(i)'
    BY <1>1, <1>2, <1>3, TaskLists, EarlierFacts DEF ServerInv
  <2>4. ClientInv(i)'
    BY <1>1, <1>2, <1>3, TaskLists, EarlierFacts DEF ClientInv
  <2> QED
    BY <2>1, <2>2, <2>3, <2>4
<1> QED
  BY <1>1, <1>4, LocalStep

(* The registration starts, or finds the server closed.                    *)
LEMMA CheckServerKeeps ==
  ASSUME LifecycleInv, CloseInv, NEW i \in Eps, CheckServer(i)
  PROVE  CloseInv'
<1>1. /\ UNCHANGED globals
      /\ \A j \in Eps : j # i => SameEp(j)
  BY DEF CheckServer, GoTo, Finish, globals, SameEp, LifecycleInv, TypeOK, ResourceTypes,
         LoopTypes, setupVars, closeVars, resVars, loopVars
<1>2. EpInv(i)
  BY DEF CloseInv
<1> USE DEF globals, EpInv, TaskInv, BodyInv, AtRest, Released, RegisterQueued, RegisterRunning,
        CloseUnderWay, Reached, Passed, Cleared, Gone, Done, Closing, At
<1>3. CASE /\ run[i] = "register"
           /\ run'[i] = "acquire"
           /\ sock'[i] = sock[i]
           /\ alloc'[i] = alloc[i]
           /\ phase'[i] = phase[i]
           /\ closer'[i] = closer[i]
           /\ queued'[i] = queued[i]
           /\ registered'[i] = registered[i]
           /\ tasks'[i] = tasks[i]
           /\ waiting'[i] = waiting[i]
           /\ reply'[i] = reply[i]
  <2>1. TaskInv(i)'
    BY <1>1, <1>2, <1>3, TaskLists, EarlierFacts
  <2>2. BodyInv(i)'
    BY <1>1, <1>2, <1>3, TaskLists, EarlierFacts
  <2>3. ServerInv(i)'
    BY <1>1, <1>2, <1>3, TaskLists, EarlierFacts DEF ServerInv
  <2>4. ClientInv(i)'
    BY <1>1, <1>2, <1>3, TaskLists, EarlierFacts DEF ClientInv
  <2>5. EpInv(i)'
    BY <2>1, <2>2, <2>3, <2>4
  <2> QED
    BY <1>1, <2>5, LocalStep
<1>4. CASE /\ run[i] = "register"
           /\ run'[i] = "idle"
           /\ waiting'[i] = IF waiting[i] = "register" THEN "none" ELSE waiting[i]
           /\ reply'[i] = IF waiting[i] = "register" THEN "error" ELSE reply[i]
           /\ sock'[i] = sock[i]
           /\ alloc'[i] = alloc[i]
           /\ phase'[i] = phase[i]
           /\ closer'[i] = closer[i]
           /\ queued'[i] = queued[i]
           /\ registered'[i] = registered[i]
           /\ tasks'[i] = tasks[i]
  <2>1. TaskInv(i)'
    BY <1>1, <1>2, <1>4, TaskLists, EarlierFacts
  <2>2. BodyInv(i)'
    BY <1>1, <1>2, <1>4, TaskLists, EarlierFacts
  <2>3. ServerInv(i)'
    BY <1>1, <1>2, <1>4, TaskLists, EarlierFacts DEF ServerInv
  <2>4. ClientInv(i)'
    BY <1>1, <1>2, <1>4, TaskLists, EarlierFacts DEF ClientInv
  <2>5. EpInv(i)'
    BY <2>1, <2>2, <2>3, <2>4
  <2> QED
    BY <1>1, <2>5, LocalStep
<1>5. \/ /\ run[i] = "register"
         /\ run'[i] = "acquire"
         /\ sock'[i] = sock[i]
         /\ alloc'[i] = alloc[i]
         /\ phase'[i] = phase[i]
         /\ closer'[i] = closer[i]
         /\ queued'[i] = queued[i]
         /\ registered'[i] = registered[i]
         /\ tasks'[i] = tasks[i]
         /\ waiting'[i] = waiting[i]
         /\ reply'[i] = reply[i]
      \/ /\ run[i] = "register"
         /\ run'[i] = "idle"
         /\ waiting'[i] = IF waiting[i] = "register" THEN "none" ELSE waiting[i]
         /\ reply'[i] = IF waiting[i] = "register" THEN "error" ELSE reply[i]
         /\ sock'[i] = sock[i]
         /\ alloc'[i] = alloc[i]
         /\ phase'[i] = phase[i]
         /\ closer'[i] = closer[i]
         /\ queued'[i] = queued[i]
         /\ registered'[i] = registered[i]
         /\ tasks'[i] = tasks[i]
  BY DEF CheckServer, GoTo, Finish, LifecycleInv, TypeOK, ResourceTypes, LoopTypes, setupVars,
         closeVars, resVars, loopVars
<1> QED
  BY <1>3, <1>4, <1>5

(* It opens an allocator.                                                  *)
LEMMA AcquireAllocatorKeeps ==
  ASSUME LifecycleInv, CloseInv, NEW i \in Eps, AcquireAllocator(i)
  PROVE  CloseInv'
<1>1. /\ UNCHANGED globals
      /\ \A j \in Eps : j # i => SameEp(j)
  BY DEF AcquireAllocator, GoTo, globals, SameEp, LifecycleInv, TypeOK, ResourceTypes,
         LoopTypes, setupVars, closeVars, resVars, loopVars
<1>2. EpInv(i)
  BY DEF CloseInv
<1> USE DEF globals, EpInv, TaskInv, BodyInv, AtRest, Released, RegisterQueued, RegisterRunning,
        CloseUnderWay, Reached, Passed, Cleared, Gone, Done, Closing, At
<1>3. /\ run[i] = "acquire"
      /\ alloc'[i] = "open"
      /\ run'[i] = "initialize"
      /\ sock'[i] = sock[i]
      /\ phase'[i] = phase[i]
      /\ closer'[i] = closer[i]
      /\ queued'[i] = queued[i]
      /\ registered'[i] = registered[i]
      /\ tasks'[i] = tasks[i]
      /\ waiting'[i] = waiting[i]
      /\ reply'[i] = reply[i]
  BY DEF AcquireAllocator, GoTo, LifecycleInv, TypeOK, ResourceTypes, LoopTypes, setupVars,
         closeVars, resVars, loopVars
<1>4. EpInv(i)'
  <2>1. TaskInv(i)'
    BY <1>1, <1>2, <1>3, TaskLists, EarlierFacts
  <2>2. BodyInv(i)'
    BY <1>1, <1>2, <1>3, TaskLists, EarlierFacts
  <2>3. ServerInv(i)'
    BY <1>1, <1>2, <1>3, TaskLists, EarlierFacts DEF ServerInv
  <2>4. ClientInv(i)'
    BY <1>1, <1>2, <1>3, TaskLists, EarlierFacts DEF ClientInv
  <2> QED
    BY <2>1, <2>2, <2>3, <2>4
<1> QED
  BY <1>1, <1>4, LocalStep

(* It runs the initializer.                                                *)
LEMMA InitializeKeeps ==
  ASSUME LifecycleInv, CloseInv, NEW i \in Eps, Initialize(i)
  PROVE  CloseInv'
<1>1. /\ UNCHANGED globals
      /\ \A j \in Eps : j # i => SameEp(j)
  BY DEF Initialize, GoTo, globals, SameEp, LifecycleInv, TypeOK, ResourceTypes,
         LoopTypes, setupVars, closeVars, resVars, loopVars
<1>2. EpInv(i)
  BY DEF CloseInv
<1> USE DEF globals, EpInv, TaskInv, BodyInv, AtRest, Released, RegisterQueued, RegisterRunning,
        CloseUnderWay, Reached, Passed, Cleared, Gone, Done, Closing, At
<1>3. /\ run[i] = "initialize" /\ ~Closing(i, "loop")
      /\ run'[i] = "registering"
      /\ sock'[i] = sock[i]
      /\ alloc'[i] = alloc[i]
      /\ phase'[i] = phase[i]
      /\ closer'[i] = closer[i]
      /\ queued'[i] = queued[i]
      /\ registered'[i] = registered[i]
      /\ tasks'[i] = tasks[i]
      /\ waiting'[i] = waiting[i]
      /\ reply'[i] = reply[i]
  BY DEF Initialize, GoTo, LifecycleInv, TypeOK, ResourceTypes, LoopTypes, setupVars,
         closeVars, resVars, loopVars
<1>4. EpInv(i)'
  <2>1. TaskInv(i)'
    BY <1>1, <1>2, <1>3, TaskLists, EarlierFacts
  <2>2. BodyInv(i)'
    BY <1>1, <1>2, <1>3, TaskLists, EarlierFacts
  <2>3. ServerInv(i)'
    BY <1>1, <1>2, <1>3, TaskLists, EarlierFacts DEF ServerInv
  <2>4. ClientInv(i)'
    BY <1>1, <1>2, <1>3, TaskLists, EarlierFacts DEF ClientInv
  <2> QED
    BY <2>1, <2>2, <2>3, <2>4
<1> QED
  BY <1>1, <1>4, LocalStep

(* It registers the endpoint.                                              *)
LEMMA RegisterEndpointKeeps ==
  ASSUME LifecycleInv, CloseInv, NEW i \in Eps, RegisterEndpoint(i)
  PROVE  CloseInv'
<1>1. /\ UNCHANGED globals
      /\ \A j \in Eps : j # i => SameEp(j)
  BY DEF RegisterEndpoint, GoTo, globals, SameEp, LifecycleInv, TypeOK, ResourceTypes,
         LoopTypes, setupVars, closeVars, resVars, loopVars
<1>2. EpInv(i)
  BY DEF CloseInv
<1> USE DEF globals, EpInv, TaskInv, BodyInv, AtRest, Released, RegisterQueued, RegisterRunning,
        CloseUnderWay, Reached, Passed, Cleared, Gone, Done, Closing, At
<1>3. /\ run[i] = "registering"
      /\ registered'[i] = TRUE
      /\ run'[i] = "active"
      /\ sock'[i] = sock[i]
      /\ alloc'[i] = alloc[i]
      /\ phase'[i] = phase[i]
      /\ closer'[i] = closer[i]
      /\ queued'[i] = queued[i]
      /\ tasks'[i] = tasks[i]
      /\ waiting'[i] = waiting[i]
      /\ reply'[i] = reply[i]
  BY DEF RegisterEndpoint, GoTo, LifecycleInv, TypeOK, ResourceTypes, LoopTypes, setupVars,
         closeVars, resVars, loopVars
<1>4. EpInv(i)'
  <2>1. TaskInv(i)'
    BY <1>1, <1>2, <1>3, TaskLists, EarlierFacts
  <2>2. BodyInv(i)'
    BY <1>1, <1>2, <1>3, TaskLists, EarlierFacts
  <2>3. ServerInv(i)'
    BY <1>1, <1>2, <1>3, TaskLists, EarlierFacts DEF ServerInv
  <2>4. ClientInv(i)'
    BY <1>1, <1>2, <1>3, TaskLists, EarlierFacts DEF ClientInv
  <2> QED
    BY <2>1, <2>2, <2>3, <2>4
<1> QED
  BY <1>1, <1>4, LocalStep

(* It succeeds.                                                            *)
LEMMA ActivatedKeeps ==
  ASSUME LifecycleInv, CloseInv, NEW i \in Eps, Activated(i)
  PROVE  CloseInv'
<1>1. /\ UNCHANGED globals
      /\ \A j \in Eps : j # i => SameEp(j)
  BY DEF Activated, Finish, globals, SameEp, LifecycleInv, TypeOK, ResourceTypes,
         LoopTypes, setupVars, closeVars, resVars, loopVars
<1>2. EpInv(i)
  BY DEF CloseInv
<1> USE DEF globals, EpInv, TaskInv, BodyInv, AtRest, Released, RegisterQueued, RegisterRunning,
        CloseUnderWay, Reached, Passed, Cleared, Gone, Done, Closing, At
<1>3. /\ run[i] = "active" /\ ~Closing(i, "loop")
      /\ run'[i] = "idle"
      /\ waiting'[i] = IF waiting[i] = "register" THEN "none" ELSE waiting[i]
      /\ reply'[i] = IF waiting[i] = "register" THEN "ok" ELSE reply[i]
      /\ sock'[i] = sock[i]
      /\ alloc'[i] = alloc[i]
      /\ phase'[i] = phase[i]
      /\ closer'[i] = closer[i]
      /\ queued'[i] = queued[i]
      /\ registered'[i] = registered[i]
      /\ tasks'[i] = tasks[i]
  BY DEF Activated, Finish, LifecycleInv, TypeOK, ResourceTypes, LoopTypes, setupVars,
         closeVars, resVars, loopVars
<1>4. EpInv(i)'
  <2>1. TaskInv(i)'
    BY <1>1, <1>2, <1>3, TaskLists, EarlierFacts
  <2>2. BodyInv(i)'
    BY <1>1, <1>2, <1>3, TaskLists, EarlierFacts
  <2>3. ServerInv(i)'
    BY <1>1, <1>2, <1>3, TaskLists, EarlierFacts DEF ServerInv
  <2>4. ClientInv(i)'
    BY <1>1, <1>2, <1>3, TaskLists, EarlierFacts DEF ClientInv
  <2> QED
    BY <2>1, <2>2, <2>3, <2>4
<1> QED
  BY <1>1, <1>4, LocalStep

(* It fails.                                                               *)
LEMMA RegistrationFailsKeeps ==
  ASSUME LifecycleInv, CloseInv, NEW i \in Eps, RegistrationFails(i)
  PROVE  CloseInv'
<1>1. /\ UNCHANGED globals
      /\ \A j \in Eps : j # i => SameEp(j)
  BY DEF RegistrationFails, Finish, globals, SameEp, LifecycleInv, TypeOK, ResourceTypes,
         LoopTypes, setupVars, closeVars, resVars, loopVars
<1>2. EpInv(i)
  BY DEF CloseInv
<1> USE DEF globals, EpInv, TaskInv, BodyInv, AtRest, Released, RegisterQueued, RegisterRunning,
        CloseUnderWay, Reached, Passed, Cleared, Gone, Done, Closing, At
<1>3. /\ run[i] \in {"acquire", "initialize", "registering", "active"} /\ ~Closing(i, "loop")
      /\ run'[i] = "idle"
      /\ waiting'[i] = IF waiting[i] = "register" THEN "none" ELSE waiting[i]
      /\ reply'[i] = IF waiting[i] = "register" THEN "error" ELSE reply[i]
      /\ sock'[i] = sock[i]
      /\ alloc'[i] = alloc[i]
      /\ phase'[i] = phase[i]
      /\ closer'[i] = closer[i]
      /\ queued'[i] = queued[i]
      /\ registered'[i] = registered[i]
      /\ tasks'[i] = tasks[i]
  BY DEF RegistrationFails, Finish, LifecycleInv, TypeOK, ResourceTypes, LoopTypes, setupVars,
         closeVars, resVars, loopVars
<1>4. EpInv(i)'
  <2>1. TaskInv(i)'
    BY <1>1, <1>2, <1>3, TaskLists, EarlierFacts
  <2>2. BodyInv(i)'
    BY <1>1, <1>2, <1>3, TaskLists, EarlierFacts
  <2>3. ServerInv(i)'
    BY <1>1, <1>2, <1>3, TaskLists, EarlierFacts DEF ServerInv
  <2>4. ClientInv(i)'
    BY <1>1, <1>2, <1>3, TaskLists, EarlierFacts DEF ClientInv
  <2> QED
    BY <2>1, <2>2, <2>3, <2>4
<1> QED
  BY <1>1, <1>4, LocalStep

(* The closing task takes the endpoint from the loop and calls Close.      *)
LEMMA DeregisterKeeps ==
  ASSUME LifecycleInv, CloseInv, NEW i \in Eps, Deregister(i)
  PROVE  CloseInv'
<1>1. /\ UNCHANGED globals
      /\ \A j \in Eps : j # i => SameEp(j)
  BY DEF Deregister, GoTo, EpClose, globals, SameEp, LifecycleInv, TypeOK, ResourceTypes,
         LoopTypes, setupVars, closeVars, resVars, loopVars
<1>2. EpInv(i)
  BY DEF CloseInv
<1> USE DEF globals, EpInv, TaskInv, BodyInv, AtRest, Released, RegisterQueued, RegisterRunning,
        CloseUnderWay, Reached, Passed, Cleared, Gone, Done, Closing, At
<1>3. CASE /\ run[i] = "close" /\ phase[i] = "open"
           /\ phase'[i] = "releasing"
           /\ closer'[i] = "loop"
           /\ registered'[i] = FALSE
           /\ run'[i] = "closing"
           /\ sock'[i] = sock[i]
           /\ alloc'[i] = alloc[i]
           /\ queued'[i] = queued[i]
           /\ tasks'[i] = tasks[i]
           /\ waiting'[i] = waiting[i]
           /\ reply'[i] = reply[i]
  <2>1. TaskInv(i)'
    BY <1>1, <1>2, <1>3, TaskLists, EarlierFacts
  <2>2. BodyInv(i)'
    BY <1>1, <1>2, <1>3, TaskLists, EarlierFacts
  <2>3. ServerInv(i)'
    BY <1>1, <1>2, <1>3, TaskLists, EarlierFacts DEF ServerInv
  <2>4. ClientInv(i)'
    BY <1>1, <1>2, <1>3, TaskLists, EarlierFacts DEF ClientInv
  <2>5. EpInv(i)'
    BY <2>1, <2>2, <2>3, <2>4
  <2> QED
    BY <1>1, <2>5, LocalStep
<1>4. CASE /\ run[i] = "close" /\ phase[i] # "open"
           /\ registered'[i] = FALSE
           /\ run'[i] = "closing"
           /\ sock'[i] = sock[i]
           /\ alloc'[i] = alloc[i]
           /\ phase'[i] = phase[i]
           /\ closer'[i] = closer[i]
           /\ queued'[i] = queued[i]
           /\ tasks'[i] = tasks[i]
           /\ waiting'[i] = waiting[i]
           /\ reply'[i] = reply[i]
  <2>1. TaskInv(i)'
    BY <1>1, <1>2, <1>4, TaskLists, EarlierFacts
  <2>2. BodyInv(i)'
    BY <1>1, <1>2, <1>4, TaskLists, EarlierFacts
  <2>3. ServerInv(i)'
    BY <1>1, <1>2, <1>4, TaskLists, EarlierFacts DEF ServerInv
  <2>4. ClientInv(i)'
    BY <1>1, <1>2, <1>4, TaskLists, EarlierFacts DEF ClientInv
  <2>5. EpInv(i)'
    BY <2>1, <2>2, <2>3, <2>4
  <2> QED
    BY <1>1, <2>5, LocalStep
<1>5. \/ /\ run[i] = "close" /\ phase[i] = "open"
         /\ phase'[i] = "releasing"
         /\ closer'[i] = "loop"
         /\ registered'[i] = FALSE
         /\ run'[i] = "closing"
         /\ sock'[i] = sock[i]
         /\ alloc'[i] = alloc[i]
         /\ queued'[i] = queued[i]
         /\ tasks'[i] = tasks[i]
         /\ waiting'[i] = waiting[i]
         /\ reply'[i] = reply[i]
      \/ /\ run[i] = "close" /\ phase[i] # "open"
         /\ registered'[i] = FALSE
         /\ run'[i] = "closing"
         /\ sock'[i] = sock[i]
         /\ alloc'[i] = alloc[i]
         /\ phase'[i] = phase[i]
         /\ closer'[i] = closer[i]
         /\ queued'[i] = queued[i]
         /\ tasks'[i] = tasks[i]
         /\ waiting'[i] = waiting[i]
         /\ reply'[i] = reply[i]
  BY DEF Deregister, GoTo, EpClose, LifecycleInv, TypeOK, ResourceTypes, LoopTypes, setupVars,
         closeVars, resVars, loopVars
<1> QED
  BY <1>3, <1>4, <1>5

(* It ends.                                                                *)
LEMMA CloseTaskDoneKeeps ==
  ASSUME LifecycleInv, CloseInv, NEW i \in Eps, CloseTaskDone(i)
  PROVE  CloseInv'
<1>1. /\ UNCHANGED globals
      /\ \A j \in Eps : j # i => SameEp(j)
  BY DEF CloseTaskDone, Finish, LoopInv, globals, SameEp, LifecycleInv, TypeOK, ResourceTypes,
         LoopTypes, setupVars, closeVars, resVars, loopVars
<1>2. EpInv(i)
  BY DEF CloseInv
<1> USE DEF globals, EpInv, TaskInv, BodyInv, AtRest, Released, RegisterQueued, RegisterRunning,
        CloseUnderWay, Reached, Passed, Cleared, Gone, Done, Closing, At
<1>3. /\ run[i] = "closing" /\ ~Closing(i, "loop") /\ phase[i] # "open"
      /\ run'[i] = "idle"
      /\ waiting'[i] = IF waiting[i] = "close" THEN "none" ELSE waiting[i]
      /\ reply'[i] = IF waiting[i] = "close" THEN "ok" ELSE reply[i]
      /\ sock'[i] = sock[i]
      /\ alloc'[i] = alloc[i]
      /\ phase'[i] = phase[i]
      /\ closer'[i] = closer[i]
      /\ queued'[i] = queued[i]
      /\ registered'[i] = registered[i]
      /\ tasks'[i] = tasks[i]
  BY
     DEF CloseTaskDone, Finish, LoopInv, LifecycleInv, TypeOK, ResourceTypes, LoopTypes,
         setupVars,
         closeVars, resVars, loopVars
<1>4. EpInv(i)'
  <2>1. TaskInv(i)'
    BY <1>1, <1>2, <1>3, TaskLists, EarlierFacts
  <2>2. BodyInv(i)'
    BY <1>1, <1>2, <1>3, TaskLists, EarlierFacts
  <2>3. ServerInv(i)'
    BY <1>1, <1>2, <1>3, TaskLists, EarlierFacts DEF ServerInv
  <2>4. ClientInv(i)'
    BY <1>1, <1>2, <1>3, TaskLists, EarlierFacts DEF ClientInv
  <2> QED
    BY <2>1, <2>2, <2>3, <2>4
<1> QED
  BY <1>1, <1>4, LocalStep

(* A Write puts a datagram into the queue.                                 *)
LEMMA WriteEnqueuesKeeps ==
  ASSUME LifecycleInv, CloseInv, NEW i \in Eps, WriteEnqueues(i)
  PROVE  CloseInv'
<1>1. /\ UNCHANGED globals
      /\ \A j \in Eps : j # i => SameEp(j)
  BY DEF WriteEnqueues, GoTo, globals, SameEp, LifecycleInv, TypeOK, ResourceTypes,
         LoopTypes, setupVars, closeVars, resVars, loopVars
<1>2. EpInv(i)
  BY DEF CloseInv
<1> USE DEF globals, EpInv, TaskInv, BodyInv, AtRest, Released, RegisterQueued, RegisterRunning,
        CloseUnderWay, Reached, Passed, Cleared, Gone, Done, Closing, At
<1>3. /\ run[i] = "enqueue"
      /\ queued'[i] = queued[i] + 1
      /\ run'[i] = "idle"
      /\ sock'[i] = sock[i]
      /\ alloc'[i] = alloc[i]
      /\ phase'[i] = phase[i]
      /\ closer'[i] = closer[i]
      /\ registered'[i] = registered[i]
      /\ tasks'[i] = tasks[i]
      /\ waiting'[i] = waiting[i]
      /\ reply'[i] = reply[i]
  BY DEF WriteEnqueues, GoTo, LifecycleInv, TypeOK, ResourceTypes, LoopTypes, setupVars,
         closeVars, resVars, loopVars
<1>4. EpInv(i)'
  <2>1. TaskInv(i)'
    BY <1>1, <1>2, <1>3, TaskLists, EarlierFacts
  <2>2. BodyInv(i)'
    BY <1>1, <1>2, <1>3, TaskLists, EarlierFacts
  <2>3. ServerInv(i)'
    BY <1>1, <1>2, <1>3, TaskLists, EarlierFacts DEF ServerInv
  <2>4. ClientInv(i)'
    BY <1>1, <1>2, <1>3, TaskLists, EarlierFacts DEF ClientInv
  <2> QED
    BY <2>1, <2>2, <2>3, <2>4
<1> QED
  BY <1>1, <1>4, LocalStep

(* A handler calls Close.                                                  *)
LEMMA HandlerClosesKeeps ==
  ASSUME LifecycleInv, CloseInv, NEW i \in Eps, HandlerCloses(i)
  PROVE  CloseInv'
<1>1. /\ UNCHANGED globals
      /\ \A j \in Eps : j # i => SameEp(j)
  BY DEF HandlerCloses, EpClose, globals, SameEp, LifecycleInv, TypeOK, ResourceTypes,
         LoopTypes, setupVars, closeVars, resVars, loopVars
<1>2. EpInv(i)
  BY DEF CloseInv
<1> USE DEF globals, EpInv, TaskInv, BodyInv, AtRest, Released, RegisterQueued, RegisterRunning,
        CloseUnderWay, Reached, Passed, Cleared, Gone, Done, Closing, At
<1>3. /\ run[i] \in {"initialize", "active"} \/ (run[i] = "idle" /\ registered[i])
      /\ phase[i] = "open" /\ EpClose(i, "loop")
      /\ UNCHANGED <<sock, alloc, queued, registered, tasks, run, waiting, reply>>
  <2>1. phase[i] = "open" /\ EpClose(i, "loop")
    BY DEF HandlerCloses
  <2>2. UNCHANGED <<sock, alloc, queued, registered, tasks, run, waiting, reply>>
    BY DEF HandlerCloses, loopVars
  <2>3. run[i] \in {"initialize", "active"} \/ (run[i] = "idle" /\ registered[i])
    BY Zenon DEF HandlerCloses
  <2> QED
    BY <2>1, <2>2, <2>3
<1>5. phase'[i] = "releasing" /\ closer'[i] = "loop"
  BY <1>3 DEF EpClose, LifecycleInv, TypeOK, ResourceTypes
<1>6. EpInv(i)'
  <2>1. TaskInv(i)'
    BY <1>1, <1>2, <1>3, <1>5, TaskLists, EarlierFacts
  <2>2. BodyInv(i)'
    BY <1>1, <1>2, <1>3, <1>5, TaskLists, EarlierFacts
  <2>3. ServerInv(i)'
    BY <1>1, <1>2, <1>3, <1>5, TaskLists, EarlierFacts DEF ServerInv
  <2>4. ClientInv(i)'
    BY <1>1, <1>2, <1>3, <1>5, TaskLists, EarlierFacts DEF ClientInv
  <2> QED
    BY <2>1, <2>2, <2>3, <2>4
<1> QED
  BY <1>1, <1>6, LocalStep

(* A Write finds the endpoint open.                                        *)
LEMMA WriteChecksKeeps ==
  ASSUME LifecycleInv, CloseInv, NEW i \in Eps, WriteChecks(i)
  PROVE  CloseInv'
<1>1. /\ UNCHANGED globals
      /\ \A j \in Eps : j # i => SameEp(j)
  BY DEF WriteChecks, GoTo, globals, SameEp, LifecycleInv, TypeOK, ResourceTypes,
         LoopTypes, setupVars, closeVars, resVars, loopVars
<1>2. EpInv(i)
  BY DEF CloseInv
<1> USE DEF globals, EpInv, TaskInv, BodyInv, AtRest, Released, RegisterQueued, RegisterRunning,
        CloseUnderWay, Reached, Passed, Cleared, Gone, Done, Closing, At
<1>3. /\ run[i] = "idle" /\ registered[i] /\ phase[i] = "open"
      /\ run'[i] = "enqueue"
      /\ sock'[i] = sock[i]
      /\ alloc'[i] = alloc[i]
      /\ phase'[i] = phase[i]
      /\ closer'[i] = closer[i]
      /\ queued'[i] = queued[i]
      /\ registered'[i] = registered[i]
      /\ tasks'[i] = tasks[i]
      /\ waiting'[i] = waiting[i]
      /\ reply'[i] = reply[i]
  BY DEF WriteChecks, GoTo, LifecycleInv, TypeOK, ResourceTypes, LoopTypes, setupVars,
         closeVars, resVars, loopVars
<1>4. EpInv(i)'
  <2>1. TaskInv(i)'
    BY <1>1, <1>2, <1>3, TaskLists, EarlierFacts
  <2>2. BodyInv(i)'
    BY <1>1, <1>2, <1>3, TaskLists, EarlierFacts
  <2>3. ServerInv(i)'
    BY <1>1, <1>2, <1>3, TaskLists, EarlierFacts DEF ServerInv
  <2>4. ClientInv(i)'
    BY <1>1, <1>2, <1>3, TaskLists, EarlierFacts DEF ClientInv
  <2> QED
    BY <2>1, <2>2, <2>3, <2>4
<1> QED
  BY <1>1, <1>4, LocalStep

(* The body of Close does its next part.                                   *)
LEMMA CloseBodyKeeps ==
  ASSUME LifecycleInv, CloseInv, NEW i \in Eps, CloseBody(i)
  PROVE  CloseInv'
<1>1. /\ UNCHANGED globals
      /\ \A j \in Eps : j # i => SameEp(j)
  BY DEF CloseBody, globals, SameEp, LifecycleInv, TypeOK, ResourceTypes,
         LoopTypes, setupVars, closeVars, resVars, loopVars
<1>2. EpInv(i)
  BY DEF CloseInv
<1> USE DEF globals, EpInv, TaskInv, BodyInv, AtRest, Released, RegisterQueued, RegisterRunning,
        CloseUnderWay, Reached, Passed, Cleared, Gone, Done, Closing, At
<1>3. CASE /\ phase[i] = "releasing"
           /\ phase'[i] = "closingFD"
           /\ queued'[i] = 0
           /\ sock'[i] = sock[i]
           /\ alloc'[i] = alloc[i]
           /\ closer'[i] = closer[i]
           /\ registered'[i] = registered[i]
           /\ tasks'[i] = tasks[i]
           /\ run'[i] = run[i]
           /\ waiting'[i] = waiting[i]
           /\ reply'[i] = reply[i]
  <2>1. TaskInv(i)'
    BY <1>1, <1>2, <1>3, TaskLists, EarlierFacts
  <2>2. BodyInv(i)'
    BY <1>1, <1>2, <1>3, TaskLists, EarlierFacts
  <2>3. ServerInv(i)'
    BY <1>1, <1>2, <1>3, TaskLists, EarlierFacts DEF ServerInv
  <2>4. ClientInv(i)'
    BY <1>1, <1>2, <1>3, TaskLists, EarlierFacts DEF ClientInv
  <2>5. EpInv(i)'
    BY <2>1, <2>2, <2>3, <2>4
  <2> QED
    BY <1>1, <2>5, LocalStep
<1>4. CASE /\ phase[i] = "closingFD"
           /\ sock'[i] = "closed"
           /\ phase'[i] = "closingAlloc"
           /\ alloc'[i] = alloc[i]
           /\ closer'[i] = closer[i]
           /\ queued'[i] = queued[i]
           /\ registered'[i] = registered[i]
           /\ tasks'[i] = tasks[i]
           /\ run'[i] = run[i]
           /\ waiting'[i] = waiting[i]
           /\ reply'[i] = reply[i]
  <2>1. TaskInv(i)'
    BY <1>1, <1>2, <1>4, TaskLists, EarlierFacts
  <2>2. BodyInv(i)'
    BY <1>1, <1>2, <1>4, TaskLists, EarlierFacts
  <2>3. ServerInv(i)'
    BY <1>1, <1>2, <1>4, TaskLists, EarlierFacts DEF ServerInv
  <2>4. ClientInv(i)'
    BY <1>1, <1>2, <1>4, TaskLists, EarlierFacts DEF ClientInv
  <2>5. EpInv(i)'
    BY <2>1, <2>2, <2>3, <2>4
  <2> QED
    BY <1>1, <2>5, LocalStep
<1>5. CASE /\ phase[i] = "closingAlloc"
           /\ alloc'[i] = IF alloc[i] = "open" THEN "closed" ELSE alloc[i]
           /\ phase'[i] = "closed"
           /\ sock'[i] = sock[i]
           /\ closer'[i] = closer[i]
           /\ queued'[i] = queued[i]
           /\ registered'[i] = registered[i]
           /\ tasks'[i] = tasks[i]
           /\ run'[i] = run[i]
           /\ waiting'[i] = waiting[i]
           /\ reply'[i] = reply[i]
  <2>1. TaskInv(i)'
    BY <1>1, <1>2, <1>5, TaskLists, EarlierFacts
  <2>2. BodyInv(i)'
    BY <1>1, <1>2, <1>5, TaskLists, EarlierFacts
  <2>3. ServerInv(i)'
    BY <1>1, <1>2, <1>5, TaskLists, EarlierFacts DEF ServerInv
  <2>4. ClientInv(i)'
    BY <1>1, <1>2, <1>5, TaskLists, EarlierFacts DEF ClientInv
  <2>5. EpInv(i)'
    BY <2>1, <2>2, <2>3, <2>4
  <2> QED
    BY <1>1, <2>5, LocalStep
<1>6. \/ /\ phase[i] = "releasing"
         /\ phase'[i] = "closingFD"
         /\ queued'[i] = 0
         /\ sock'[i] = sock[i]
         /\ alloc'[i] = alloc[i]
         /\ closer'[i] = closer[i]
         /\ registered'[i] = registered[i]
         /\ tasks'[i] = tasks[i]
         /\ run'[i] = run[i]
         /\ waiting'[i] = waiting[i]
         /\ reply'[i] = reply[i]
      \/ /\ phase[i] = "closingFD"
         /\ sock'[i] = "closed"
         /\ phase'[i] = "closingAlloc"
         /\ alloc'[i] = alloc[i]
         /\ closer'[i] = closer[i]
         /\ queued'[i] = queued[i]
         /\ registered'[i] = registered[i]
         /\ tasks'[i] = tasks[i]
         /\ run'[i] = run[i]
         /\ waiting'[i] = waiting[i]
         /\ reply'[i] = reply[i]
      \/ /\ phase[i] = "closingAlloc"
         /\ alloc'[i] = IF alloc[i] = "open" THEN "closed" ELSE alloc[i]
         /\ phase'[i] = "closed"
         /\ sock'[i] = sock[i]
         /\ closer'[i] = closer[i]
         /\ queued'[i] = queued[i]
         /\ registered'[i] = registered[i]
         /\ tasks'[i] = tasks[i]
         /\ run'[i] = run[i]
         /\ waiting'[i] = waiting[i]
         /\ reply'[i] = reply[i]
  BY DEF CloseBody, LifecycleInv, TypeOK, ResourceTypes, LoopTypes, setupVars,
         closeVars, resVars, loopVars
<1> QED
  BY <1>3, <1>4, <1>5, <1>6
(* What the earlier invariant says of Bind, Dial and Server.Close.         *)
LEMMA EarlierGlobals ==
  ASSUME LifecycleInv
  PROVE  /\ Eps = 1 .. N /\ N \in Nat /\ endpoints \in 0 .. N
         /\ setup = At(setup.pc, setup.ep) /\ setup.ep \in Eps
         /\ closeLoop = At(closeLoop.pc, closeLoop.ep) /\ closeLoop.ep \in 1 .. N + 1
         /\ \A j \in onLoop : j <= endpoints
         /\ SetupInv /\ CloserInv
<1>1. SetupTypes /\ CloserTypes /\ SetupInv /\ CloserInv
  BY DEF LifecycleInv, TypeOK
<1>2. onLoop \subseteq 1 .. endpoints /\ endpoints \in 0 .. N
  BY <1>1 DEF SetupTypes
<1>3. \A j \in onLoop : j <= endpoints
  BY <1>2
<1> QED
  BY <1>1, <1>2, <1>3, LifecycleAssumption DEF SetupTypes, CloserTypes, At, Eps

(* Server.Close starts.                                                    *)
LEMMA OnceEnterKeeps ==
  ASSUME LifecycleInv, CloseInv, OnceEnter
  PROVE  CloseInv'
<1> USE DEF EpInv, TaskInv, BodyInv, AtRest, Released, RegisterQueued, RegisterRunning,
        CloseUnderWay, Reached, Passed, Cleared, Gone, Done, Closing, At
<1>1. /\ once = "fresh" /\ closeLoop.pc = "none"
      /\ setup' = setup /\ role' = role /\ endpoints' = endpoints /\ onLoop' = onLoop
      /\ once' = "running" /\ closeLoop' = At("endpoint", 1)
  BY EarlierGlobals DEF OnceEnter, CloserInv, setupVars, closeVars
<1>2. ASSUME NEW j \in Eps
      PROVE  EpInv(j)'
  <2>1. EpInv(j)
    BY DEF CloseInv
  <2>2. /\ sock'[j] = sock[j] /\ alloc'[j] = alloc[j] /\ phase'[j] = phase[j]
        /\ closer'[j] = closer[j] /\ queued'[j] = queued[j] /\ registered'[j] = registered[j]
        /\ tasks'[j] = tasks[j] /\ run'[j] = run[j] /\ waiting'[j] = waiting[j]
        /\ reply'[j] = reply[j]
    BY <1>1, EarlierGlobals
       DEF OnceEnter, CloserInv, LifecycleInv, TypeOK, ResourceTypes, LoopTypes, resVars,
           loopVars
  <2>3. TaskInv(j)'
    BY <1>1, <2>1, <2>2, TaskLists, EarlierFacts, EarlierGlobals DEF SetupInv, CloserInv
  <2>4. BodyInv(j)'
    BY <1>1, <2>1, <2>2, TaskLists, EarlierFacts, EarlierGlobals DEF SetupInv, CloserInv
  <2>5. ServerInv(j)'
    BY <1>1, <2>1, <2>2, TaskLists, EarlierFacts, EarlierGlobals
       DEF SetupInv, CloserInv, ServerInv
  <2>6. ClientInv(j)'
    BY <1>1, <2>1, <2>2, TaskLists, EarlierFacts, EarlierGlobals
       DEF SetupInv, CloserInv, ClientInv
  <2> QED
    BY <2>3, <2>4, <2>5, <2>6
<1>3. \A j \in Eps : EpInv(j)'
  BY <1>2
<1>4. /\ (once = "done" => closeLoop.pc = "endpoint" /\ closeLoop.ep > endpoints)'
      /\ (role = "client" => endpoints <= 1)'
  BY <1>1, EarlierGlobals DEF CloseInv, SetupInv, CloserInv
<1> QED
  BY <1>3, <1>4 DEF CloseInv

(* The loop closed the endpoint.                                           *)
LEMMA CloseInvokedKeeps ==
  ASSUME LifecycleInv, CloseInv, CloseInvoked
  PROVE  CloseInv'
<1> USE DEF EpInv, TaskInv, BodyInv, AtRest, Released, RegisterQueued, RegisterRunning,
        CloseUnderWay, Reached, Passed, Cleared, Gone, Done, Closing, At
<1>1. /\ closeLoop.pc = "invoke" /\ waiting[closeLoop.ep] = "none"
      /\ setup' = setup /\ role' = role /\ endpoints' = endpoints /\ onLoop' = onLoop
      /\ once' = once /\ closeLoop' = At("endpoint", closeLoop.ep + 1)
  BY EarlierGlobals DEF CloseInvoked, setupVars, closeVars
<1>2. ASSUME NEW j \in Eps
      PROVE  EpInv(j)'
  <2>1. EpInv(j)
    BY DEF CloseInv
  <2>2. /\ sock'[j] = sock[j] /\ alloc'[j] = alloc[j] /\ phase'[j] = phase[j]
        /\ closer'[j] = closer[j] /\ queued'[j] = queued[j] /\ registered'[j] = registered[j]
        /\ tasks'[j] = tasks[j] /\ run'[j] = run[j] /\ waiting'[j] = waiting[j]
        /\ reply'[j] = reply[j]
    BY <1>1, EarlierGlobals
       DEF CloseInvoked, LifecycleInv, TypeOK, ResourceTypes, LoopTypes, resVars, loopVars
  <2>3. TaskInv(j)'
    BY <1>1, <2>1, <2>2, TaskLists, EarlierFacts, EarlierGlobals DEF SetupInv, CloserInv
  <2>4. BodyInv(j)'
    BY <1>1, <2>1, <2>2, TaskLists, EarlierFacts, EarlierGlobals DEF SetupInv, CloserInv
  <2>5. ServerInv(j)'
    <3>1. /\ closeLoop'.pc = "endpoint" /\ closeLoop'.ep = closeLoop.ep + 1
          /\ closeLoop.ep \in Nat /\ j \in Nat
      BY <1>1, EarlierGlobals
    <3>2. j = closeLoop.ep => Done(j)
      BY <1>1, <2>1, EarlierGlobals DEF ServerInv
    <3>3. once # "fresh" /\ j <= endpoints /\ j < closeLoop.ep => Done(j) \/ Gone(j)
      BY <2>1 DEF ServerInv
    <3>4. j < closeLoop'.ep => j < closeLoop.ep \/ j = closeLoop.ep
      BY <3>1
    <3>5. (Done(j) => Done(j)') /\ (Gone(j) => Gone(j)')
      BY <2>2
    <3> QED
      BY <1>1, <3>1, <3>2, <3>3, <3>4, <3>5 DEF ServerInv
  <2>6. ClientInv(j)'
    BY <1>1, <2>1, <2>2, TaskLists, EarlierFacts, EarlierGlobals
       DEF SetupInv, CloserInv, ClientInv
  <2> QED
    BY <2>3, <2>4, <2>5, <2>6
<1>3. \A j \in Eps : EpInv(j)'
  BY <1>2
<1>4. /\ (once = "done" => closeLoop.pc = "endpoint" /\ closeLoop.ep > endpoints)'
      /\ (role = "client" => endpoints <= 1)'
  BY <1>1, EarlierGlobals DEF CloseInv, SetupInv, CloserInv
<1> QED
  BY <1>3, <1>4 DEF CloseInv

(* Server.Close has closed the endpoint itself.                            *)
LEMMA CloseSelfDoneKeeps ==
  ASSUME LifecycleInv, CloseInv, CloseSelfDone
  PROVE  CloseInv'
<1> USE DEF EpInv, TaskInv, BodyInv, AtRest, Released, RegisterQueued, RegisterRunning,
        CloseUnderWay, Reached, Passed, Cleared, Gone, Done, Closing, At
<1>1. /\ closeLoop.pc = "self" /\ ~Closing(closeLoop.ep, "caller")
      /\ setup' = setup /\ role' = role /\ endpoints' = endpoints /\ onLoop' = onLoop
      /\ once' = once /\ closeLoop' = At("endpoint", closeLoop.ep + 1)
  BY EarlierGlobals DEF CloseSelfDone, setupVars, closeVars
<1>2. ASSUME NEW j \in Eps
      PROVE  EpInv(j)'
  <2>1. EpInv(j)
    BY DEF CloseInv
  <2>2. /\ sock'[j] = sock[j] /\ alloc'[j] = alloc[j] /\ phase'[j] = phase[j]
        /\ closer'[j] = closer[j] /\ queued'[j] = queued[j] /\ registered'[j] = registered[j]
        /\ tasks'[j] = tasks[j] /\ run'[j] = run[j] /\ waiting'[j] = waiting[j]
        /\ reply'[j] = reply[j]
    BY <1>1, EarlierGlobals
       DEF CloseSelfDone, LifecycleInv, TypeOK, ResourceTypes, LoopTypes, resVars, loopVars
  <2>3. TaskInv(j)'
    BY <1>1, <2>1, <2>2, TaskLists, EarlierFacts, EarlierGlobals DEF SetupInv, CloserInv
  <2>4. BodyInv(j)'
    BY <1>1, <2>1, <2>2, TaskLists, EarlierFacts, EarlierGlobals DEF SetupInv, CloserInv
  <2>5. ServerInv(j)'
    BY <1>1, <2>1, <2>2, TaskLists, EarlierFacts, EarlierGlobals
       DEF SetupInv, CloserInv, ServerInv
  <2>6. ClientInv(j)'
    BY <1>1, <2>1, <2>2, TaskLists, EarlierFacts, EarlierGlobals
       DEF SetupInv, CloserInv, ClientInv
  <2> QED
    BY <2>3, <2>4, <2>5, <2>6
<1>3. \A j \in Eps : EpInv(j)'
  BY <1>2
<1>4. /\ (once = "done" => closeLoop.pc = "endpoint" /\ closeLoop.ep > endpoints)'
      /\ (role = "client" => endpoints <= 1)'
  BY <1>1, EarlierGlobals DEF CloseInv, SetupInv, CloserInv
<1> QED
  BY <1>3, <1>4 DEF CloseInv

(* Server.Close is done.                                                   *)
LEMMA OnceLeaveKeeps ==
  ASSUME LifecycleInv, CloseInv, OnceLeave
  PROVE  CloseInv'
<1> USE DEF EpInv, TaskInv, BodyInv, AtRest, Released, RegisterQueued, RegisterRunning,
        CloseUnderWay, Reached, Passed, Cleared, Gone, Done, Closing, At
<1>1. /\ once = "running" /\ closeLoop.pc = "endpoint" /\ closeLoop.ep > endpoints
      /\ setup' = setup /\ role' = role /\ endpoints' = endpoints /\ onLoop' = onLoop
      /\ once' = "done" /\ closeLoop' = closeLoop
  BY EarlierGlobals DEF OnceLeave, setupVars, closeVars
<1>2. ASSUME NEW j \in Eps
      PROVE  EpInv(j)'
  <2>1. EpInv(j)
    BY DEF CloseInv
  <2>2. /\ sock'[j] = sock[j] /\ alloc'[j] = alloc[j] /\ phase'[j] = phase[j]
        /\ closer'[j] = closer[j] /\ queued'[j] = queued[j] /\ registered'[j] = registered[j]
        /\ tasks'[j] = tasks[j] /\ run'[j] = run[j] /\ waiting'[j] = waiting[j]
        /\ reply'[j] = reply[j]
    BY <1>1, EarlierGlobals
       DEF OnceLeave, LifecycleInv, TypeOK, ResourceTypes, LoopTypes, resVars, loopVars
  <2>3. TaskInv(j)'
    BY <1>1, <2>1, <2>2, TaskLists, EarlierFacts, EarlierGlobals DEF SetupInv, CloserInv
  <2>4. BodyInv(j)'
    BY <1>1, <2>1, <2>2, TaskLists, EarlierFacts, EarlierGlobals DEF SetupInv, CloserInv
  <2>5. ServerInv(j)'
    BY <1>1, <2>1, <2>2, TaskLists, EarlierFacts, EarlierGlobals
       DEF SetupInv, CloserInv, ServerInv
  <2>6. ClientInv(j)'
    BY <1>1, <2>1, <2>2, TaskLists, EarlierFacts, EarlierGlobals
       DEF SetupInv, CloserInv, ClientInv
  <2> QED
    BY <2>3, <2>4, <2>5, <2>6
<1>3. \A j \in Eps : EpInv(j)'
  BY <1>2
<1>4. /\ (once = "done" => closeLoop.pc = "endpoint" /\ closeLoop.ep > endpoints)'
      /\ (role = "client" => endpoints <= 1)'
  BY <1>1, EarlierGlobals DEF CloseInv, SetupInv, CloserInv
<1> QED
  BY <1>3, <1>4 DEF CloseInv

(* A call of Server.Close starts or returns.                               *)
LEMMA CallersKeep ==
  ASSUME CloseInv, UNCHANGED globals, UNCHANGED <<resVars, loopVars>>
  PROVE  CloseInv'
<1>1. \A j \in Eps : SameEp(j)
  BY DEF SameEp, resVars, loopVars
<1>2. \A j \in Eps : EpInv(j)'
  BY <1>1, Untouched DEF CloseInv
<1> QED
  BY <1>2 DEF CloseInv, globals

(* Close, a posted task and an Invoke given up, seen by one endpoint.       *)
LEMMA CloseSeen ==
  ASSUME ResourceTypes, NEW i, NEW who, EpClose(i, who), NEW j \in Eps
  PROVE  /\ phase'[j] = IF j = i /\ phase[j] = "open" THEN "releasing" ELSE phase[j]
         /\ closer'[j] = IF j = i /\ phase[j] = "open" THEN who ELSE closer[j]
  BY DEF ResourceTypes, EpClose

LEMMA PostSeen ==
  ASSUME LoopTypes, NEW i, NEW kind, Post(i, kind), NEW j \in Eps
  PROVE  /\ j = i => tasks'[j] = Append(tasks[j], kind) /\ waiting'[j] = kind
         /\ j # i => tasks'[j] = tasks[j] /\ waiting'[j] = waiting[j]
  BY DEF LoopTypes, Post

LEMMA AbandonSeen ==
  ASSUME LoopTypes, NEW i, Abandon(i), NEW j \in Eps
  PROVE  /\ j = i => /\ waiting[j] # "none" /\ waiting'[j] = "none" /\ reply'[j] = "timeout"
                     /\ \/ tasks'[j] = tasks[j]
                        \/ /\ tasks[j] # NoTasks
                           /\ tasks'[j] = SubSeq(tasks[j], 1, Len(tasks[j]) - 1)
         /\ j # i => tasks'[j] = tasks[j] /\ waiting'[j] = waiting[j] /\ reply'[j] = reply[j]
<1>1. tasks' = tasks \/ tasks' = [tasks EXCEPT ![i] = SubSeq(@, 1, Len(@) - 1)]
  BY DEF Abandon
<1>2. j # i => tasks'[j] = tasks[j]
  BY <1>1 DEF LoopTypes
<1>3. CASE j = i
  <2>1. CASE UNCHANGED tasks
    BY <1>3, <2>1 DEF LoopTypes, Abandon
  <2>2. CASE /\ tasks[i] # <<>>
             /\ tasks' = [tasks EXCEPT ![i] = SubSeq(@, 1, Len(@) - 1)]
    <3>1. tasks'[j] = SubSeq(tasks[j], 1, Len(tasks[j]) - 1)
      BY <1>3, <2>2 DEF LoopTypes
    <3>2. waiting[j] # "none" /\ waiting'[j] = "none" /\ reply'[j] = "timeout"
      BY <1>3 DEF LoopTypes, Abandon
    <3> QED
      BY <1>3, <2>2, <3>1, <3>2 DEF NoTasks
  <2> QED
    BY <2>1, <2>2 DEF Abandon
<1>4. CASE j # i
  <2>1. waiting'[j] = waiting[j] /\ reply'[j] = reply[j]
    BY <1>4 DEF LoopTypes, Abandon
  <2> QED
    BY <1>2, <1>4, <2>1
<1> QED
  BY <1>3, <1>4

(* Server.Close posts its task, or closes an endpoint without a loop.      *)
LEMMA CloseEndpointKeeps ==
  ASSUME LifecycleInv, CloseInv, CloseEndpoint
  PROVE  CloseInv'
<1> USE DEF EpInv, TaskInv, BodyInv, AtRest, Released, RegisterQueued, RegisterRunning,
        CloseUnderWay, Reached, Passed, Cleared, Gone, Done, Closing, At
<1>1. /\ closeLoop.pc = "endpoint" /\ closeLoop.ep <= endpoints /\ closeLoop.ep \in Eps
      /\ setup' = setup /\ role' = role /\ endpoints' = endpoints /\ onLoop' = onLoop
      /\ once' = once
      /\ closeLoop' = At(IF closeLoop.ep \in onLoop THEN "invoke" ELSE "self", closeLoop.ep)
  BY EarlierGlobals DEF CloseEndpoint, Post, EpClose, setupVars, closeVars
<1>2. ASSUME NEW j \in Eps
      PROVE  EpInv(j)'
  <2>1. EpInv(j)
    BY DEF CloseInv
  <2>2. /\ tasks'[j] = IF j = closeLoop.ep /\ j \in onLoop THEN Append(tasks[j], "close")
                                                         ELSE tasks[j]
        /\ waiting'[j] = IF j = closeLoop.ep /\ j \in onLoop THEN "close" ELSE waiting[j]
        /\ phase'[j] = IF j = closeLoop.ep /\ j \notin onLoop /\ phase[j] = "open"
                       THEN "releasing" ELSE phase[j]
        /\ closer'[j] = IF j = closeLoop.ep /\ j \notin onLoop /\ phase[j] = "open"
                        THEN "caller" ELSE closer[j]
        /\ sock'[j] = sock[j] /\ alloc'[j] = alloc[j] /\ queued'[j] = queued[j]
        /\ registered'[j] = registered[j] /\ run'[j] = run[j] /\ reply'[j] = reply[j]
    <3>1. ResourceTypes /\ LoopTypes
      BY DEF LifecycleInv, TypeOK
    <3>2. /\ sock'[j] = sock[j] /\ alloc'[j] = alloc[j] /\ queued'[j] = queued[j]
          /\ registered'[j] = registered[j] /\ run'[j] = run[j] /\ reply'[j] = reply[j]
      BY DEF CloseEndpoint
    <3>3. CASE closeLoop.ep \in onLoop
      <4>1. Post(closeLoop.ep, "close") /\ phase' = phase /\ closer' = closer
        BY <3>3 DEF CloseEndpoint
      <4> HIDE DEF EpInv
      <4>2. /\ j = closeLoop.ep => tasks'[j] = Append(tasks[j], "close") /\ waiting'[j] = "close"
            /\ j # closeLoop.ep => tasks'[j] = tasks[j] /\ waiting'[j] = waiting[j]
        BY <3>1, <4>1, PostSeen
      <4> QED
        BY <3>2, <3>3, <4>1, <4>2
    <3>4. CASE closeLoop.ep \notin onLoop
      <4>1. EpClose(closeLoop.ep, "caller") /\ tasks' = tasks /\ waiting' = waiting
        BY <3>4 DEF CloseEndpoint
      <4>2. /\ phase'[j] = IF j = closeLoop.ep /\ phase[j] = "open" THEN "releasing" ELSE phase[j]
            /\ closer'[j] = IF j = closeLoop.ep /\ phase[j] = "open" THEN "caller" ELSE closer[j]
        BY <3>1, <4>1, CloseSeen
      <4> QED
        BY <3>2, <3>4, <4>1, <4>2
    <3> QED
      BY <3>3, <3>4
  <2>3. TaskInv(j)'
    <3>1. /\ once # "fresh"
          /\ setup.pc # "invoke"
          /\ waiting[j] # "register" /\ waiting[j] # "close"
      BY <1>1, <2>1, EarlierGlobals DEF CloserInv
    <3>2. Reached(j) => Reached(j)'
      BY <1>1
    <3>3. CASE j = closeLoop.ep /\ j \in onLoop
      <4>1. Reached(j)' /\ ~Reached(j)
        <5>1. closeLoop'.pc = "invoke" /\ closeLoop'.ep = j /\ once' # "fresh"
          BY <1>1, <3>1, <3>3
        <5>2. closeLoop.ep \in 1 .. N + 1 /\ j \in 1 .. N /\ N \in Nat
          BY EarlierGlobals
        <5>3. ~Reached(j)
          BY <1>1, <3>3, <5>2
        <5> QED
          BY <5>1, <5>3
      <4>2. ~CloseUnderWay(j)
        BY <2>1, <4>1
      <4>3. CASE tasks[j] = NoTasks
        <5>1. tasks'[j] = JustClose
          BY <2>2, <3>3, <4>3, TaskLists
        <5> QED
          BY <1>1, <2>1, <2>2, <3>1, <3>3, <4>1, <4>2, <4>3, <5>1, TaskLists
      <4>4. CASE tasks[j] = JustRegister
        <5>1. tasks'[j] = Both
          BY <2>2, <3>3, <4>4, TaskLists
        <5> QED
          BY <1>1, <2>1, <2>2, <3>1, <3>3, <4>1, <4>2, <4>4, <5>1, TaskLists
      <4> QED
        BY <2>1, <4>2, <4>3, <4>4
    <3>4. CASE ~(j = closeLoop.ep /\ j \in onLoop)
      BY <1>1, <2>1, <2>2, <3>1, <3>2, <3>4
    <3> QED
      BY <3>3, <3>4
  <2>4. BodyInv(j)'
    <3>1. once # "fresh" /\ role = "server" /\ j \in Nat
      BY <1>1, EarlierGlobals DEF CloserInv
    <3>2. CASE j = closeLoop.ep /\ j \in onLoop
      <4>1. ~Passed(j) /\ ~Reached(j)
        BY <1>1, <3>1, <3>2
      <4>2. closer[j] # "caller"
        BY <2>1, <3>1, <3>2, <4>1
      <4>3. closer[j] = "loop" => tasks'[j] = JustClose
        BY <2>1, <2>2, <3>2, <4>1, TaskLists
      <4>4. /\ phase'[j] = phase[j] /\ closer'[j] = closer[j]
            /\ Cleared(j)' <=> Cleared(j)
        BY <2>2, <3>2
      <4> QED
        BY <2>1, <2>2, <4>2, <4>3, <4>4, TaskLists
    <3>3. CASE j = closeLoop.ep /\ j \notin onLoop /\ phase[j] = "open"
      BY <1>1, <2>1, <2>2, <3>3
    <3>4. CASE ~(j = closeLoop.ep /\ j \in onLoop) /\ ~(j = closeLoop.ep /\ phase[j] = "open")
      <4>1. /\ tasks'[j] = tasks[j] /\ waiting'[j] = waiting[j]
            /\ phase'[j] = phase[j] /\ closer'[j] = closer[j]
        BY <2>2, <3>4
      <4>2. Passed(j) => Passed(j)'
        BY <1>1, <3>1
      <4> HIDE DEF Passed
      <4> QED
        BY <1>1, <2>1, <2>2, <4>1, <4>2
    <3> QED
      BY <3>2, <3>3, <3>4
  <2>5. ServerInv(j)'
    BY <1>1, <2>1, <2>2, TaskLists, EarlierFacts, EarlierGlobals
       DEF SetupInv, CloserInv, ServerInv
  <2>6. ClientInv(j)'
    BY <1>1, <2>1, <2>2, TaskLists, EarlierFacts, EarlierGlobals
       DEF SetupInv, CloserInv, ClientInv
  <2> QED
    BY <2>3, <2>4, <2>5, <2>6
<1>3. \A j \in Eps : EpInv(j)'
  BY <1>2
<1>4. /\ (once = "done" => closeLoop.pc = "endpoint" /\ closeLoop.ep > endpoints)'
      /\ (role = "client" => endpoints <= 1)'
  BY <1>1, EarlierGlobals DEF CloseInv, SetupInv, CloserInv
<1> QED
  BY <1>3, <1>4 DEF CloseInv

(* The loop does not answer; Server.Close closes the endpoint itself.      *)
LEMMA CloseAbandonedKeeps ==
  ASSUME LifecycleInv, CloseInv, CloseAbandoned
  PROVE  CloseInv'
<1> USE DEF EpInv, TaskInv, BodyInv, AtRest, Released, RegisterQueued, RegisterRunning,
        CloseUnderWay, Reached, Passed, Cleared, Gone, Done, Closing, At
<1>1. /\ closeLoop.pc = "invoke" /\ closeLoop.ep \in Eps
      /\ setup' = setup /\ role' = role /\ endpoints' = endpoints /\ onLoop' = onLoop
      /\ once' = once
      /\ closeLoop' = At("self", closeLoop.ep)
  BY EarlierGlobals DEF CloseAbandoned, Abandon, EpClose, CloserInv, setupVars, closeVars
<1>2. ASSUME NEW j \in Eps
      PROVE  EpInv(j)'
  <2>1. EpInv(j)
    BY DEF CloseInv
  <2>2. /\ waiting'[j] = IF j = closeLoop.ep THEN "none" ELSE waiting[j]
        /\ reply'[j] = IF j = closeLoop.ep THEN "timeout" ELSE reply[j]
        /\ j = closeLoop.ep => waiting[j] # "none"
        /\ \/ tasks'[j] = tasks[j]
           \/ /\ j = closeLoop.ep /\ tasks[j] # NoTasks
              /\ tasks'[j] = SubSeq(tasks[j], 1, Len(tasks[j]) - 1)
        /\ phase'[j] = IF j = closeLoop.ep /\ phase[j] = "open" THEN "releasing" ELSE phase[j]
        /\ closer'[j] = IF j = closeLoop.ep /\ phase[j] = "open" THEN "caller" ELSE closer[j]
        /\ sock'[j] = sock[j] /\ alloc'[j] = alloc[j] /\ queued'[j] = queued[j]
        /\ registered'[j] = registered[j] /\ run'[j] = run[j]
    <3>1. ResourceTypes /\ LoopTypes
      BY DEF LifecycleInv, TypeOK
    <3>2. /\ sock'[j] = sock[j] /\ alloc'[j] = alloc[j] /\ queued'[j] = queued[j]
          /\ registered'[j] = registered[j] /\ run'[j] = run[j]
      BY DEF CloseAbandoned
    <3>3. Abandon(closeLoop.ep) /\ EpClose(closeLoop.ep, "caller")
      BY DEF CloseAbandoned
    <3>4. /\ phase'[j] = IF j = closeLoop.ep /\ phase[j] = "open" THEN "releasing" ELSE phase[j]
          /\ closer'[j] = IF j = closeLoop.ep /\ phase[j] = "open" THEN "caller" ELSE closer[j]
      BY <3>1, <3>3, CloseSeen
    <3>5. /\ j = closeLoop.ep =>
               /\ waiting[j] # "none" /\ waiting'[j] = "none" /\ reply'[j] = "timeout"
               /\ \/ tasks'[j] = tasks[j]
                  \/ /\ tasks[j] # NoTasks
                     /\ tasks'[j] = SubSeq(tasks[j], 1, Len(tasks[j]) - 1)
          /\ j # closeLoop.ep =>
               tasks'[j] = tasks[j] /\ waiting'[j] = waiting[j] /\ reply'[j] = reply[j]
      BY <3>1, <3>3, AbandonSeen
    <3> QED
      BY <3>2, <3>4, <3>5
  <2>3. TaskInv(j)'
    <3>1. CASE tasks'[j] = tasks[j]
      BY <1>1, <2>1, <2>2, <3>1, EarlierFacts, EarlierGlobals DEF CloserInv
    <3>2. CASE /\ j = closeLoop.ep /\ tasks[j] # NoTasks
               /\ tasks'[j] = SubSeq(tasks[j], 1, Len(tasks[j]) - 1)
      <4>1. CASE tasks[j] = JustRegister
        <5>1. tasks'[j] = NoTasks
          BY <3>2, <4>1, TaskLists
        <5> QED
          BY <1>1, <2>1, <2>2, <3>2, <4>1, <5>1, TaskLists, EarlierGlobals DEF CloserInv
      <4>2. CASE tasks[j] = JustClose
        <5>1. tasks'[j] = NoTasks
          BY <3>2, <4>2, TaskLists
        <5> QED
          BY <1>1, <2>1, <2>2, <3>2, <4>2, <5>1, TaskLists, EarlierGlobals DEF CloserInv
      <4>3. CASE tasks[j] = Both
        <5>1. tasks'[j] = JustRegister
          BY <3>2, <4>3, TaskLists
        <5> QED
          BY <1>1, <2>1, <2>2, <3>2, <4>3, <5>1, TaskLists, EarlierGlobals DEF CloserInv
      <4> QED
        BY <2>1, <3>2, <4>1, <4>2, <4>3
    <3> QED
      BY <2>2, <3>1, <3>2
  <2>4. BodyInv(j)'
    BY <1>1, <2>1, <2>2, TaskLists, EarlierFacts, EarlierGlobals DEF SetupInv, CloserInv
  <2>5. ServerInv(j)'
    BY <1>1, <2>1, <2>2, TaskLists, EarlierFacts, EarlierGlobals
       DEF SetupInv, CloserInv, ServerInv
  <2>6. ClientInv(j)'
    BY <1>1, <2>1, <2>2, TaskLists, EarlierFacts, EarlierGlobals
       DEF SetupInv, CloserInv, ClientInv
  <2> QED
    BY <2>3, <2>4, <2>5, <2>6
<1>3. \A j \in Eps : EpInv(j)'
  BY <1>2
<1>4. /\ (once = "done" => closeLoop.pc = "endpoint" /\ closeLoop.ep > endpoints)'
      /\ (role = "client" => endpoints <= 1)'
  BY <1>1, EarlierGlobals DEF CloseInv, SetupInv, CloserInv
<1> QED
  BY <1>3, <1>4 DEF CloseInv

(* Bind or Dial opens a socket, or closes all.                             *)
LEMMA ListenKeeps ==
  ASSUME LifecycleInv, CloseInv, Listen
  PROVE  CloseInv'
<1> USE DEF EpInv, TaskInv, BodyInv, AtRest, Released, RegisterQueued, RegisterRunning,
        CloseUnderWay, Reached, Passed, Cleared, Gone, Done, Closing, At
<1>1. /\ setup.pc = "listen"
      /\ once' = once /\ closeLoop' = closeLoop /\ role' = role
      /\ endpoints' = endpoints /\ onLoop' = onLoop
      /\ setup'.pc \in {"next", "listen", "error"}
      /\ endpoints = 0
  BY EarlierGlobals DEF Listen, At, SetupInv, setupVars, closeVars
<1>2. ASSUME NEW j \in Eps
      PROVE  EpInv(j)'
  <2>1. EpInv(j)
    BY DEF CloseInv
  <2>2. /\ alloc'[j] = alloc[j] /\ phase'[j] = phase[j] /\ closer'[j] = closer[j]
        /\ queued'[j] = queued[j] /\ registered'[j] = registered[j] /\ tasks'[j] = tasks[j]
        /\ run'[j] = run[j] /\ waiting'[j] = waiting[j] /\ reply'[j] = reply[j]
    BY <1>1, EarlierGlobals
       DEF Listen, At, SetupInv, LifecycleInv, TypeOK, ResourceTypes, LoopTypes, resVars,
           loopVars
  <2>3. TaskInv(j)'
    BY <1>1, <2>1, <2>2, TaskLists, EarlierFacts, EarlierGlobals DEF SetupInv, CloserInv
  <2>4. BodyInv(j)'
    BY <1>1, <2>1, <2>2, TaskLists, EarlierFacts, EarlierGlobals DEF SetupInv, CloserInv
  <2>5. ServerInv(j)'
    BY <1>1, <2>1, <2>2, TaskLists, EarlierFacts, EarlierGlobals
       DEF SetupInv, CloserInv, ServerInv
  <2>6. ClientInv(j)'
    BY <1>1, <2>1, <2>2, TaskLists, EarlierFacts, EarlierGlobals
       DEF SetupInv, CloserInv, ClientInv
  <2> QED
    BY <2>3, <2>4, <2>5, <2>6
<1>3. \A j \in Eps : EpInv(j)'
  BY <1>2
<1>4. /\ (once = "done" => closeLoop.pc = "endpoint" /\ closeLoop.ep > endpoints)'
      /\ (role = "client" => endpoints <= 1)'
  BY <1>1, EarlierGlobals DEF CloseInv, SetupInv, CloserInv
<1> QED
  BY <1>3, <1>4 DEF CloseInv

(* The registration is posted.                                             *)
LEMMA StartEndpointKeeps ==
  ASSUME LifecycleInv, CloseInv, StartEndpoint
  PROVE  CloseInv'
<1> USE DEF EpInv, TaskInv, BodyInv, AtRest, Released, RegisterQueued, RegisterRunning,
        CloseUnderWay, Reached, Passed, Cleared, Gone, Done, Closing, At
<1>1. /\ setup.pc = "next" /\ endpoints = setup.ep - 1
      /\ once' = once /\ closeLoop' = closeLoop /\ role' = role
      /\ setup' = At("invoke", setup.ep)
      /\ endpoints' = setup.ep /\ onLoop' = onLoop \cup {setup.ep}
  BY EarlierGlobals DEF StartEndpoint, Post, SetupInv, setupVars, closeVars
<1>2. ASSUME NEW j \in Eps
      PROVE  EpInv(j)'
  <2>1. EpInv(j)
    BY DEF CloseInv
  <2>2. /\ tasks'[j] = IF j = setup.ep THEN Append(tasks[j], "register") ELSE tasks[j]
        /\ waiting'[j] = IF j = setup.ep THEN "register" ELSE waiting[j]
        /\ sock'[j] = sock[j] /\ alloc'[j] = alloc[j] /\ phase'[j] = phase[j]
        /\ closer'[j] = closer[j] /\ queued'[j] = queued[j] /\ registered'[j] = registered[j]
        /\ run'[j] = run[j] /\ reply'[j] = reply[j]
    BY <1>1, EarlierGlobals
       DEF StartEndpoint, Post, SetupInv, LifecycleInv, TypeOK, ResourceTypes, LoopTypes,
           resVars, loopVars
  <2>3. TaskInv(j)'
    <3>1. CASE j = setup.ep
      <4>1. /\ j > endpoints /\ j \notin onLoop
        BY <1>1, <3>1, EarlierGlobals DEF CloserInv
      <4>2. AtRest(j) /\ waiting[j] = "none" /\ reply[j] = "none"
        BY <2>1, <4>1
      <4>3. tasks'[j] = JustRegister /\ run'[j] = "idle" /\ waiting'[j] = "register"
        BY <2>2, <3>1, <4>2, TaskLists
      <4>4. setup' = At("invoke", j) /\ j \in onLoop' /\ ~registered'[j] /\ reply'[j] = "none"
        BY <1>1, <2>2, <3>1, <4>2
      <4> QED
        BY <4>3, <4>4, TaskLists
    <3>2. CASE j # setup.ep
      <4>1. /\ tasks'[j] = tasks[j] /\ waiting'[j] = waiting[j] /\ (j \in onLoop <=> j \in onLoop')
        BY <1>1, <2>2, <3>2
      <4>2. waiting[j] # "register"
        BY <1>1, <2>1
      <4> QED
        BY <1>1, <2>1, <2>2, <4>1, <4>2
    <3> QED
      BY <3>1, <3>2
  <2>4. BodyInv(j)'
    BY <1>1, <2>1, <2>2, TaskLists, EarlierFacts, EarlierGlobals DEF SetupInv, CloserInv
  <2>5. ServerInv(j)'
    BY <1>1, <2>1, <2>2, TaskLists, EarlierFacts, EarlierGlobals
       DEF SetupInv, CloserInv, ServerInv
  <2>6. ClientInv(j)'
    BY <1>1, <2>1, <2>2, TaskLists, EarlierFacts, EarlierGlobals
       DEF SetupInv, CloserInv, ClientInv
  <2> QED
    BY <2>3, <2>4, <2>5, <2>6
<1>3. \A j \in Eps : EpInv(j)'
  BY <1>2
<1>4. /\ (once = "done" => closeLoop.pc = "endpoint" /\ closeLoop.ep > endpoints)'
      /\ (role = "client" => endpoints <= 1)'
  BY <1>1, EarlierGlobals DEF CloseInv, SetupInv, CloserInv
<1> QED
  BY <1>3, <1>4 DEF CloseInv

(* There is no loop.                                                       *)
LEMMA NextFailsKeeps ==
  ASSUME LifecycleInv, CloseInv, NextFails
  PROVE  CloseInv'
<1> USE DEF EpInv, TaskInv, BodyInv, AtRest, Released, RegisterQueued, RegisterRunning,
        CloseUnderWay, Reached, Passed, Cleared, Gone, Done, Closing, At
<1>1. /\ setup.pc = "next" /\ endpoints = setup.ep - 1
      /\ once' = once /\ closeLoop' = closeLoop /\ role' = role
      /\ onLoop' = onLoop
      /\ \/ role = "server" /\ setup' = At("failing", setup.ep) /\ endpoints' = setup.ep
         \/ role # "server" /\ setup' = At("error", setup.ep) /\ endpoints' = endpoints
  BY EarlierGlobals DEF NextFails, SetupInv, setupVars, closeVars
<1>2. ASSUME NEW j \in Eps
      PROVE  EpInv(j)'
  <2>1. EpInv(j)
    BY DEF CloseInv
  <2>2. /\ alloc'[j] = alloc[j] /\ phase'[j] = phase[j] /\ closer'[j] = closer[j]
        /\ queued'[j] = queued[j] /\ registered'[j] = registered[j] /\ tasks'[j] = tasks[j]
        /\ run'[j] = run[j] /\ waiting'[j] = waiting[j] /\ reply'[j] = reply[j]
    BY <1>1, EarlierGlobals
       DEF NextFails, SetupInv, LifecycleInv, TypeOK, ResourceTypes, LoopTypes, resVars,
           loopVars
  <2>3. TaskInv(j)'
    <3>1. waiting[j] # "register" /\ setup.pc \notin {"invoke"}
      BY <1>1, <2>1
    <3> QED
      BY <1>1, <2>1, <2>2, <3>1
  <2>4. BodyInv(j)'
    <3>1. sock'[j] = sock[j] \/ sock'[j] = "closed"
      BY DEF NextFails, CloseSockets
    <3>2. setup.pc \notin {"closing", "error"}
      BY <1>1
    <3>3. (phase[j] \in {"closingAlloc", "closed"} => sock[j] = "closed")'
      BY <2>1, <2>2, <3>1
    <3> QED
      BY <1>1, <2>1, <2>2, <3>2, <3>3
  <2>5. ServerInv(j)'
    BY <1>1, <2>1, <2>2, TaskLists, EarlierFacts, EarlierGlobals
       DEF SetupInv, CloserInv, ServerInv
  <2>6. ClientInv(j)'
    BY <1>1, <2>1, <2>2, TaskLists, EarlierFacts, EarlierGlobals
       DEF SetupInv, CloserInv, ClientInv
  <2> QED
    BY <2>3, <2>4, <2>5, <2>6
<1>3. \A j \in Eps : EpInv(j)'
  BY <1>2
<1>4. /\ (once = "done" => closeLoop.pc = "endpoint" /\ closeLoop.ep > endpoints)'
      /\ (role = "client" => endpoints <= 1)'
  BY <1>1, EarlierGlobals DEF CloseInv, SetupInv, CloserInv
<1> QED
  BY <1>3, <1>4 DEF CloseInv

(* Bind or Dial has an answer of the loop.                                 *)
LEMMA RegisteredKeeps ==
  ASSUME LifecycleInv, CloseInv, Registered
  PROVE  CloseInv'
<1> USE DEF EpInv, TaskInv, BodyInv, AtRest, Released, RegisterQueued, RegisterRunning,
        CloseUnderWay, Reached, Passed, Cleared, Gone, Done, Closing, At
<1>1. /\ setup.pc = "invoke" /\ waiting[setup.ep] = "none"
      /\ once' = once /\ closeLoop' = closeLoop /\ role' = role
      /\ onLoop' = onLoop /\ endpoints' = endpoints
      /\ \/ reply[setup.ep] = "error" /\ setup' = At("failing", setup.ep)
         \/ reply[setup.ep] = "ok" /\ setup' = At("next", setup.ep + 1)
         \/ reply[setup.ep] # "error" /\ setup' = At("ok", setup.ep)
  BY EarlierGlobals DEF Registered, setupVars, closeVars
<1>2. ASSUME NEW j \in Eps
      PROVE  EpInv(j)'
  <2>1. EpInv(j)
    BY DEF CloseInv
  <2>2. /\ sock'[j] = sock[j] /\ alloc'[j] = alloc[j] /\ phase'[j] = phase[j]
        /\ closer'[j] = closer[j] /\ queued'[j] = queued[j] /\ registered'[j] = registered[j]
        /\ tasks'[j] = tasks[j] /\ run'[j] = run[j] /\ waiting'[j] = waiting[j]
        /\ reply'[j] = reply[j]
    BY <1>1, EarlierGlobals
       DEF Registered, LifecycleInv, TypeOK, ResourceTypes, LoopTypes, resVars, loopVars
  <2>3. TaskInv(j)'
    BY <1>1, <2>1, <2>2, TaskLists, EarlierFacts, EarlierGlobals DEF SetupInv, CloserInv
  <2>4. BodyInv(j)'
    BY <1>1, <2>1, <2>2, TaskLists, EarlierFacts, EarlierGlobals DEF SetupInv, CloserInv
  <2>5. ServerInv(j)'
    BY <1>1, <2>1, <2>2, TaskLists, EarlierFacts, EarlierGlobals
       DEF SetupInv, CloserInv, ServerInv
  <2>6. ClientInv(j)'
    BY <1>1, <2>1, <2>2, TaskLists, EarlierFacts, EarlierGlobals
       DEF SetupInv, CloserInv, ClientInv
  <2> QED
    BY <2>3, <2>4, <2>5, <2>6
<1>3. \A j \in Eps : EpInv(j)'
  BY <1>2
<1>4. /\ (once = "done" => closeLoop.pc = "endpoint" /\ closeLoop.ep > endpoints)'
      /\ (role = "client" => endpoints <= 1)'
  BY <1>1, EarlierGlobals DEF CloseInv, SetupInv, CloserInv
<1> QED
  BY <1>3, <1>4 DEF CloseInv

(* The loop does not answer.                                               *)
LEMMA RegistrationAbandonedKeeps ==
  ASSUME LifecycleInv, CloseInv, RegistrationAbandoned
  PROVE  CloseInv'
<1> USE DEF EpInv, TaskInv, BodyInv, AtRest, Released, RegisterQueued, RegisterRunning,
        CloseUnderWay, Reached, Passed, Cleared, Gone, Done, Closing, At
<1>1. /\ setup.pc = "invoke"
      /\ once' = once /\ closeLoop' = closeLoop /\ role' = role
      /\ onLoop' = onLoop /\ endpoints' = endpoints
      /\ setup' = At("failing", setup.ep)
  BY EarlierGlobals DEF RegistrationAbandoned, Abandon, setupVars, closeVars
<1>2. ASSUME NEW j \in Eps
      PROVE  EpInv(j)'
  <2>1. EpInv(j)
    BY DEF CloseInv
  <2>2. /\ waiting'[j] = IF j = setup.ep THEN "none" ELSE waiting[j]
        /\ reply'[j] = IF j = setup.ep THEN "timeout" ELSE reply[j]
        /\ j = setup.ep => waiting[j] # "none"
        /\ \/ tasks'[j] = tasks[j]
           \/ /\ j = setup.ep /\ tasks[j] # NoTasks
              /\ tasks'[j] = SubSeq(tasks[j], 1, Len(tasks[j]) - 1)
        /\ sock'[j] = sock[j] /\ alloc'[j] = alloc[j] /\ phase'[j] = phase[j]
        /\ closer'[j] = closer[j] /\ queued'[j] = queued[j] /\ registered'[j] = registered[j]
        /\ run'[j] = run[j]
    <3>1. LoopTypes /\ Abandon(setup.ep)
      BY DEF LifecycleInv, TypeOK, RegistrationAbandoned
    <3>2. /\ sock'[j] = sock[j] /\ alloc'[j] = alloc[j] /\ phase'[j] = phase[j]
          /\ closer'[j] = closer[j] /\ queued'[j] = queued[j] /\ registered'[j] = registered[j]
          /\ run'[j] = run[j]
      BY DEF RegistrationAbandoned, resVars
    <3>3. /\ j = setup.ep =>
               /\ waiting[j] # "none" /\ waiting'[j] = "none" /\ reply'[j] = "timeout"
               /\ \/ tasks'[j] = tasks[j]
                  \/ /\ tasks[j] # NoTasks
                     /\ tasks'[j] = SubSeq(tasks[j], 1, Len(tasks[j]) - 1)
          /\ j # setup.ep =>
               tasks'[j] = tasks[j] /\ waiting'[j] = waiting[j] /\ reply'[j] = reply[j]
      BY <3>1, AbandonSeen
    <3> QED
      BY <3>2, <3>3
  <2>3. TaskInv(j)'
    <3>1. CASE tasks'[j] = tasks[j]
      BY <1>1, <2>1, <2>2, <3>1, EarlierFacts, EarlierGlobals DEF CloserInv
    <3>2. CASE /\ j = setup.ep /\ tasks[j] # NoTasks
               /\ tasks'[j] = SubSeq(tasks[j], 1, Len(tasks[j]) - 1)
      <4>1. CASE tasks[j] = JustRegister
        <5>1. tasks'[j] = NoTasks
          BY <3>2, <4>1, TaskLists
        <5> QED
          BY <1>1, <2>1, <2>2, <3>2, <4>1, <5>1, TaskLists, EarlierGlobals DEF CloserInv
      <4>2. CASE tasks[j] = JustClose
        <5>1. tasks'[j] = NoTasks
          BY <3>2, <4>2, TaskLists
        <5> QED
          BY <1>1, <2>1, <2>2, <3>2, <4>2, <5>1, TaskLists, EarlierGlobals DEF CloserInv
      <4>3. CASE tasks[j] = Both
        <5>1. tasks'[j] = JustRegister
          BY <3>2, <4>3, TaskLists
        <5> QED
          BY <1>1, <2>1, <2>2, <3>2, <4>3, <5>1, TaskLists, EarlierGlobals DEF CloserInv
      <4> QED
        BY <2>1, <3>2, <4>1, <4>2, <4>3
    <3> QED
      BY <2>2, <3>1, <3>2
  <2>4. BodyInv(j)'
    BY <1>1, <2>1, <2>2, TaskLists, EarlierFacts, EarlierGlobals DEF SetupInv, CloserInv
  <2>5. ServerInv(j)'
    BY <1>1, <2>1, <2>2, TaskLists, EarlierFacts, EarlierGlobals
       DEF SetupInv, CloserInv, ServerInv
  <2>6. ClientInv(j)'
    BY <1>1, <2>1, <2>2, TaskLists, EarlierFacts, EarlierGlobals
       DEF SetupInv, CloserInv, ClientInv
  <2> QED
    BY <2>3, <2>4, <2>5, <2>6
<1>3. \A j \in Eps : EpInv(j)'
  BY <1>2
<1>4. /\ (once = "done" => closeLoop.pc = "endpoint" /\ closeLoop.ep > endpoints)'
      /\ (role = "client" => endpoints <= 1)'
  BY <1>1, EarlierGlobals DEF CloseInv, SetupInv, CloserInv
<1> QED
  BY <1>3, <1>4 DEF CloseInv

(* Dial closes its endpoint.                                               *)
LEMMA DialFailsKeeps ==
  ASSUME LifecycleInv, CloseInv, DialFails
  PROVE  CloseInv'
<1> USE DEF EpInv, TaskInv, BodyInv, AtRest, Released, RegisterQueued, RegisterRunning,
        CloseUnderWay, Reached, Passed, Cleared, Gone, Done, Closing, At
<1>1. /\ setup.pc = "failing" /\ role = "client"
      /\ once' = once /\ closeLoop' = closeLoop /\ role' = role
      /\ onLoop' = onLoop /\ endpoints' = endpoints
      /\ setup' = At("closing", setup.ep)
  BY EarlierGlobals DEF DialFails, EpClose, setupVars, closeVars
<1>2. ASSUME NEW j \in Eps
      PROVE  EpInv(j)'
  <2>1. EpInv(j)
    BY DEF CloseInv
  <2>2. /\ phase'[j] = IF j = setup.ep /\ phase[j] = "open" THEN "releasing" ELSE phase[j]
        /\ closer'[j] = IF j = setup.ep /\ phase[j] = "open" THEN "caller" ELSE closer[j]
        /\ sock'[j] = sock[j] /\ alloc'[j] = alloc[j] /\ queued'[j] = queued[j]
        /\ registered'[j] = registered[j] /\ tasks'[j] = tasks[j] /\ run'[j] = run[j]
        /\ waiting'[j] = waiting[j] /\ reply'[j] = reply[j]
    BY <1>1, EarlierGlobals
       DEF DialFails, EpClose, LifecycleInv, TypeOK, ResourceTypes, LoopTypes, resVars,
           loopVars
  <2>3. TaskInv(j)'
    BY <1>1, <2>1, <2>2, TaskLists, EarlierFacts, EarlierGlobals DEF SetupInv, CloserInv
  <2>4. BodyInv(j)'
    <3>1. endpoints = setup.ep /\ j \in Nat /\ setup.ep = 1
      BY <1>1, EarlierGlobals DEF SetupInv
    <3>2. CASE j = setup.ep /\ phase[j] = "open"
      <4>1. /\ waiting[j] = "none" /\ reply[j] \in {"timeout", "error"}
        BY <1>1, <2>1, <3>1, <3>2 DEF ClientInv
      <4>2. phase'[j] = "releasing" /\ closer'[j] = "caller"
        BY <2>2, <3>2
      <4> QED
        BY <1>1, <2>2, <4>1, <4>2
    <3>3. CASE ~(j = setup.ep /\ phase[j] = "open")
      <4>1. phase'[j] = phase[j] /\ closer'[j] = closer[j]
        BY <2>2, <3>3
      <4> QED
        BY <1>1, <2>1, <2>2, <4>1
    <3> QED
      BY <3>2, <3>3
  <2>5. ServerInv(j)'
    BY <1>1, <2>1, <2>2, TaskLists, EarlierFacts, EarlierGlobals
       DEF SetupInv, CloserInv, ServerInv
  <2>6. ClientInv(j)'
    BY <1>1, <2>1, <2>2, TaskLists, EarlierFacts, EarlierGlobals
       DEF SetupInv, CloserInv, ClientInv
  <2> QED
    BY <2>3, <2>4, <2>5, <2>6
<1>3. \A j \in Eps : EpInv(j)'
  BY <1>2
<1>4. /\ (once = "done" => closeLoop.pc = "endpoint" /\ closeLoop.ep > endpoints)'
      /\ (role = "client" => endpoints <= 1)'
  BY <1>1, EarlierGlobals DEF CloseInv, SetupInv, CloserInv
<1> QED
  BY <1>3, <1>4 DEF CloseInv

(* Bind or Dial returns its error.                                         *)
LEMMA SetupFailedKeeps ==
  ASSUME LifecycleInv, CloseInv, SetupFailed
  PROVE  CloseInv'
<1> USE DEF EpInv, TaskInv, BodyInv, AtRest, Released, RegisterQueued, RegisterRunning,
        CloseUnderWay, Reached, Passed, Cleared, Gone, Done, Closing, At
<1>1. /\ once' = once /\ closeLoop' = closeLoop /\ role' = role
      /\ onLoop' = onLoop /\ endpoints' = endpoints
      /\ setup' = At("error", setup.ep)
      /\ \/ role = "client" /\ setup.pc = "closing" /\ ~Closing(setup.ep, "caller")
         \/ role # "client" /\ setup.pc = "failing" /\ once = "done"
  BY EarlierGlobals DEF SetupFailed, setupVars, closeVars
<1>2. ASSUME NEW j \in Eps
      PROVE  EpInv(j)'
  <2>1. EpInv(j)
    BY DEF CloseInv
  <2>2. /\ sock'[j] = sock[j] /\ alloc'[j] = alloc[j] /\ phase'[j] = phase[j]
        /\ closer'[j] = closer[j] /\ queued'[j] = queued[j] /\ registered'[j] = registered[j]
        /\ tasks'[j] = tasks[j] /\ run'[j] = run[j] /\ waiting'[j] = waiting[j]
        /\ reply'[j] = reply[j]
    BY <1>1, EarlierGlobals
       DEF SetupFailed, LifecycleInv, TypeOK, ResourceTypes, LoopTypes, resVars, loopVars
  <2>3. TaskInv(j)'
    BY <1>1, <2>1, <2>2, TaskLists, EarlierFacts, EarlierGlobals DEF SetupInv, CloserInv
  <2>4. BodyInv(j)'
    BY <1>1, <2>1, <2>2, TaskLists, EarlierFacts, EarlierGlobals DEF SetupInv, CloserInv
  <2>5. ServerInv(j)'
    BY <1>1, <2>1, <2>2, TaskLists, EarlierFacts, EarlierGlobals
       DEF SetupInv, CloserInv, ServerInv
  <2>6. ClientInv(j)'
    BY <1>1, <2>1, <2>2, TaskLists, EarlierFacts, EarlierGlobals
       DEF SetupInv, CloserInv, ClientInv
  <2> QED
    BY <2>3, <2>4, <2>5, <2>6
<1>3. \A j \in Eps : EpInv(j)'
  BY <1>2
<1>4. /\ (once = "done" => closeLoop.pc = "endpoint" /\ closeLoop.ep > endpoints)'
      /\ (role = "client" => endpoints <= 1)'
  BY <1>1, EarlierGlobals DEF CloseInv, SetupInv, CloserInv
<1> QED
  BY <1>3, <1>4 DEF CloseInv
-----------------------------------------------------------------------------
(* Every step keeps the invariant.                                         *)
LEMMA CloseInvPreserved ==
  ASSUME LifecycleInv, CloseInv, [Next]_vars
  PROVE  CloseInv'
<1>1. CASE SetupStep
  BY <1>1, ListenKeeps, StartEndpointKeeps, NextFailsKeeps, RegisteredKeeps,
     RegistrationAbandonedKeeps, DialFailsKeeps, SetupFailedKeeps DEF SetupStep
<1>2. ASSUME NEW c \in Callers, CallClose(c) \/ CloseReturn(c)
      PROVE  CloseInv'
  <2>1. UNCHANGED globals /\ UNCHANGED <<resVars, loopVars>>
    BY <1>2 DEF CallClose, CloseReturn, globals, setupVars
  <2> QED
    BY <2>1, CallersKeep
<1>3. CASE CloserStep
  BY <1>2, <1>3, OnceEnterKeeps, CloseEndpointKeeps, CloseInvokedKeeps, CloseAbandonedKeeps,
     CloseSelfDoneKeeps, OnceLeaveKeeps DEF CloserStep
<1>4. ASSUME NEW i \in Eps, LoopStep(i)
      PROVE  CloseInv'
  BY <1>4, RunTaskKeeps, CheckServerKeeps, AcquireAllocatorKeeps, InitializeKeeps,
     RegisterEndpointKeeps, ActivatedKeeps, RegistrationFailsKeeps, DeregisterKeeps,
     CloseTaskDoneKeeps, WriteEnqueuesKeeps DEF LoopStep
<1>5. ASSUME NEW i \in Eps, HandlerCloses(i) \/ WriteChecks(i) \/ CloseBody(i)
      PROVE  CloseInv'
  BY <1>5, HandlerClosesKeeps, WriteChecksKeeps, CloseBodyKeeps
<1>6. CASE UNCHANGED vars
  <2>1. UNCHANGED globals /\ UNCHANGED <<resVars, loopVars>>
    BY <1>6 DEF vars, globals, setupVars, closeVars
  <2> QED
    BY <2>1, CallersKeep
<1> QED
  BY <1>1, <1>2, <1>3, <1>4, <1>5, <1>6 DEF Next

(* What is queued on a loop, who waits for it and what Close has done so   *)
(* far fit together in every reachable state: see TaskInv to ClientInv.    *)
THEOREM CloseInvariance == Spec => []CloseInv
<1>1. Init => CloseInv
  <2> SUFFICES ASSUME Init PROVE CloseInv
    OBVIOUS
  <2>1. role \in Roles /\ endpoints = 0 /\ once = "fresh" /\ onLoop = {}
        /\ setup.pc = "listen" /\ closeLoop.pc = "none"
    BY DEF Init, At
  <2>2. ASSUME NEW i \in Eps
        PROVE  EpInv(i)
    <3>1. /\ sock[i] = "none" /\ alloc[i] = "none" /\ phase[i] = "open" /\ closer[i] = "none"
          /\ queued[i] = 0 /\ registered[i] = FALSE /\ tasks[i] = NoTasks /\ run[i] = "idle"
          /\ waiting[i] = "none" /\ reply[i] = "none"
      BY DEF Init, NoTasks
    <3>2. i \notin onLoop /\ AtRest(i) /\ ~RegisterQueued(i) /\ ~CloseUnderWay(i)
      BY <2>1, <3>1, TaskLists DEF AtRest, RegisterQueued, CloseUnderWay
    <3>3. TaskInv(i)
      BY <2>1, <3>1, <3>2 DEF TaskInv, RegisterRunning
    <3>4. BodyInv(i)
      BY <3>1, <3>2 DEF BodyInv, Cleared
    <3>5. ServerInv(i)
      BY <2>1 DEF ServerInv, At
    <3>6. ClientInv(i)
      BY <2>1 DEF ClientInv, At
    <3> QED
      BY <3>3, <3>4, <3>5, <3>6 DEF EpInv
  <2> QED
    BY <2>1, <2>2 DEF CloseInv
<1>2. LifecycleInv /\ CloseInv /\ [Next]_vars => CloseInv'
  BY CloseInvPreserved
<1> QED
  BY <1>1, <1>2, Invariance, PTL DEF Spec

(* When Server.Close returns to any of its callers, or Bind or Dial fails, *)
(* each endpoint whose loop answered in time is released and no longer     *)
(* registered, for every number of sockets and callers, every failure and  *)
(* every timeout of the other loops. The one exception, the endpoint of a  *)
(* Dial that failed after it was registered, stays registered: of it only  *)
(* descriptor and allocator are proved to be closed, or being closed by its*)
(* loop.                                                                   *)
THEOREM CloseReleasesAll == Spec => []CloseIsComplete
<1>1. LifecycleInv /\ CloseInv => CloseIsComplete
  <2> SUFFICES ASSUME LifecycleInv, CloseInv, CloseOver, NEW i \in 1 .. endpoints,
                      reply[i] # "timeout"
               PROVE  /\ registered[i] => role = "client"
                      /\ ~registered[i] => Released(i)
                      /\ registered[i] /\ ~Closing(i, "loop")
                           => sock[i] = "closed" /\ alloc[i] # "open"
    BY DEF CloseIsComplete
  <2>1. i \in Eps /\ i <= endpoints /\ endpoints # 0 /\ role \in {"server", "client"}
    BY LifecycleAssumption DEF LifecycleInv, TypeOK, SetupTypes, Eps
  <2>2. SetupInv /\ CloserInv /\ EpInv(i)
    BY <2>1 DEF LifecycleInv, CloseInv
  <2>3. \/ role = "server" /\ once = "done"
        \/ role = "client" /\ setup.pc = "error"
    BY <2>1, <2>2 DEF CloseOver, SetupInv, CloserInv
  <2>4. CASE role = "server" /\ once = "done"
    <3>1. once # "fresh" /\ closeLoop.ep > endpoints
      BY <2>4 DEF CloseInv
    <3>2. closeLoop.ep \in 1 .. N + 1 /\ endpoints \in 0 .. N /\ N \in Nat
      BY LifecycleAssumption DEF LifecycleInv, TypeOK, SetupTypes, CloserTypes
    <3>3. i < closeLoop.ep
      BY <2>1, <3>1, <3>2
    <3>4. Done(i) \/ Gone(i)
      BY <2>1, <2>2, <3>1, <3>3 DEF EpInv, ServerInv
    <3> QED
      BY <3>4 DEF Done, Gone, AtRest
  <2>5. CASE role = "client" /\ setup.pc = "error"
    <3>1. phase[i] # "open"
      BY <2>1, <2>2, <2>5 DEF SetupInv
    <3>2. closer[i] \in {"loop", "caller"}
      BY <2>1, <2>2, <3>1, EarlierFacts DEF EpInv, BodyInv
    <3>3. ~Closing(i, "caller")
      BY <2>1, <2>2, <2>5 DEF EpInv, ClientInv
    <3>4. ASSUME ~registered[i]
          PROVE  Released(i)
      <4>1. phase[i] \in {"open", "closed"} \/ closer[i] = "caller"
        BY <2>1, <2>2, <2>5, <3>4 DEF EpInv, ClientInv
      <4>2. phase[i] = "closed"
        BY <3>1, <3>3, <4>1 DEF Closing
      <4>3. Cleared(i) /\ sock[i] = "closed"
        BY <2>2, <3>2, <3>4, <4>2 DEF EpInv, BodyInv
      <4> QED
        BY <4>2, <4>3 DEF Cleared, Released
    <3>5. ASSUME registered[i], ~Closing(i, "loop")
          PROVE  sock[i] = "closed" /\ alloc[i] # "open"
      <4>1. phase[i] = "closed"
        BY <3>1, <3>2, <3>3, <3>5 DEF Closing
      <4> QED
        BY <2>2, <3>2, <4>1 DEF EpInv, BodyInv, Cleared
    <3> QED
      BY <2>5, <3>4, <3>5
  <2> QED
    BY <2>3, <2>4, <2>5
<1> QED
  BY <1>1, Invariance, CloseInvariance, PTL
=============================================================================

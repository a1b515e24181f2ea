--------------------------- MODULE GcService_proofs --------------------------
(***************************************************************************)
(* For every number of controllers and of starts, whether or not the       *)
(* network thread feeds the parser: the cleaner thread is unique, no       *)
(* wake-up is lost and a shutdown holds.                                   *)
(***************************************************************************)
EXTENDS GcService, TLAPS

\* At first there is no cleaner, and nobody has locked anything.
LEMMA InitEstablishes == Init => GInv
BY ThreadsAssumption
   DEF Init, GInv, TypeOK, OneCleaner, NoLostWakeup, Alive, Joinable,
       CallSteps, CleanerSteps, CallLocked, CleanerLocked

(***************************************************************************)
(* The controllers.                                                        *)
(***************************************************************************)

\* While c is in "test" or "spawn" it owns m_cv_mutex, so no other controller
\* is there: that there is no cleaner, once seen, stays true up to the spawn.
LEMMA SpawnAlone ==
    ASSUME GInv, NEW c \in Controllers, NEW d \in Controllers,
           call[c] \in CallLocked, call[d] \in CallLocked
    PROVE  c = d
BY DEF GInv, TypeOK

\* StartArm takes the flag down, which can only hurt the parts that say that
\* it is down.  It has just seen that no cleaner can be joined.
LEMMA StartArmPreserves ==
    ASSUME GInv, NEW c \in Controllers, StartArm(c)
    PROVE  GInv'
<1>1. TypeOK'
  BY ThreadsAssumption DEF GInv, TypeOK, StartArm, Goto, CallSteps, CallLocked
<1>2. OneCleaner'
  BY DEF GInv, StartArm, OneCleaner, Alive
<1>3. NoLostWakeup'
  BY DEF StartArm, NoLostWakeup
<1>4. \A d \in Controllers : call'[d] = "spawn" => ~ Joinable'
  BY DEF GInv, TypeOK, StartArm, Goto, Joinable
<1>5. ~ m_shutdown_requested'
  BY DEF StartArm
<1> QED BY <1>1, <1>2, <1>3, <1>4, <1>5 DEF GInv

\* StartSpawn makes w the one cleaner: there was none, since none could be
\* joined, and no second controller is about to create another.
LEMMA StartSpawnPreserves ==
    ASSUME GInv, NEW c \in Controllers, NEW w \in Cleaners, StartSpawn(c, w)
    PROVE  GInv'
<1>1. TypeOK'
  BY ThreadsAssumption
     DEF GInv, TypeOK, StartSpawn, Goto, Reach, CallSteps, CleanerSteps,
         CallLocked, CleanerLocked
<1>2. \A v \in Cleaners : ~ Alive(v)
  BY ThreadsAssumption DEF GInv, StartSpawn, OneCleaner, Joinable
<1>3. OneCleaner'
  BY <1>2 DEF GInv, TypeOK, StartSpawn, Reach, OneCleaner, Alive
<1>4. NoLostWakeup'
  BY <1>2 DEF GInv, TypeOK, StartSpawn, Goto, Reach, NoLostWakeup, Alive
<1>5. \A d \in Controllers : call'[d] # "spawn"
  <2> TAKE d \in Controllers
  <2>1. call[d] = "spawn" => d = c
    BY SpawnAlone DEF StartSpawn, CallLocked
  <2> QED BY <2>1 DEF GInv, TypeOK, StartSpawn, Goto
<1>6. \A v \in Cleaners :
         at'[v] \notin {"block", "tcp", "sessions", "groups"}
  BY <1>2 DEF GInv, TypeOK, StartSpawn, Reach, Alive
<1> QED BY <1>1, <1>3, <1>4, <1>5, <1>6 DEF GInv

\* StopFlag puts the flag up, which can hurt the parts that say that it is
\* down.  But m_cv_mutex is free, so that no cleaner is between its test of the
\* flag and its sleep or its pass; and c has yet to notify those asleep.
LEMMA StopFlagPreserves ==
    ASSUME GInv, NEW c \in Controllers, StopFlag(c)
    PROVE  GInv'
<1>1. TypeOK'
  BY ThreadsAssumption
     DEF GInv, TypeOK, StopFlag, Goto, handle, CallSteps, CallLocked
<1>2. OneCleaner'
  BY DEF GInv, StopFlag, handle, OneCleaner, Alive
<1>3. NoLostWakeup'
  BY DEF GInv, TypeOK, StopFlag, Goto, NoLostWakeup
<1>4. \A d \in Controllers : call'[d] = "spawn" => ~ Joinable'
  BY DEF GInv, TypeOK, StopFlag, Goto, handle, Joinable
<1>5. \A w \in Cleaners : at[w] \notin CleanerLocked
  BY ThreadsAssumption DEF GInv, TypeOK, StopFlag
<1>6. \A w \in Cleaners :
         at'[w] \notin {"block", "tcp", "sessions", "groups"}
  BY <1>5 DEF StopFlag, CleanerLocked
<1> QED BY <1>1, <1>2, <1>3, <1>4, <1>6 DEF GInv

\* StopNotify leaves nobody asleep, so that c need not be at it any more.
LEMMA StopNotifyPreserves ==
    ASSUME GInv, NEW c \in Controllers, StopNotify(c)
    PROVE  GInv'
<1>1. TypeOK'
  BY ThreadsAssumption
     DEF GInv, TypeOK, StopNotify, Goto, handle, CallSteps, CleanerSteps,
         CallLocked, CleanerLocked
<1>2. OneCleaner'
  BY DEF GInv, StopNotify, handle, OneCleaner, Alive
<1>3. \A w \in Cleaners : at'[w] # "wait"
  BY DEF StopNotify
<1>4. \A d \in Controllers : call'[d] = "spawn" => ~ Joinable'
  BY DEF GInv, TypeOK, StopNotify, Goto, handle, Joinable
<1>5. \A w \in Cleaners :
         at'[w] \in {"block", "tcp", "sessions", "groups"}
           => ~ m_shutdown_requested'
  BY DEF GInv, StopNotify
<1> QED BY <1>1, <1>2, <1>3, <1>4, <1>5 DEF GInv, NoLostWakeup

\* StopJoin empties the handle; the cleaner it stood for is done.
LEMMA StopJoinPreserves ==
    ASSUME GInv, NEW c \in Controllers, StopJoin(c)
    PROVE  GInv'
<1>1. TypeOK'
  BY DEF GInv, TypeOK, StopJoin, Goto, CallSteps, CallLocked
<1>2. OneCleaner'
  BY DEF GInv, StopJoin, OneCleaner, Alive
<1>3. NoLostWakeup'
  BY DEF GInv, TypeOK, StopJoin, Goto, NoLostWakeup
<1>4. ~ Joinable'
  BY DEF StopJoin, Joinable
<1>5. \A w \in Cleaners :
         at'[w] \in {"block", "tcp", "sessions", "groups"}
           => ~ m_shutdown_requested'
  BY DEF GInv, StopJoin
<1> QED BY <1>1, <1>2, <1>3, <1>4, <1>5 DEF GInv

\* The other steps of a controller move it, and at most lock or unlock.
LEMMA ControlPreserves ==
    ASSUME GInv, NEW c \in Controllers, Control(c)
    PROVE  GInv'
<1> USE ThreadsAssumption
    DEF GInv, TypeOK, OneCleaner, NoLostWakeup, Alive, Joinable, handle,
        CallSteps, CallLocked, Goto
<1>1. CASE StartCall(c)
  BY <1>1 DEF StartCall
<1>2. CASE StartLock(c)
  BY <1>2 DEF StartLock
<1>3. CASE StartRefused(c)
  BY <1>3 DEF StartRefused
<1>4. CASE StartArm(c)
  BY <1>4, StartArmPreserves
<1>5. CASE \E w \in Cleaners : StartSpawn(c, w)
  BY <1>5, StartSpawnPreserves
<1>6. CASE StopCall(c)
  BY <1>6 DEF StopCall
<1>7. CASE StopFlag(c)
  BY <1>7, StopFlagPreserves
<1>8. CASE StopNotify(c)
  BY <1>8, StopNotifyPreserves
<1>9. CASE StopTest(c)
  BY <1>9 DEF StopTest
<1>10. CASE StopJoin(c)
  BY <1>10, StopJoinPreserves
<1>11. CASE StopJoinThrows(c)
  BY <1>11 DEF StopJoinThrows
<1> QED
  BY <1>1, <1>2, <1>3, <1>4, <1>5, <1>6, <1>7, <1>8, <1>9, <1>10, <1>11
     DEF Control

(***************************************************************************)
(* The cleaners and the network thread.                                    *)
(***************************************************************************)

\* A cleaner goes to sleep with the flag down, and none but the owner of
\* m_cv_mutex can put it up: nobody has notified in between.
LEMMA WaitBlockPreserves ==
    ASSUME GInv, NEW w \in Cleaners, WaitBlock(w)
    PROVE  GInv'
<1>1. TypeOK'
  BY ThreadsAssumption
     DEF GInv, TypeOK, WaitBlock, Reach, handle, CleanerSteps, CleanerLocked
<1>2. OneCleaner'
  BY DEF GInv, TypeOK, WaitBlock, Reach, handle, OneCleaner, Alive
<1>3. ~ m_shutdown_requested'
  BY DEF GInv, WaitBlock
<1>4. \A c \in Controllers : call'[c] = "spawn" => ~ Joinable'
  BY DEF GInv, WaitBlock, handle, Joinable
<1> QED BY <1>1, <1>2, <1>3, <1>4 DEF GInv, NoLostWakeup

LEMMA WorkPreserves ==
    ASSUME GInv, NEW w \in Cleaners, Work(w)
    PROVE  GInv'
<1> USE ThreadsAssumption
    DEF GInv, TypeOK, OneCleaner, NoLostWakeup, Alive, Joinable, handle,
        CleanerSteps, CleanerLocked, Reach
<1>1. CASE LoopTest(w)
  BY <1>1 DEF LoopTest
<1>2. CASE LoopLock(w)
  BY <1>2 DEF LoopLock
<1>3. CASE WaitBreak(w)
  BY <1>3 DEF WaitBreak
<1>4. CASE WaitMore(w)
  BY <1>4 DEF WaitMore
<1>5. CASE WaitOver(w)
  BY <1>5 DEF WaitOver
<1>6. CASE WaitBlock(w)
  BY <1>6, WaitBlockPreserves
<1>7. CASE WaitDue(w)
  BY <1>7 DEF WaitDue
<1>8. CASE WaitWake(w)
  BY <1>8 DEF WaitWake
<1>9. CASE WaitRelock(w)
  BY <1>9 DEF WaitRelock
<1>10. CASE CleanSessions(w)
  BY <1>10 DEF CleanSessions
<1>11. CASE SessionsCleaned(w)
  BY <1>11 DEF SessionsCleaned
<1>12. CASE GroupsCleaned(w)
  BY <1>12 DEF GroupsCleaned
<1>13. CASE LoopNext(w)
  BY <1>13 DEF LoopNext
<1> QED
  BY <1>1, <1>2, <1>3, <1>4, <1>5, <1>6, <1>7, <1>8, <1>9, <1>10, <1>11,
     <1>12, <1>13 DEF Work

LEMMA NetPreserves == GInv /\ (NetEnter \/ NetReturn) => GInv'
BY ThreadsAssumption
   DEF NetEnter, NetReturn, GInv, TypeOK, OneCleaner, NoLostWakeup, Alive,
       Joinable, handle

LEMMA StepPreserves == GInv /\ [Next]_vars => GInv'
<1> SUFFICES ASSUME GInv, [Next]_vars PROVE GInv'
  OBVIOUS
<1>1. CASE \E c \in Controllers : Control(c)
  BY <1>1, ControlPreserves
<1>2. CASE \E w \in Cleaners : Work(w)
  BY <1>2, WorkPreserves
<1>3. CASE NetEnter \/ NetReturn
  BY <1>3, NetPreserves
<1>4. CASE UNCHANGED vars
  BY <1>4 DEF vars, handle, GInv, TypeOK, OneCleaner, NoLostWakeup, Alive,
              Joinable
<1> QED BY <1>1, <1>2, <1>3, <1>4 DEF Next

(***************************************************************************)
(* The theorems.                                                           *)
(***************************************************************************)

\* The inductive invariant of the service: the three invariants below and what
\* a thread that holds m_cv_mutex may rely on until it gives it up.
THEOREM InductiveInvariant == Spec => []GInv
BY InitEstablishes, StepPreserves, PTL DEF Spec

\* Each mutex is owned by exactly the thread that is between its lock and its
\* unlock in Start, Stop, CleanerWorker or the NetProcessor methods.
THEOREM TypeCorrect == Spec => []TypeOK
<1>1. GInv => TypeOK
  BY DEF GInv
<1> QED BY <1>1, InductiveInvariant, PTL

\* However many threads call StartTimeoutCleaner and StopTimeoutCleaner, at
\* most one cleaner runs, and m_cleaner_thread stands for it.
THEOREM AtMostOneCleaner == Spec => []OneCleaner
<1>1. GInv => OneCleaner
  BY DEF GInv
<1> QED BY <1>1, InductiveInvariant, PTL

\* A cleaner sleeps in wait_for with the flag up only as long as a Stop has
\* its notify_all still to call.
THEOREM NoWakeupLost == Spec => []NoLostWakeup
<1>1. GInv => NoLostWakeup
  BY DEF GInv
<1> QED BY <1>1, InductiveInvariant, PTL

\* Only StartArm takes the flag down, and it has seen that no thread can be
\* joined; a cleaner steps towards a pool with the flag down only.
LEMMA ShutdownHoldsStep ==
    ASSUME GInv, [Next]_vars, m_shutdown_requested
    PROVE  /\ ~ m_shutdown_requested' => \A w \in Cleaners : ~ Alive(w)
           /\ \A w \in Cleaners :
                at'[w] \in {"sessions", "groups"} => at[w] = at'[w]
<1>1. CASE \E c \in Controllers : StartArm(c)
  BY <1>1, ThreadsAssumption DEF StartArm, GInv, OneCleaner, Joinable
<1>2. CASE \E c \in Controllers : Control(c) /\ ~ StartArm(c)
  <2> PICK c \in Controllers : Control(c) /\ ~ StartArm(c)
    BY <1>2
  <2>1. m_shutdown_requested'
    BY DEF Control, StartCall, StartLock, StartRefused, StartSpawn, StopCall,
           StopFlag, StopNotify, StopTest, StopJoin, StopJoinThrows
  <2>2. \A w \in Cleaners :
           at'[w] \in {"sessions", "groups"} => at[w] = at'[w]
    BY DEF Control, StartCall, StartLock, StartRefused, StartSpawn, StopCall,
           StopFlag, StopNotify, StopTest, StopJoin, StopJoinThrows,
           Reach, GInv, TypeOK
  <2> QED BY <2>1, <2>2
<1>3. CASE \E w \in Cleaners : Work(w)
  BY <1>3 DEF Work, LoopTest, LoopLock, WaitBreak, WaitMore, WaitOver,
              WaitBlock, WaitDue, WaitWake, WaitRelock, CleanSessions,
              SessionsCleaned, GroupsCleaned, LoopNext, Reach, GInv, TypeOK
<1>4. CASE NetEnter \/ NetReturn \/ UNCHANGED vars
  BY <1>4 DEF NetEnter, NetReturn, vars
<1> QED BY <1>1, <1>2, <1>3, <1>4 DEF Next

\* A shutdown once requested is taken back only when no cleaner is left, and
\* no pool is entered under it.
THEOREM ShutdownIsKept == Spec => ShutdownHolds
BY InductiveInvariant, ShutdownHoldsStep, PTL DEF Spec, ShutdownHolds
==============================================================================

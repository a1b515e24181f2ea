------------------------------ MODULE GcService ------------------------------
(***************************************************************************)
(* GcService of src/NMEA/garbage_collection_service.cpp: controller        *)
(* threads start and stop a cleaner thread, which every two seconds drops  *)
(* the dead TCP sessions of its base class NetProcessor and the stale      *)
(* groups of a Nmea450Parser; a network thread delivers data to both.      *)
(*                                                                         *)
(* Each std::thread the service creates is a member of Cleaners of its     *)
(* own.  What is in the two pools is left out (Nmea450Parser has one of    *)
(* them); here it matters who is inside them, and under which mutex.       *)
(***************************************************************************)
EXTENDS Naturals, FiniteSets

CONSTANTS
    Controllers,  \* threads that call Start and Stop, or the destructor
    Cleaners,     \* the threads the service creates; bounds the starts
    Net,          \* the thread that calls ProcUdpDatagram, ProcTcpSegment
    Wired,        \* whether m_raw_chunk_cb leads to the parser's ProcPacket
    NoThread      \* the id of a std::thread that is not joinable; no owner

ASSUME ThreadsAssumption ==
    /\ Controllers \cap Cleaners = {}
    /\ {Net, NoThread} \cap (Controllers \cup Cleaners) = {}
    /\ Net # NoThread
    /\ Wired \in BOOLEAN

VARIABLES
    m_cleaner_thread,      \* the thread the handle stands for
    m_shutdown_requested,  \* the atomic flag
    m_net_meta_decoder,    \* whether the shared_ptr holds a parser
    m_cv_mutex, m_mutex,   \* the owners of the two mutexes
    call,                  \* controller -> where it is in Start or Stop
    at,                    \* cleaner -> where it is in CleanerWorker
    due,                   \* cleaner -> its wait has lasted two seconds
    net                    \* where the network thread is

handle == <<m_cleaner_thread, m_net_meta_decoder>>
vars == <<handle, m_shutdown_requested, m_cv_mutex, m_mutex, call, at, due,
          net>>

CallSteps == {"idle", "start", "test", "spawn",
              "stop", "notify", "joinable", "join", "thrown"}
CleanerSteps == {"unborn", "loop", "lock", "test", "block", "wait", "relock",
                 "tcp", "sessions", "groups", "next", "done"}

Alive(w) == at[w] \notin {"unborn", "done"}
Joinable == m_cleaner_thread # NoThread

Init ==
    /\ m_cleaner_thread = NoThread
    /\ m_shutdown_requested = FALSE
    /\ m_net_meta_decoder = FALSE
    /\ m_cv_mutex = NoThread /\ m_mutex = NoThread
    /\ call = [c \in Controllers |-> "idle"]
    /\ at = [w \in Cleaners |-> "unborn"]
    /\ due = [w \in Cleaners |-> FALSE]
    /\ net = "idle"

Goto(c, step) == call' = [call EXCEPT ![c] = step]
Reach(w, step) == at' = [at EXCEPT ![w] = step]
------------------------------------------------------------------------------
(***************************************************************************)
(* StartTimeoutCleaner, lines 17-26, under m_cv_mutex from end to end.     *)
(***************************************************************************)
StartCall(c) ==
    /\ call[c] = "idle"
    /\ Goto(c, "start")
    /\ UNCHANGED <<handle, m_shutdown_requested, m_cv_mutex, m_mutex, at, due,
                   net>>

\* Line 18.  The bound on the starts is here: one cleaner is left to create.
StartLock(c) ==
    /\ call[c] = "start" /\ m_cv_mutex = NoThread
    /\ \E w \in Cleaners : at[w] = "unborn"
    /\ m_cv_mutex' = c
    /\ Goto(c, "test")
    /\ UNCHANGED <<handle, m_shutdown_requested, m_mutex, at, due, net>>

\* Line 19: there is a cleaner already.
StartRefused(c) ==
    /\ call[c] = "test" /\ Joinable
    /\ m_cv_mutex' = NoThread
    /\ Goto(c, "idle")
    /\ UNCHANGED <<handle, m_shutdown_requested, m_mutex, at, due, net>>

\* Seeded fault: no protection against a second start.
StartArmAnyway(c) ==
    /\ call[c] = "test"
    /\ m_net_meta_decoder' \in BOOLEAN
    /\ m_shutdown_requested' = FALSE
    /\ Goto(c, "spawn")
    /\ UNCHANGED <<m_cleaner_thread, m_cv_mutex, m_mutex, at, due, net>>

\* Lines 19-23: there is none; the argument may be a parser or null.
StartArm(c) ==
    /\ call[c] = "test" /\ ~ Joinable
    /\ m_net_meta_decoder' \in BOOLEAN
    /\ m_shutdown_requested' = FALSE
    /\ Goto(c, "spawn")
    /\ UNCHANGED <<m_cleaner_thread, m_cv_mutex, m_mutex, at, due, net>>

\* Lines 25-26: w is created, and the mutex released.
StartSpawn(c, w) ==
    /\ call[c] = "spawn" /\ at[w] = "unborn"
    /\ m_cleaner_thread' = w
    /\ Reach(w, "loop")
    /\ m_cv_mutex' = NoThread
    /\ Goto(c, "idle")
    /\ UNCHANGED <<m_net_meta_decoder, m_shutdown_requested, m_mutex, due, net>>
------------------------------------------------------------------------------
(***************************************************************************)
(* StopTimeoutCleaner, lines 28-39; the destructor does the same.          *)
(***************************************************************************)
StopCall(c) ==
    /\ call[c] = "idle"
    /\ Goto(c, "stop")
    /\ UNCHANGED <<handle, m_shutdown_requested, m_cv_mutex, m_mutex, at, due,
                   net>>

\* Seeded fault: the flag is atomic, so why lock a mutex to set it?
StopFlagUnlocked(c) ==
    /\ call[c] = "stop"
    /\ m_shutdown_requested' = TRUE
    /\ Goto(c, "notify")
    /\ UNCHANGED <<handle, m_cv_mutex, m_mutex, at, due, net>>

\* Seeded fault: the lock is kept up to the end of the function.
StopFlagKeepsLock(c) ==
    /\ call[c] = "stop" /\ m_cv_mutex = NoThread
    /\ m_cv_mutex' = c
    /\ m_shutdown_requested' = TRUE
    /\ Goto(c, "notify")
    /\ UNCHANGED <<handle, m_mutex, at, due, net>>

\* Lines 29-32: lock, set the flag, unlock.
StopFlag(c) ==
    /\ call[c] = "stop" /\ m_cv_mutex = NoThread
    /\ m_shutdown_requested' = TRUE
    /\ Goto(c, "notify")
    /\ UNCHANGED <<handle, m_cv_mutex, m_mutex, at, due, net>>

\* Line 34.
StopNotify(c) ==
    /\ call[c] = "notify"
    /\ at' = [w \in Cleaners |-> IF at[w] = "wait" THEN "relock" ELSE at[w]]
    /\ Goto(c, "joinable")
    /\ UNCHANGED <<handle, m_shutdown_requested, m_cv_mutex, m_mutex, due, net>>

\* Line 36, without the mutex.
StopTest(c) ==
    /\ call[c] = "joinable"
    /\ Goto(c, IF Joinable THEN "join" ELSE "idle")
    /\ UNCHANGED <<handle, m_shutdown_requested, m_cv_mutex, m_mutex, at, due,
                   net>>

\* Line 37: join returns when the thread has ended.
StopJoin(c) ==
    /\ call[c] = "join" /\ Joinable
    /\ at[m_cleaner_thread] = "done"
    /\ m_cleaner_thread' = NoThread
    /\ Goto(c, "idle")
    /\ UNCHANGED <<m_net_meta_decoder, m_shutdown_requested, m_cv_mutex,
                   m_mutex, at, due, net>>

\* Line 37: join throws when another controller has joined the thread since
\* the test of line 36, or is joining it.
StopJoinThrows(c) ==
    /\ call[c] = "join"
    /\ ~ Joinable \/ \E d \in Controllers \ {c} : call[d] = "join"
    /\ Goto(c, "thrown")
    /\ UNCHANGED <<handle, m_shutdown_requested, m_cv_mutex, m_mutex, at, due,
                   net>>
------------------------------------------------------------------------------
(***************************************************************************)
(* CleanerWorker, lines 41-74.                                             *)
(***************************************************************************)

\* Line 55.
LoopTest(w) ==
    /\ at[w] = "loop"
    /\ Reach(w, IF m_shutdown_requested THEN "done" ELSE "lock")
    /\ UNCHANGED <<handle, m_shutdown_requested, m_cv_mutex, m_mutex, call,
                   due, net>>

\* Line 56; line 60 fixes the deadline, two seconds from now.
LoopLock(w) ==
    /\ at[w] = "lock" /\ m_cv_mutex = NoThread
    /\ m_cv_mutex' = w
    /\ due' = [due EXCEPT ![w] = FALSE]
    /\ Reach(w, "test")
    /\ UNCHANGED <<handle, m_shutdown_requested, m_mutex, call, net>>

\* Lines 60-61: the predicate holds; the break unlocks the mutex.
WaitBreak(w) ==
    /\ at[w] = "test" /\ m_shutdown_requested
    /\ m_cv_mutex' = NoThread
    /\ Reach(w, "done")
    /\ UNCHANGED <<handle, m_shutdown_requested, m_mutex, call, due, net>>

\* Line 60: the predicate does not hold and there is time left.
WaitMore(w) ==
    /\ at[w] = "test" /\ ~ m_shutdown_requested /\ ~ due[w]
    /\ Reach(w, "block")
    /\ UNCHANGED <<handle, m_shutdown_requested, m_cv_mutex, m_mutex, call,
                   due, net>>

\* Seeded fault: the result of wait_for taken for "timed out".
WaitOverLeaves(w) ==
    /\ at[w] = "test" /\ ~ m_shutdown_requested /\ due[w]
    /\ m_cv_mutex' = NoThread
    /\ Reach(w, "done")
    /\ UNCHANGED <<handle, m_shutdown_requested, m_mutex, call, due, net>>

\* Line 60: the two seconds are over and the predicate still does not hold.
WaitOver(w) ==
    /\ at[w] = "test" /\ ~ m_shutdown_requested /\ due[w]
    /\ Reach(w, "tcp")
    /\ UNCHANGED <<handle, m_shutdown_requested, m_cv_mutex, m_mutex, call,
                   due, net>>

\* Unlocking the mutex and going to sleep are one step.
WaitBlock(w) ==
    /\ at[w] = "block"
    /\ m_cv_mutex' = NoThread
    /\ Reach(w, "wait")
    /\ UNCHANGED <<handle, m_shutdown_requested, m_mutex, call, due, net>>

WaitDue(w) ==
    /\ at[w] \in {"wait", "relock"} /\ ~ due[w]
    /\ due' = [due EXCEPT ![w] = TRUE]
    /\ UNCHANGED <<handle, m_shutdown_requested, m_cv_mutex, m_mutex, call, at,
                   net>>

\* A wake-up of the time-out or, with time left, a spurious one.
WaitWake(w) ==
    /\ at[w] = "wait"
    /\ Reach(w, "relock")
    /\ UNCHANGED <<handle, m_shutdown_requested, m_cv_mutex, m_mutex, call,
                   due, net>>

WaitRelock(w) ==
    /\ at[w] = "relock" /\ m_cv_mutex = NoThread
    /\ m_cv_mutex' = w
    /\ Reach(w, "test")
    /\ UNCHANGED <<handle, m_shutdown_requested, m_mutex, call, due, net>>

\* Line 66: NetProcessor::CleanupTimeouts locks m_mutex (net_processor.cpp:61)
CleanSessions(w) ==
    /\ at[w] = "tcp" /\ m_mutex = NoThread
    /\ m_mutex' = w
    /\ Reach(w, "sessions")
    /\ UNCHANGED <<handle, m_shutdown_requested, m_cv_mutex, call, due, net>>

\* and unlocks it when it returns; line 70 tests the pointer.
SessionsCleaned(w) ==
    /\ at[w] = "sessions"
    /\ m_mutex' = NoThread
    /\ Reach(w, IF m_net_meta_decoder THEN "groups" ELSE "next")
    /\ UNCHANGED <<handle, m_shutdown_requested, m_cv_mutex, call, due, net>>

\* Line 71 returns: Nmea450Parser::CleanupTimeouts, which locks nothing.
GroupsCleaned(w) ==
    /\ at[w] = "groups"
    /\ Reach(w, "next")
    /\ UNCHANGED <<handle, m_shutdown_requested, m_cv_mutex, m_mutex, call,
                   due, net>>

\* Line 73: the unique_lock goes out of scope.
LoopNext(w) ==
    /\ at[w] = "next"
    /\ m_cv_mutex' = NoThread
    /\ Reach(w, "loop")
    /\ UNCHANGED <<handle, m_shutdown_requested, m_mutex, call, due, net>>
------------------------------------------------------------------------------
(***************************************************************************)
(* The network thread in ProcUdpDatagram or ProcTcpSegment, which call     *)
(* m_raw_chunk_cb under m_mutex (net_processor.cpp:15-19, 27-44).          *)
(***************************************************************************)
NetEnter ==
    /\ net = "idle" /\ m_mutex = NoThread
    /\ m_mutex' = Net
    /\ net' = "callback"
    /\ UNCHANGED <<handle, m_shutdown_requested, m_cv_mutex, call, at, due>>

NetReturn ==
    /\ net = "callback"
    /\ m_mutex' = NoThread
    /\ net' = "idle"
    /\ UNCHANGED <<handle, m_shutdown_requested, m_cv_mutex, call, at, due>>

Control(c) ==
    \/ StartCall(c) \/ StartLock(c) \/ StartRefused(c) \/ StartArm(c)
    \/ \E w \in Cleaners : StartSpawn(c, w)
    \/ StopCall(c) \/ StopFlag(c) \/ StopNotify(c) \/ StopTest(c)
    \/ StopJoin(c) \/ StopJoinThrows(c)

Work(w) ==
    \/ LoopTest(w) \/ LoopLock(w) \/ LoopNext(w)
    \/ WaitBreak(w) \/ WaitMore(w) \/ WaitOver(w) \/ WaitBlock(w)
    \/ WaitDue(w) \/ WaitWake(w) \/ WaitRelock(w)
    \/ CleanSessions(w) \/ SessionsCleaned(w) \/ GroupsCleaned(w)

Next ==
    \/ \E c \in Controllers : Control(c)
    \/ \E w \in Cleaners : Work(w)
    \/ NetEnter
    \/ NetReturn

Spec == Init /\ [][Next]_vars

\* Every thread is scheduled; a deadline passes, though spurious wake-ups may
\* come before it; and a mutex that is free again and again is obtained in the
\* end (the cleaner gives m_cv_mutex up for two seconds in each round).  Nobody has to call Start or Stop, no
\* data has to arrive, and no wake-up is spurious by duty.
FairSpec ==
    /\ Spec
    /\ \A c \in Controllers :
         /\ SF_vars(StartLock(c)) /\ SF_vars(StopFlag(c))
         /\ WF_vars(\/ StartRefused(c) \/ StartArm(c)
                    \/ \E w \in Cleaners : StartSpawn(c, w)
                    \/ StopNotify(c) \/ StopTest(c)
                    \/ StopJoin(c) \/ StopJoinThrows(c))
    /\ \A w \in Cleaners :
         /\ SF_vars(LoopLock(w) \/ WaitRelock(w) \/ CleanSessions(w))
         /\ SF_vars(WaitDue(w))
         /\ WF_vars(\/ LoopTest(w) \/ LoopNext(w)
                    \/ WaitBreak(w) \/ WaitMore(w) \/ WaitOver(w)
                    \/ WaitBlock(w) \/ (due[w] /\ WaitWake(w))
                    \/ SessionsCleaned(w) \/ GroupsCleaned(w))
    /\ WF_vars(NetReturn)
------------------------------------------------------------------------------
\* The steps a thread takes with m_cv_mutex locked.
CallLocked    == {"test", "spawn"}
CleanerLocked == {"test", "block", "tcp", "sessions", "groups", "next"}

\* Every variable keeps its type, and each mutex is owned by the one thread
\* that is between its lock and its unlock, on every path through the code.
TypeOK ==
    /\ m_cleaner_thread \in Cleaners \cup {NoThread}
    /\ m_shutdown_requested \in BOOLEAN /\ m_net_meta_decoder \in BOOLEAN
    /\ call \in [Controllers -> CallSteps]
    /\ at \in [Cleaners -> CleanerSteps]
    /\ due \in [Cleaners -> BOOLEAN]
    /\ net \in {"idle", "callback"}
    /\ m_cv_mutex \in Controllers \cup Cleaners \cup {NoThread}
    /\ \A c \in Controllers : m_cv_mutex = c <=> call[c] \in CallLocked
    /\ \A w \in Cleaners : m_cv_mutex = w <=> at[w] \in CleanerLocked
    /\ m_mutex \in Cleaners \cup {Net, NoThread}
    /\ \A w \in Cleaners : m_mutex = w <=> at[w] = "sessions"
    /\ m_mutex = Net <=> net = "callback"

\* Start and Stop in any order, by any number of threads, never leave more
\* than one cleaner running, and never one the handle does not stand for: the
\* destructor always finds the thread it has to join.
OneCleaner == \A w \in Cleaners : Alive(w) => m_cleaner_thread = w

\* No wake-up is lost: a cleaner never sleeps on with the flag set once every
\* Stop has notified, so that Stop does not wait out the two seconds.
NoLostWakeup ==
    m_shutdown_requested =>
        \A w \in Cleaners : at[w] = "wait" =>
            \E c \in Controllers : call[c] = "notify"

\* A shutdown once requested holds: it is taken back only when no cleaner is
\* left, and from then on no pool is entered, not even by a pass under way.
ShutdownHolds ==
    [][m_shutdown_requested =>
         /\ ~ m_shutdown_requested' => \A w \in Cleaners : ~ Alive(w)
         /\ \A w \in Cleaners :
              at'[w] \in {"sessions", "groups"} => at[w] = at'[w]]_vars

\* The inductive invariant behind the three.  A controller about to create a
\* thread knows that there is none; and a cleaner that has found the flag down
\* can rely on it until it gives the mutex up, because the flag goes up under
\* the mutex only.
GInv ==
    /\ TypeOK
    /\ OneCleaner
    /\ NoLostWakeup
    /\ \A c \in Controllers : call[c] = "spawn" => ~ Joinable
    /\ \A w \in Cleaners :
         at[w] \in {"block", "tcp", "sessions", "groups"} => ~ m_shutdown_requested

\* StopTimeoutCleaner returns.
StopReturns ==
    \A c \in Controllers : call[c] = "stop" ~> call[c] \in {"idle", "thrown"}

\* StopTimeoutCleaner returns, with one exception: another controller's Start
\* came between and made Stop wait for a cleaner that nobody has told to stop.
StopReturnsUnlessOvertaken ==
    \A c \in Controllers :
        call[c] = "stop" ~> \/ call[c] \in {"idle", "thrown"}
                            \/ call[c] = "join" /\ ~ m_shutdown_requested

\* The cleaner goes on cleaning until it is told to stop, however busy the
\* network thread keeps m_mutex and however often it is woken for nothing.
CleansOn ==
    \A w \in Cleaners :
        Alive(w) ~> at[w] = "sessions" \/ m_shutdown_requested

\* The map of Nmea450Parser is never used by the network thread and cleaned
\* at the same time: ProcPacket runs under m_mutex, the cleaner does not.
NoPoolRace == ~ (Wired /\ net = "callback" /\ \E w \in Cleaners : at[w] = "groups")
==============================================================================

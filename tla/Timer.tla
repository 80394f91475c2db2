------------------------------- MODULE Timer -------------------------------
(***************************************************************************)
(* One CTimer object (Timer.cpp) on top of CThread (commun/Thread.cpp):    *)
(* the thread that owns the object and calls Start, SetAutoDelete, Stop    *)
(* and the destructor, and the timer's own thread, which waits in select   *)
(* on its pipe and calls back when the wait times out.  Every access to a  *)
(* member that the other thread may change is a step of its own.           *)
(*                                                                         *)
(* A CTimer is used in three ways in the program ("usage"):                *)
(*   pwm    periodic member of CPwmGpio: Start, Stop, then destroyed with  *)
(*          its CSoleil (PwmGpio.cpp:70-85, Profil.cpp:79-82);             *)
(*   auto   one-shot launcher of a profile that was told to delete itself  *)
(*          (MainTache.cpp:181-186) and may be stopped at the next         *)
(*          planning (MainTache.cpp:166-168);                              *)
(*   plain  one-shot timer that is never destroyed (MainTache.cpp:203-206, *)
(*          247-251), told to delete itself only when the main task ends   *)
(*          (MainTache.cpp:118-119, 136-137).                              *)
(***************************************************************************)
EXTENDS Naturals

CONSTANT Usages   \* the usages explored

ASSUME UsagesAssumption == Usages \subseteq {"pwm", "auto", "plain"}

VARIABLES
  usage,      \* how this object is used
  opc,        \* program counter of the owner
  deleting,   \* the owner is inside ~CTimer
  tpc,        \* program counter of the timer's thread
  started,    \* m_bStarted
  arret,      \* ArretThread; the constructor leaves it uninitialised
  pipe,       \* iIdPipe: "none", "open" (nothing to read), "full", "closed"
  autoDel,    \* cAutoDelete
  attache,    \* m_hObjetAttache is not NULL
  alive,      \* the object has not been deleted
  fired,      \* effective calls of the callback, counted up to FiredCap
  demande,    \* history: a Stop has written to the pipe
  lost,       \* history: a Stop returned at once though the thread ran
  uaf         \* a thread has touched the deleted object

owner == <<usage, opc, deleting>>
link  == <<started, arret, pipe>>
obj   == <<autoDel, attache, alive>>
hist  == <<fired, demande, lost, uaf>>
vars  == <<owner, tpc, link, obj, hist>>

FiredCap == 2

OwnerPc == {"new", "held", "stop", "write", "after", "join", "clear",
            "stopped", "dtor", "free", "gone"}

ThreadPc == {"none", "born", "entry", "loop", "select", "check", "cb",
             "exit", "ended", "auto", "done"}

\* The variables hold values of the kinds the code gives them.
TypeOK ==
  /\ usage \in Usages /\ opc \in OwnerPc /\ tpc \in ThreadPc
  /\ arret \in {"indet", "0", "2"}
  /\ pipe \in {"none", "open", "full", "closed"}
  /\ fired \in 0..FiredCap
  /\ deleting \in BOOLEAN /\ started \in BOOLEAN /\ autoDel \in BOOLEAN
  /\ attache \in BOOLEAN /\ alive \in BOOLEAN
  /\ demande \in BOOLEAN /\ lost \in BOOLEAN /\ uaf \in BOOLEAN

\* CThread::CThread and CTimer::Init; SetAutoDelete (1) before Start when auto.
Init ==
  /\ usage \in Usages
  /\ opc = "new" /\ deleting = FALSE /\ tpc = "none"
  /\ started = FALSE /\ arret = "indet" /\ pipe = "none"
  /\ autoDel = (IF usage = "auto" THEN TRUE ELSE FALSE) /\ attache = FALSE /\ alive = TRUE
  /\ fired = 0 /\ demande = FALSE /\ lost = FALSE /\ uaf = FALSE

Periodic == usage = "pwm"                \* uiFlagEvent & 1

Running == tpc \notin {"none", "done"}   \* the thread exists and is not over

\* A one-shot timer is reached through the planner's maps, from which its
\* callback removes it first (MainTache.cpp:229, 278).
Reachable == Periodic \/ fired = 0

OwnerGoes(from, to) ==
  alive /\ opc = from /\ opc' = to /\ UNCHANGED usage

ThreadGoes(from, to) ==
  alive /\ tpc = from /\ tpc' = to /\ UNCHANGED owner

-----------------------------------------------------------------------------
(***************************************************************************)
(* The owner.                                                              *)
(***************************************************************************)

\* CThread::Create, where pipe() or pthread_create may fail
Create ==
  \/ pipe' = "none" /\ tpc' = tpc
  \/ pipe' = "open" /\ tpc' \in {tpc, "born"}

\* CTimer::Start, which returns at once on a duration of 0
Start ==
  /\ OwnerGoes("new", "held")
  /\ \/ UNCHANGED <<attache, pipe, tpc>>
     \/ attache' = TRUE /\ Create
  /\ UNCHANGED <<deleting, started, arret, autoDel, alive, hist>>

\* pTimer->Stop (): iStop of the PWM, or the planner replacing a launcher.
CallStop ==
  /\ OwnerGoes("held", "stop")
  /\ Reachable
  /\ UNCHANGED <<deleting, tpc, link, obj, hist>>

\* pTimer->SetAutoDelete (1); pTimer->Stop () when the main task ends.
CallAutoDeleteStop ==
  /\ OwnerGoes("held", "stop")
  /\ ~Periodic /\ Reachable
  /\ autoDel' = TRUE
  /\ UNCHANGED <<deleting, tpc, link, attache, alive, hist>>

\* Where Stop returns to: its caller, or the rest of the destructor.
Retour == IF deleting THEN "free" ELSE "stopped"

\* if (!IsStarted() || cGetArretThread()==2) return;
StopCheck ==
  LET ignored == ~started \/ arret = "2" IN
  /\ OwnerGoes("stop", IF ignored THEN Retour ELSE "write")
  /\ lost' = IF ignored /\ Running THEN TRUE ELSE lost
  /\ UNCHANGED <<deleting, tpc, link, obj, fired, demande, uaf>>

\* Mutant of StopWrite: the write is forgotten.
StopWriteMuet ==
  /\ OwnerGoes("write", "after")
  /\ demande' = TRUE
  /\ UNCHANGED <<deleting, tpc, link, obj, fired, lost, uaf>>

\* if (iIdPipe[1]>=0) write (iIdPipe[1],"stop",4);
StopWrite ==
  /\ OwnerGoes("write", "after")
  /\ pipe' = "full" /\ demande' = TRUE
  /\ UNCHANGED <<deleting, tpc, started, arret, obj, fired, lost, uaf>>

\* Mutant of StopAfter: the thread is never joined.
StopAfterSansJoin ==
  /\ OwnerGoes("after", "clear")
  /\ UNCHANGED <<deleting, tpc, link, obj, hist>>

\* if (!IsAutoDelete()) and the thread is not detached, it will be joined.
StopAfter ==
  /\ OwnerGoes("after", IF autoDel THEN "clear" ELSE "join")
  /\ UNCHANGED <<deleting, tpc, link, obj, hist>>

\* Mutant of StopJoin: another thread is joined, or none.
StopJoinAutre ==
  /\ OwnerGoes("join", "clear")
  /\ UNCHANGED <<deleting, tpc, link, obj, hist>>

\* pthread_join(thread_id,NULL) returns once the thread is over.
StopJoin ==
  /\ OwnerGoes("join", "clear")
  /\ tpc = "done"
  /\ UNCHANGED <<deleting, tpc, link, obj, hist>>

\* m_hObjetAttache = NULL;
StopClear ==
  /\ OwnerGoes("clear", Retour)
  /\ attache' = FALSE
  /\ UNCHANGED <<deleting, tpc, link, autoDel, alive, hist>>

\* delete of the enclosing CSoleil enters CTimer::~CTimer.
Delete ==
  /\ OwnerGoes("stopped", "dtor")
  /\ Periodic
  /\ deleting' = TRUE
  /\ UNCHANGED <<tpc, link, obj, hist>>

\* if (IsStarted()) Stop();
DtorCheck ==
  /\ OwnerGoes("dtor", IF started THEN "stop" ELSE "free")
  /\ UNCHANGED <<deleting, tpc, link, obj, hist>>

\* CThread::~CThread closes both ends of the pipe and destroys the mutex.
DtorFree ==
  /\ OwnerGoes("free", "gone")
  /\ alive' = FALSE
  /\ pipe' = IF pipe = "none" THEN "none" ELSE "closed"
  /\ UNCHANGED <<deleting, tpc, started, arret, autoDel, attache, hist>>

-----------------------------------------------------------------------------
(***************************************************************************)
(* The timer's thread: FctThread around CTimer::Thread.                    *)
(***************************************************************************)

\* FctThread: SetArretThread (0)
FctReset ==
  /\ ThreadGoes("born", "entry")
  /\ arret' = "0"
  /\ UNCHANGED <<started, pipe, obj, hist>>

\* CTimer::Thread up to its loop: m_bStarted=true, or a return at once when
\* the duration is 0.  Start refuses 0, but CSoleil may lower the one of its
\* PWM before the thread gets here (SetDuree, PwmGpio.cpp:67).
ThreadEntry ==
  /\ \/ ThreadGoes("entry", "loop") /\ started' = TRUE
     \/ Periodic /\ ThreadGoes("entry", "ended") /\ UNCHANGED started
  /\ UNCHANGED <<arret, pipe, obj, hist>>

\* while(!cGetArretThread())
LoopCheck ==
  /\ ThreadGoes("loop", IF arret = "0" THEN "select" ELSE "exit")
  /\ UNCHANGED <<link, obj, hist>>

\* Mutant of SelectReadable: the break is missing.
SelectReadableSansBreak ==
  /\ ThreadGoes("select", "loop")
  /\ pipe = "full"
  /\ UNCHANGED <<link, obj, hist>>

\* select > 0: the pipe is readable; nothing ever empties it
SelectReadable ==
  /\ ThreadGoes("select", "exit")
  /\ pipe = "full"
  /\ UNCHANGED <<link, obj, hist>>

\* select == 0: the duration has passed with nothing to read
SelectTimeout ==
  /\ ThreadGoes("select", "check")
  /\ pipe = "open"
  /\ UNCHANGED <<link, obj, hist>>

\* select < 0: EINTR goes round the loop, any other error leaves it
SelectError ==
  \E to \in {"loop", "exit"} :
    /\ ThreadGoes("select", to)
    /\ pipe = "open"
    /\ UNCHANGED <<link, obj, hist>>

\* if (!cGetArretThread()) m_hCallBack(m_hObjetAttache);  The callbacks do
\* nothing when Stop has put NULL there (PwmGpio.cpp:11, MainTache.cpp:30,
\* 41), so only an effective call counts.
Callback ==
  /\ ThreadGoes("check", IF arret = "0" THEN "cb" ELSE "loop")
  /\ fired' = IF arret = "0" /\ attache /\ fired < FiredCap
              THEN fired + 1 ELSE fired
  /\ UNCHANGED <<link, obj, demande, lost, uaf>>

\* Mutant of CallbackReturn: a one-shot timer goes on like a periodic one.
CallbackReturnBoucle ==
  /\ ThreadGoes("cb", "loop")
  /\ UNCHANGED <<link, obj, hist>>

\* The callback returns; a one-shot timer leaves the loop.
CallbackReturn ==
  /\ ThreadGoes("cb", IF Periodic THEN "loop" ELSE "exit")
  /\ UNCHANGED <<link, obj, hist>>

\* m_bStarted = false
ThreadExit ==
  /\ ThreadGoes("exit", "ended")
  /\ started' = FALSE
  /\ UNCHANGED <<arret, pipe, obj, hist>>

\* Mutant of FctEnd: SetArretThread (1) in place of 2.
FctEndUn ==
  /\ ThreadGoes("ended", "auto")
  /\ arret' = "1" /\ pipe' = "full"
  /\ UNCHANGED <<started, obj, hist>>

\* FctThread: SetArretThread (2), which also writes to the pipe
FctEnd ==
  /\ ThreadGoes("ended", "auto")
  /\ arret' = "2" /\ pipe' = "full"
  /\ UNCHANGED <<started, obj, hist>>

\* FctThread: if (IsAutoDelete()) it joins itself, which pthread_join refuses,
\* and deletes the object; then pthread_exit.
FctAutoDelete ==
  /\ ThreadGoes("auto", "done")
  /\ alive' = ~autoDel
  /\ pipe' = IF autoDel THEN "closed" ELSE pipe
  /\ UNCHANGED <<started, arret, autoDel, attache, hist>>

-----------------------------------------------------------------------------
(***************************************************************************)
(* Use of the deleted object is undefined behaviour: nothing is modelled   *)
(* after it.                                                               *)
(***************************************************************************)

\* The owner calls Stop on a deleted timer, or goes on in it.
OwnerUaf ==
  /\ ~alive /\ ~uaf
  /\ \/ opc \in {"stop", "write", "after", "clear"}
     \/ opc = "held" /\ Reachable
  /\ uaf' = TRUE
  /\ UNCHANGED <<owner, tpc, link, obj, fired, demande, lost>>

\* The thread goes on in a deleted timer.
ThreadUaf ==
  /\ ~alive /\ ~uaf /\ Running
  /\ uaf' = TRUE
  /\ UNCHANGED <<owner, tpc, link, obj, fired, demande, lost>>

\* Nothing is left to do.
Repos ==
  /\ \/ uaf
     \/ ~Running /\ (opc \in {"held", "stopped", "gone"} \/ ~alive)
  /\ UNCHANGED vars

-----------------------------------------------------------------------------
Stop == StopCheck \/ StopWrite \/ StopAfter \/ StopJoin \/ StopClear

Owner ==
  \/ Start \/ CallStop \/ CallAutoDeleteStop \/ Stop
  \/ Delete \/ DtorCheck \/ DtorFree \/ OwnerUaf

Thread ==
  \/ FctReset \/ ThreadEntry \/ LoopCheck
  \/ SelectReadable \/ SelectTimeout \/ SelectError
  \/ Callback \/ CallbackReturn
  \/ ThreadExit \/ FctEnd \/ FctAutoDelete \/ ThreadUaf

Next == Owner \/ Thread \/ Repos

Spec == Init /\ [][Next]_vars

\* The scheduler runs every thread; a Stop that was entered goes on.
FairSpec == Spec /\ WF_vars(Thread) /\ WF_vars(Stop)

-----------------------------------------------------------------------------
(***************************************************************************)
(* Properties.                                                             *)
(***************************************************************************)

\* CTimer::Stop is synchronous: when it has returned on a timer that does not
\* delete itself, and was not one of the stops that are ignored because the
\* thread has not yet set (or has just cleared) m_bStarted, the thread is over
\* and the callback can no longer run.
StopSynchrone ==
  (opc \in {"stopped", "dtor", "free", "gone"} /\ ~autoDel /\ ~lost) => ~Running

\* The deleted object is touched only in the two situations the code leaves
\* open: a timer that deletes itself while Stop is still using it
\* (Timer.cpp:98-103), and a destructor that follows an ignored Stop.
UafOnlyAutoOrLost == uaf => autoDel \/ lost

\* A one-shot timer calls back at most once, whatever is stopped when.
OneShotOnce == ~Periodic => fired <= 1

\* Stop always returns: pthread_join in Stop never waits for a thread that
\* does not end (Timer.cpp:100).
StopRevient == opc = "stop" ~> (opc \in {"stopped", "free", "gone"} \/ ~alive)

\* What a user of the timer can tell of its thread.
Etat ==
  IF tpc = "none" THEN "repos"
  ELSE IF ~alive \/ tpc \in {"exit", "ended", "auto", "done"} THEN "fini"
  ELSE IF tpc = "cb" THEN "rappel" ELSE "arme"

\* The wait had run out when a stop was written, and the callback is to come.
Tardif == IF demande /\ alive /\ tpc = "check" THEN TRUE ELSE FALSE

Contrat == INSTANCE TimerContrat WITH
  etat <- Etat, arrete <- demande, tardif <- Tardif

\* The timer implements TimerContrat: after a stop was written to the pipe at
\* most one more callback runs, only if select had already timed out, and the
\* thread ends.
TimerImplementsContrat == Contrat!Spec
=============================================================================

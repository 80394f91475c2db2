# gest_aqua in TLA+

`gest_aqua` drives the lighting of an aquarium from an Olinuxino board. A main
task reads a table of plannings once a day and starts timers; a timer launches
a *profile* at the planning's start and another one stops it at its end; a
running profile owns a *sun* whose thread follows a curve of light over the day
and feeds a software PWM, which is again a timer that toggles a pin. Everything
runs in POSIX threads with few locks, on durations computed from the wall clock
and waited for on the monotonic one. That is what these modules model, check
with TLC and, in part, prove with TLAPS.

## Inventory

| Component (source) | State | Operations | Meets the others by |
|---|---|---|---|
| `CThread` (`commun/Thread.*`) | `ArretThread` (0 run, 1 stop asked, 2 over, at first uninitialised), pipe, `m_bStarted`, `cAutoDelete`, detach state | `Create`, `FctThread`, `SetArretThread`, automatic deletion, destructor | base of every thread; stop is a flag under a mutex plus a byte in the pipe |
| `CTimer` (`Timer.*`) | duration, callback, attached object, one-shot or periodic | `Start`, `Thread`, `Stop`, `SetDuree`, destructor | callback in the timer's own thread; used by the planner and the PWM |
| `CMainTask` (`MainTache.*`) | `sLastDay`, `mLanceurProfil` (planning number -> launcher), `mStopProfil` (profile number -> stop timer) | `Thread`, `iInitPlanification`, `iStartProfil`, `iStopProfil`, clean-up | creates timers and profiles; its callbacks run in the timers' threads on the same maps, unlocked |
| `CProfil` (`Profil.*`) | its parameters, its `CSoleil` | `Start`, `Thread`, `iStartProfil` | created by a launcher's callback, asked to end by a stop timer's, deletes itself |
| `CSoleil` (`Soleil.*`) | index of the current segment, interval | `Thread`, `iGererCourbe` | owned by a `CProfil`, owns a `CPwmGpio` |
| `CPwmGpio` (`PwmGpio.*`) | duty cycle, high and low times, level | `iInit`, `iStart`, `SetRapportCyclique`, `iStop`, `GestionPwm` | the sun's thread sets the duration that its timer's thread reads |
| `CParametreApplication` (`BaseSqlite.*`) | table of plannings, profiles, curve | `pstInit`, `sInitProfil`, `sInitPlanification` | rewritten each day by the main task, read by callbacks and profiles |
| `tGetOffsetFromMidnight` (`commun/General.*`) | libc's static `struct tm` | seconds since local midnight | planner, launchers and sun |
| `main`, GPIO registers (`AquaGest.cpp`, `gpio-mmap.*`) | the mapping | `gpio_map`, register writes | starts and waits for the main task |
| `dlgi2c` driver (`driver linux/exemple/stim_drivers/dlgi2c.c`) | two rings with their indices, `mode`, `data_on`, `Monlock`, the frame of life (timer, work, counters) | `I2c_irq`, `I2c_interrupt_task`, `I2c_TrameVie_task`, `fctTimerTrameVie`, `read`, `write`, `ioctl` | kernel driver of the PowerCam board; apart from the program |
| other drivers (`AquaPwm.c`, `regdebug.c`, `pic18f.c`, `stim_pm.c`, `testreg.c`, `dlg_i2c_sorhea.c`) | | | register and i2c accesses forwarded one by one; the program uses none |
| `CLune`, `CSequenceurTask`, `main.cpp`, `CFileLog`, `vsscanf`, `crc`, `sqlite3`, `mysql`, `win32` | | | not in the program that the Makefile builds (`CLune` is, and is empty) |

What is hard, and what makes each component correct:

* **Timer.** Stop races with the thread's start, its timeout and its end, and
  with the object's own deletion. Correct: Stop returns, and when it has, on a
  timer that is not self-deleting, no callback is left; a one-shot fires once.
* **Planner.** Callbacks and planner share maps without a lock and start timers
  before recording them; a stop may come before the profile it stops; plannings
  are local, the daily trigger is UTC; the clock jumps and the timers do not;
  durations reach 0 and overflow. Correct: a profile runs exactly during its
  planning, in one object, with one stop timer that its map knows, for ever.
* **Sun.** A segment index kept between late wake-ups. Correct: every computed
  value lies on the curve and reaches the PWM.
* **PWM.** A 64-bit duration written in two words while it is read. Correct: no
  mixture is waited for, and the duty cycle is that of the pin.
* **Profile.** It owns the sun and, through it, a PWM timer; a stop may come
  before its thread has begun; it joins its own thread in place of the sun's and
  then deletes the sun. Correct: a stop always ends it, it ends only when asked,
  and nothing it deletes is in use.
* **Shared data of the threads.** libc's `struct tm` and the parameters are
  written and read by several threads without a lock. Correct: the planner sees
  the UTC day and the exact local time, an offset is never wrong by a day, no
  profile copies parameters that are half filled in.
* **dlgi2c.** An interrupt, two works, a timer and the application share rings
  and flags; one variable says whether the work reads or writes; transfers fail
  and the code does not see it. Correct: an event is cleared on the board only
  once it is in the ring, rings and flags agree, every event is served, and a
  single timer carries the frame of life on.

`PROJECT.json` lists every hazard with its line and the properties that cover it.

## Modules

| Module | What it models |
|---|---|
| `Timer` | one `CTimer` and its owner, one step per access to a member that the other thread may change |
| `TimerContrat` | what a timer promises to one that uses it: callbacks only while armed, at most one late callback after a stop, then the end |
| `TimerProofs` | proofs about `Timer` |
| `Parametres` | the table and the curve that `BaseSqlite.cpp` fills in |
| `Journee` | what the planner promises of a day: a profile is lit once in a planning and not outside |
| `Planification` | the planner, its callbacks and the profiles as it sees them, over timers that are waits, and over a wall clock |
| `PlanificationProofs` | proofs about `Planification` that hold whatever the clock and the table |
| `PlanifHoraireProofs` | proofs about `Planification` on a steady clock, and that it implements `Journee` |
| `Partage` | what the threads share outside the planner's maps: libc's `struct tm` and the parameters |
| `PartageProofs` | proofs about `Partage` |
| `ProfilSoleil` | a profile, its sun and the sun's timer, from start to deletion |
| `ProfilSoleilProofs` | proofs about `ProfilSoleil` |
| `Soleil` | the sun's thread and its effect on the PWM's high time |
| `SoleilProofs` | proofs about `Soleil` |
| `PwmGpio` | the PWM, its timer's thread and the sun's thread that sets it |
| `PwmGpioProofs` | proofs about `PwmGpio` |
| `DlgI2c` | the i2c driver: interrupt, works, frame of life, rings, and the application on the other side |
| `DlgI2cProofs` | proofs about `DlgI2c` |
| `MC*` | instances for TLC (`DlgI2c` needs none: its constants are in its `.cfg`); `MCPlanifNominal` also evaluates the hypothesis of `PlanifHoraireProofs` |

**Timer.** `opc` is the owner's program counter and `tpc` the thread's. `usage`
says which of the program's uses is under way: the PWM's periodic member, a
self-deleting launcher, a plain one-shot. `StopCheck`, `StopWrite`, `StopAfter`,
`StopJoin` and `StopClear` are the statements of `CTimer::Stop`; `FctReset` to
`FctAutoDelete` are `FctThread` around `CTimer::Thread`. `arret = "indet"` is the
uninitialised `ArretThread`. After a use of the deleted object (`uaf`) nothing
is modelled. `demande`, `lost` and `fired` are history. Create that fails is in
`Start`. `FiredCap` bounds the count of callbacks.

**Planification.** A timer is a record: waiting with `rem` ticks to go, run out,
in the middle of `iStartProfil`, never started (`inerte`, duration 0), never
ending (`eternel`, duration out of range) or over. `wall` is `time()`, over
`Annee` days after which `tm_yday` comes back to 0; `tz` is what `localtime`
adds. `Tick` lets time go by; `Lag` bounds the ticks for which work that is due
may wait. In the real program a thread is late by less than a second; a tick of
an hour or four makes that a lateness that lets the time of day cross a
boundary between two reads of it, which is all that the code can tell.
`Saut` steps the wall clock and `ChangerHeure` changes the zone, at `Bascule`,
at most `MaxSauts` times together. `iInitPlanification` is cut where another
thread can come in: the reading of the offset (`LireOffset`), each planning
(`PlanifierAvenir`, `PlanifierMaintenant`, `PlanifierPasse`) and the insertion
in the map (`Inserer`), since the timer runs before that; `iStartProfil` likewise
(`LancerProfil`, `DemarrerProfil`). `Stop` on a launcher is `ApresStop`, what
`Timer` shows of it: one that deletes itself is not joined, and may be gone before
`Stop` has read `cAutoDelete` and written `m_hObjetAttache`. The planner does that to a
launcher that still waits when the program was started between local and UTC midnight.
A profile that runs may also end because its select fails (`EchouerProfil`): it deletes
itself, and its stop timer still refers to it (`"echoue"`). The clean-up goes through
`mStopProfil` entry by entry, with what other threads do between the end of the profile
and its parameter (`FinArret`) and the stop of the timer (`FinStop`). `ub` says why the behaviour became undefined, and nothing
is modelled after it. Undefined: erasing an entry that is not in a map, two
threads in a map at once (`Course`), using a deleted timer, profile or
parameter. A map entry that is `Aucun` stands for one that is absent.
`UneFoisParPlanif` is the abstract specification `Journee` under the mapping that
takes for lit the profiles that are running: a profile cannot be put out and lit
again within its planning, which no invariant on the number of objects says.

**Partage.** `stTm` is libc's one `struct tm`, cut to what the code reads: the
hour, the day, and the shift that `tm_isdst` stands for. `gmtime` and `localtime` write
the three one after the other under libc's lock (`verrou`); the callers read, and
`mktime` reads and writes back, without it. `ete` is the part of the zone's offset `tz`
that is summer time. `Instant` is what `mktime` makes of a `struct tm`: it believes
`tm_isdst`, as the assignment of -1 is commented out (`General.cpp:42`), so that a UTC
hour or a `gmtime`'s 0 met in between shifts the result; `Normaliser` is what it writes
back. `lu` is what a thread has copied, `ecart` the error of the offset it is reading.
The threads are the main one, one launcher per planning and one sun; a
launcher is due when its planning begins, or at once if the daily planning finds it
under way, and its first step copies the profile's parameters (`copie` records that
they were not there). The sun of a profile runs until the timer that its launcher has
started stops it (`soleil`, `FinProfil`): over local midnight if the planning does, and
longer than the planning if the launcher was wrong about the time. The daily thread
clears and fills each profile's parameters in two steps. Every thread finishes in the
tick in which it starts, and `Reveil` waits for the readings that the previous wake-up
met: the code does in microseconds what is done once a second or less (a planning found
under way is launched after 100 us), and the question is which threads meet in the same
second.

**DlgI2c.** One action per stretch of code that runs without sleeping on the
single processor the driver was written for: a work is cut at `down`, at i2c
transfers and at `up`; `I2c_irq` and `fctTimerTrameVie` come at any point. `pic`
is the set of events that the board reports, `irq` a falling edge of its line
that is still to be handled. A slot of a ring is emptied when it is read, and
`perdu` records that an unread one was written over: neither is in the code, and
no guard but that of the end of the run (`Vivant`) looks at them. A status
that could not be read three times is any status, since the variable was never
written; a clear that fails leaves the board as it is. The board is an external
part: it drops the events that a clear names and pulls its line down again while
others are left. `SeuilZero` is the number of frames (10 in the code) after
which a line that stays low is cleared.

**ProfilSoleil.** `profil` and `soleil` are the `CThread` parts of the two objects
(allocated or not, `ArretThread`, pipe), with one program counter per thread;
the PWM's timer is reduced to what `Timer` shows of it: created, in its loop
(`m_bStarted`), past it, over. `Joindre` is the join of the profile's own
detached thread, which fails at once. `Perime` is a thread that goes on in a
deleted `CSoleil`, `DoubleJoin` two threads that join the timer's. `attendu` and
`perdu` record whether the sun happened to be over when the join returned and
whether a Stop of the timer was ignored. `iGererCourbe` is a turn of the sun's
loop here; what it computes is in `Soleil`. `Echecs` lets `pipe`, `pthread_create`
and `select` fail. `Planification` keeps of a profile whether it exists, runs
or was asked to end; `ArretAbouti` is what lets it take a stop that comes after
`Start` as certain to be obeyed.

**Soleil.** Curve values are exact: `y` is 7200 times the code's double, so that
all coefficients are integers and no rounding hides a comparison. `Courbe` is
defined apart from the code's segments, as the least of the eight straight
lines of `courbe eclairage.wxm`.

**PwmGpio.** A duration is a pair of words of `Mot` values; `SetDureeBas` and
`SetDureeHaut` store them, `LireBas` and `LireHaut` read them.

## Runs

| Run | Shows |
|---|---|
| `timer` | safety of Stop and deletion, `StopRevient` (Stop always returns), refinement of `TimerContrat` including its liveness; all three usages |
| `plan_nominal` | the planner, hour by hour, steady clock, local time UTC to UTC+2, threads late by a tick: its safety properties, `LanceEtArrete`, and the refinement of `Journee` |
| `plan_heure` | the same with summer time beginning and ending, a forward step, select failing: profiles stay single and stoppable, and a stop timer stays the only one in charge of its profile, dead only if its own select has failed or the clean-up is about to stop the timer (`StopPropre`) |
| `profil` | one profile, with or without a sun, every failure of a system call allowed: stops, deletions and joins |
| `soleil` | a whole day, second by second where the code is, each wake-up up to a second late |
| `pwm` | every interleaving of setting and reading the duration |
| `partage` | two days and every zone from UTC to UTC+2, winter and summer: which threads meet in the shared `struct tm` and parameters, and what that spoils |
| `dlgi2c` | the driver with two events, rings of two slots, every failure of a transfer: storing before clearing, rings and flags that agree, the frame of life, events served in the end unless a higher one comes back for ever |
| `plan_reglage`, `plan_largeur`, `pwm_rapport`, `i2c_lu` | the disagreements below |

Bounds, and why they suffice. Two plannings of 12 h, as in the source. Two days
to a "year": the code only compares `tm_yday` with the last one, so a change of
day and a change of year both occur, and TLC finds the cycle. Ticks of 1 h
divide every time in the table and every zone offset tried; the runs of 4 h
ticks keep the table's boundaries on ticks. Five timers and three profiles are
one more than a correct planner needs (two launchers, two stop timers, two
profiles), so that a superfluous one shows; when none is left the run stops
there (`Repos`). `Largeur` stands for 2^w in units of 2^10 us (1 h ticks) or
2^12 us (4 h): 2^20 units of 2^12 us is the 32-bit product, 2^30 is wide enough
for no overflow. The nominal run leaves out starts in the last tick of a
planning, when a late thread computes a stop duration of 0 (below); the run with
clock changes leaves out the last hours likewise. `MICRO_SEC = 100` and words of 128 values keep the
PWM's ratios: every duration fits in the low word, as 1 s fits in 32 bits.
`Partage` runs for two days of 1 h ticks, so that each day's planning comes both
with and without a sun already running. `DlgI2c`: two events are one that fills a ring and
one that it then refuses; a ring of two slots is the smallest that wraps around
with a message in it. With three the same safety properties hold (973 858
states); the liveness is checked with two only. `i2c_lu` has three, and fails
with two as well. One activation of the frame of life
(`MaxActivations`), with any number of deactivations: with two, `ChaineUnique`
no longer says anything and the run ends on `ub`; the other properties hold there
too (563 301 states).

Fairness. `Timer`: the scheduler runs every thread (`WF_vars(Thread)`), and a
`Stop` that was entered goes on (`WF_vars(Stop)`); nothing makes an owner call
it. `Planification`: weak fairness of time and of each kind of thread, which a
preemptive scheduler gives. `ProfilSoleil`: weak fairness of each of the three threads, and
of a thread gone astray; nobody is made to ask for the stop. `Soleil`, `PwmGpio` and `Partage` are checked for safety only.
`DlgI2c`: interrupts, works, timers and an application that reads what `poll`
announces go on. It is strong fairness for those that wait for `Monlock`: the
kernel's semaphore serves waiters in the order in which they came, so nobody who
waits is passed over for ever. Nothing makes a transfer succeed, an application
write or the frame of life stay enabled: `Servi` takes what it needs of that as
an assumption: commands and failures come to an end, and so does whatever event is
higher than the one in question. That last one is needed: the status is stored from the
highest event down, so that one that always comes back may take the only place the
application has freed and have a lower one refused for ever, with nothing failing. A
step counts as a failure only if it is not also a step that succeeds, since a read that
fails may leave the right status by chance (`Echec`).
No run turns deadlock checking off: where the system may stop, the module says
so by an action `Repos`.

### Disagreements found

1. `plan_reglage`: the daily planning runs at every change of the UTC day and does
   not look whether a profile runs already ("si pas déja fait",
   `MainTache.cpp:198`): when the date is corrected during a planning, or in a
   zone where UTC midnight falls inside one, two `CProfil` drive one pin. The
   launcher in the map is also replaced without being stopped there
   (`MainTache.cpp:207`, against 165): when the clock of a board that booted at
   midnight is set to another day at 8 h (`Depart = {0}`, `Reglage = {Jour + 2}`),
   `UnLanceurParPlanif` fails as well.
2. `plan_largeur`: `tPeriod * MICRO_SEC` is computed in `time_t`
   (`MainTache.cpp:251`): 12 h become about 250 s where it has 32 bits.
3. `pwm_rapport`: `ui64_usecEtatBas` is never used: the pin is high half of the
   time whatever the duty cycle.
4. `i2c_lu`: until the first read `index_bufr [1]` is -1, which no slot equals
   (`dlgi2c.c:214`), so the ring is never full, wraps around and writes over
   messages; the read that brings the indices together then clears `data_on` ("tout
   a été lu", `dlgi2c.c:671`) with other messages unread. `PerteAvantLecture` shows
   that this happens only before the first read.

Seen while modelling, and left without a run of their own:

* At the very end of a planning the stop duration is 0 (`MainTache.cpp:251`), on
  which `CTimer::Start` returns at once (`Timer.cpp:35`), and the profile is never
  stopped. `ArreteALaFin` fails with 4 h ticks, `Lag = 1` and every start.
* 100 per cent is outside `0 < dRapport < 100` and becomes 50 (`PwmGpio.cpp:60`): the
  light halves at noon. `HautSuivi` therefore leaves the top of the curve out.
* `char err` and `unsigned char ucI2cMasterSend` are compared with negative values
  (`dlgi2c.c:285`, 489, 491): where `char` is unsigned, as on the board's ARM, the
  alarm of the frame of life is never sent, and on every machine a failed transfer
  goes unnoticed. `CharSigne` chooses between the two.
* Once the application enables the frame of life a second time while the first
  goes on, `add_timer` meets a pending timer (`dlgi2c.c:297`, 959).

The exception in `SuppressionSure` is no corner: TLC reaches `ub = "soleil"` on the
ordinary end of a profile that has a sun, because `pthread_join(thread_id,NULL)`
(`Profil.cpp:78`) names the profile's thread. The property says that this is all
that is wrong with the deletion, Stops that are ignored apart.

## Proofs

`TimerProofs` proves, for every set of usages, `TypeOK`, `StopSynchrone`,
`UafOnlyAutoOrLost` and `OneShotOnce`, and that every step of the timer is a step
or a stutter of `TimerContrat` (its fairness is left to TLC). None is inductive
alone: `TimerInv` adds what ties the program counters to the members.
`StartedInv`: `m_bStarted` holds exactly in the thread's loop, and
`ArretThread` is 0 from `FctThread`'s first `SetArretThread` to its second.
`OwnerInv`: past `pthread_join` the thread is over, and a destructor that did not
lose its Stop runs after it. `ObjetInv`: only the destructor or a
self-deleting thread at its end frees the object, and what Stop wrote stays in
the pipe. `OneShotInv`: a one-shot that has fired is on its way out. The proof
has a step per action of the owner and of the thread. The refinement rests on
`EtatInchange` and `PasContrat`: which actions leave the contract's view alone,
and which step of the contract each of the others is.

`PwmGpioProofs` proves `DureeEntiere` for every frequency, duty cycle and word
size that exceeds one second in microseconds (`PwmAssumption`): every
duration is at most a period, a period at most a second, so the high word of
what is stored and read is always 0 and the low word is one of those written.

`ProfilSoleilProofs` proves `SuppressionSure` and `ProfilAttendStop`, whatever `Echecs`.
`DemandeInv` follows the stop from the one who asks to the profile's loop: a flag
of 1 or a byte in the pipe means that somebody asked. `SoleilInv` and `TimerInv`
say where the three threads can be with respect to each other: the timer's
thread begins after the sun's, and once the sun is over, with no Stop ignored,
the timer's is over or never was.

`ProfilTypeOK` and `PwmTypeOK` are the first conjuncts of these two invariants.

`PlanificationProofs` proves `TypeOK` and `StopPropre` for every table, clock, zone,
width of `time_t` and number of timers, failures of select and the clean-up included.
`StopPropre` says which two things may end a profile before its stop timer (its own
select, and the statements of the clean-up before that timer is stopped), that only the
first leads to a use of the deleted profile, and that no two timers share one. It needs to know which objects
are new: `Libre` is a timer to which neither a map nor another timer refers
(`LibreFait`). `NumInv` keeps launchers on plannings of the table; `LibreInv` says that a
timer that is over has forgotten its profile; `StopInv`, that `mStopProfil` and the
launchers in the middle of their callback refer to stop timers only, so that
what a callback or the clean-up ends is never a launcher's profile. Each action
is a lemma of its own, and the actions that make no new stop timer share one
(`SansNouveauTimer`).

`PlanifHoraireProofs` proves the properties of `Planification` that depend on the hours:
`UnLanceurParPlanif`, `StopPrevu`, `UnSeulParProfil`, `IndefiniSeulementCourse`,
`DoitEtreLance`, `ArreteALaFin`, and that the planner implements `Journee`
(`UneFoisParPlanif`). Its hypothesis is `Marges`. The wall clock is not stepped and
keeps its zone, any of `Fuseaux`. Each planning begins more than `Lag` ticks after the
change of the UTC day and of the local one, and more than twice that before the next; it lasts
longer than that, and is over more than `Lag` before it begins again. Its length does
not overflow `time_t`. No two plannings have the same profile. The program is not started
in the last `Lag` ticks of a planning, nor, during one, in the last ones of the local
day. The
program's table (8 h and 20 h, for 12 h each) has these margins in every zone from UTC to
nearly UTC+8 with a `time_t` of 64 bits, threads being late by less than a second;
TLC evaluates `Marges` on the instance of `plan_nominal` (`DansLesMarges`). Without
them the properties are false: `plan_reglage` steps the clock and `plan_largeur` overflows.
`DoitEtreLance` and the refinement also assume that `select` does not fail
(`~ErreurSelect`), since a profile whose own select fails, or the clean-up, puts it out in
the middle of its planning; the five other invariants do not. `IndefiniSeulementCourse`
lists the ways in which the code's behaviour can become undefined; the proof shows that
there are no others within the margins.

The inductive invariant, `HoraireInv`, is `PlanifInv` and the parts of `Ordre`. What the
main task does takes at most `Lag` ticks, so that the day it remembers is the
current one except just after UTC midnight or the start (`JourInv`), plannings are
made at these two moments only (`OccupeInv`) and with a time of day that is still right
(`PlanInv`): UTC midnight is before every planning, so that nothing runs that is planned
again, and at the start nothing exists yet (`Premier`). Hence a launcher
runs out when its planning begins (`LanceurInv`) and is the one in the map (`CarteInv`);
its callback makes a profile and a stop timer that has exactly the rest of the planning to
wait (`RappelInv`, `MinuteInv`; `DureeStopMarges` is where the product does not
overflow); a profile lives as long as the planning does and `Lag` ticks more (`ProfilInv`),
which is over before the next launcher is. `PrevuInv` says that each planning of the
day is awaited or lit until it is over. TLC found `HoraireInv` to hold on the instance of
`plan_nominal`, failures of `select` included (565 644 states). The time of day and the
number of the day are quotient and remainder of one count, which the prover follows
over a tick by `DivModFait` and `JourSuivant`, whatever the length of the day and of the
year; everything else about time is in `TickFait`. There is a lemma per action, and for a tick one per
part of the invariant; `TickJournee`, `DemarrerJournee` and `ArreterJournee` are the three
kinds of steps that `Journee` sees.

`SoleilProofs` proves `TypeOK`, and `CourbeSuivie` and `HautSuivi` for every time of
start and every lateness of at most a second (`Retard <= 1`): with two seconds
a wake-up uses a segment that is over, and TLC finds `CourbeSuivie` violated. The
values of the eight lines are concave, so that each line is the least of all from the
start of its segment to its end included (`LigneConcave`), and a kept index is
that of a segment that has begun and whose end is not before the next wake-up
(`IndexInv`). The times of the segments come from a recursive function,
whose value is shown by giving one that satisfies its equation.

`DlgI2cProofs` proves all the safety properties of `DlgI2c`, for every set of events,
every size of the rings and every failure. `ChaineInv`: at most one of timer, queued
work and running work carries the frame of life on, and only after an activation.
`DialogueInv` is about the rest. A ring satisfies `AnneauInv`: index [1] follows
index [0], and the slots in use are those between the two, until a message is written
over. Storing a message keeps it (`AjouterFait`), and writes over another one only
while index [1] is still -1: afterwards the next slot to write is free
(`ApresLibre`). `Stockes` is what makes clearing an event safe: from the storing of
the status to the clear, each of its events has its message in the ring, since
whoever else touches the ring needs `Monlock`, which `Verrou` gives to the task. The
loop over the status is a recursive function, shown to be defined by its eight values
(`NoterDefini`) and followed from bit 6 down to bit 0 (`Descente`, `BoucleInv`).
`StatutAssumption` says that a ring has room for a whole status, 7 events and 10 slots
in the code: otherwise a ring not read yet goes round within one status and
`EffaceApresStockage` fails, as TLC shows for three events and two slots.

`PartageProofs` proves `TypeOK` for every table, and the other properties of `Partage`,
for every length of a day, under `Horaires`: whatever the zone and the shift of summer
time, each planning begins, by the local time, after the hour at which the UTC day
changes, and not in the day's last hour; one with a sun is over before local midnight, by
the largest error of a reading and once more the shift, which `mktime` may add when it
writes back. `JourInv` says that the main thread works alone (`Seul`) from the moment
the day has changed, or from the start of the program, until it has planned the day;
`HeureInv`, that the other threads run only in hours when the local and the UTC date
are the same, so that all that they write to `stTm` has the right day
(`TmInv`). Without the hypothesis they are false: a sun that runs over local midnight
puts the local date where the planner reads the UTC one, and a planning that begins
between the two midnights is launched while the planner refills the parameters. The
program's table (8 h and 20 h, a sun on the first) satisfies `Horaires` in winter up to
UTC+3 and in summer up to UTC+1; in the summer of UTC+2 the general bound on the error
would let its sun end an hour too close to midnight, and it is TLC that shows, on every
behaviour of two days, that the program does not come to that.

Model-checked only: liveness (`StopRevient`, `ArretAbouti`, `LanceEtArrete`,
`Servi`, the liveness of the contract), which the prover does not do; and the
properties of `plan_heure` when the clock is stepped or the zone changes, except `TypeOK`
and `StopPropre`: they depend on how far the steps add up, against the hours of the table.

## Left out

* `new` never fails, and `write` to a pipe succeeds. `pipe()` and
  `pthread_create` fail in `Timer` and `ProfilSoleil` only: descriptors and threads that plain
  timers never give back are a hazard that is listed and not covered.
* The select of a timer fails in `Timer` only: in `Planification` a timer that was
  started runs out.
* A Stop on a launcher that has not yet set `m_bStarted` is in `Timer` only; in
  `Planification` a launcher that was started can be stopped.
* `EINTR` in the loops of the sun and of the planner: they go round again.
* Parameters are constants: `pstInit` writes the same values each day. Its flags
  (`BaseSqlite.cpp:17-19`) are read by nobody, and are not modelled.
* `Partage` has summer and winter, not the day on which one becomes the other, and no lateness of more than a tick;
  `Planification` has both, and reads the local time in one step.
* Of `dlgi2c.c`: the push button, which stores its messages without `Monlock`
  (411-457); attach before its last line, where the interrupt is requested
  before what it uses exists (540-570), detach and suspend; open, poll and the ioctls
  that forward one transfer.
* The contents of GPIO registers, printing and logging.

## Not modelled

Most of the lines of the repository are vendored libraries (`sqlite3`, `mysql`,
`pthread-win32`, of which it has mainly headers and shells) that the program
does not even link, or files that its Makefile does not compile: their share in
what the modules cover stays nil. `AquaPwm.c` and the other example drivers forward
single accesses to registers and have no state that two contexts share.
`gpio-mmap.*` is one register access per function.

## Plan

Done: `Timer` and its contract, `Planification` and the abstract day it implements,
`ProfilSoleil`, `Soleil`, `PwmGpio`, `Partage`, `DlgI2c`, and the proofs above.

To extend, in order:
1. Descriptors and threads of plain timers as a resource of `Planification`.
2. `TimerContrat` in place of the reduced timer of `ProfilSoleil`, and the level of
   the pin when a profile ends.
3. `DataIn` statement by statement, with the push button of `dlgi2c.c`.

To prove: what `plan_heure` checks, under a bound on the sum of the clock's steps: the
margins of `Marges` widened by that sum.

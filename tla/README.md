# applauncherd: a TLA+ verification project

applauncherd speeds up the start of applications. A daemon keeps one *booster*
process per application type, preloaded and waiting; an *invoker* connects to
it, tells it what to launch, and the booster loads that program and becomes
it, while the daemon forks the next booster. This directory holds TLA+ models
of that machinery, TLC configurations that check them, and TLAPS proofs.

## 1. Inventory

| Component | State | Operations | Where |
|---|---|---|---|
| Daemon | `m_children`, `m_boosterTypeToPid`, `m_boosterPidToInvokerPid`, `m_bootMode`, booster pipe, three signal pipes | `run`, `readFromBoosterPipe`, `forkBooster`, `reapZombies`, `enterNormalMode`, `killBoosters`, signal handlers | `launcherlib/daemon.cpp`, `main.cpp` |
| Booster | its stage, signal dispositions, parent-death signal | `initialize`, `receiveDataFromInvoker`, `sendDataToParent`, `run`, `launchProcess` | `launcherlib/booster.cpp` |
| Connection | the request received so far, `m_sendPid` | `accept`, `receiveApplicationData`, `receiveActions`, `sendPid`, `sendAppExitStatus` | `launcherlib/connection.cpp`, `common/protocol.h` |
| Invoker | the words sent, `g_invoked_pid`, signal handlers | `invoke_remote`, `invoker_recv_*`, `sig_forwarder` | `invoker/invoker.c`, `invokelib.c` |
| Start-up | lock file, socket files | `Daemon::lock`, `daemonize`, `initSocket` | `daemon.cpp`, `main.cpp`, `socketmanager.cpp` |
| m-booster | Qt event queue, accepting thread, SIGHUP socket pair | `runEventLoop`, `accept`, `notifyThemeChange`, `handleSigHup` | `mbooster/` |
| Single instance | a lock file per application, windows | `lock`, `unlock`, `activateExistingInstance` | `single-instance/main.cpp` |
| Socket manager, plugin registry | `m_socketHash`, `m_registry`, the copies of the sockets in boosters and applications | `initSocket`, `closeSocket`, `closeAllSockets`, `validateAndRegisterPlugin` | `launcherlib/socketmanager.cpp`, `boosterpluginregistry.cpp` |
| Invoker's command line | options, delays, the program found | `main`, `get_delay`, `search_program` | `invoker/invoker.c`, `search.c` |
| What a booster hands to `main()` | `AppData`, priority, directory, descriptor table | `pushPriority`, `popPriority`, `launchProcess`, `loadMain`, `receiveIO` | `booster.cpp`, `appdata.cpp`, `connection.cpp` |
| QDeclarative cache | cached `QApplication`, its arguments, the view | `populate`, `qApplication`, `qDeclarativeView`, `applicationFilePath` | `qdeclarativebooster/` |
| Launcher executable, logger | | preloading, log lines | `launcher/`, `launcherlib/logger.cpp` |

How they interact: boosters inherit the listening sockets, the write end of
the booster pipe and (until they reset them) the signal handlers of the
daemon. A booster reports a launch to the daemon in three writes on the pipe
all boosters share: type, invoker's pid, respawn delay. The kernel reports a
booster's end by SIGCHLD, whose handler writes to another pipe. Invoker and
booster talk over a stream socket. The daemon passes the signal that killed an
application on to the invoker paired with it.

What is hard: the two channels over which the daemon hears of one process
(report and SIGCHLD) are not ordered; reports of two boosters interleave; a
signal is not queued; fork() duplicates handlers and descriptors but not record
locks; every read blocks; either end of a conversation may die at any word.
Listening sockets outlive the daemon in whoever inherited them; descriptors
are closed by remembered numbers; the program is looked for in one process,
loaded in another and run with the environment of the first.

What makes the parts correct: no booster type is ever lost and each has a
waiting booster again; no death is overlooked; an invoker is only told of the
death of its own application; an acknowledged request was read completely;
nobody hangs on a partner that is gone; one daemon, one instance; a connected
invoker is accepted, and by a booster of its own type and daemon; what the
user typed is what the application finds.

`PROJECT.json` lists the hazards line by line with the properties for them.

## 2. Modules

| Module | Models |
|---|---|
| `Launcher`, `MCLauncher` | daemon, boosters as processes, booster pipe byte by byte, signal pipes |
| `LaunchPromise` | abstract: what one run of the invoker promises |
| `Invocation` | one launch, word by word, invoker against booster; implements `LaunchPromise` |
| `Startup` | lock file, `--daemon`, socket files, several instances |
| `EventLoop` | the m-booster's two threads while it waits |
| `SingleInstance` | several launches of one single-instance application |
| `Sockets`, `MCSockets` | plugins, listening sockets and who holds them, backlogs, over the death and restart of the daemon |
| `CommandLine` | the invoker before it connects: options, numbers, program search |
| `Descriptors` | descriptor tables by number: daemon, booster, application |
| `MDeclarativeCache` | cache of the QDeclarative booster |
| `AppView`, `MCAppView` | composes the three above with `AppData`, priorities and loading: one launch from typed words to the calls of the application |
| `LauncherProofs`, `InvocationProofs`, `StartupProofs`, `EventLoopProofs`, `SingleInstanceProofs`, `SocketsProofs`, `AppViewProofs` | TLAPS proofs about the module of that name |
| `DescriptorsProofs` | lemmas about `Descriptors`, used by `AppViewProofs` |

Every constant is given its value in a `.cfg`; the `MC` modules define the
values that a `.cfg` cannot spell, the symmetry sets and the state constraints
(`Launcher_daemon.cfg` and `Launcher_live.cfg` are for `MCLauncher`, the three
`Launcher_v_` ones for `Launcher`). Definitions called *Mutant* in
their comment are not part of the specification: each is a plausible mistake
in the action that follows it, and the property named for it in
`PROJECT.json` fails when the action is replaced by it.

### Launcher

`dpc` is the daemon's program counter. `Select` takes the snapshot of readable
descriptors; the handlers then run in the order of the code, each guarded by
the descriptors before it being done. `readFromBoosterPipe` is three actions,
because each of its reads may block; `reapZombies` is one action per child,
because children die during the pass. `forkBooster` is an operator,
`ForkBooster`, that clears the type's entry, forks, or ends the daemon if
fork() fails. A forked process walks through `forked` (daemon's handlers
still set), `default` (reset), `init` (parent-death signal set), `waiting`,
`serving`, three `send...` states, `sent` and `app`.

A report is a sequence of bytes. Bytes of the wrong word make a type that may
be any char, and a pid that is 0 or `Garbage`; so reading out of step is part
of the model, not excluded from it.

Choices: `m_children` is a set visited in pid order. Pids grow and are never
reused, and a booster is forked at the end of the vector, so the vector is
sorted; the newborn are visited in the same pass, as the iterator of the code
does. Pids that wrap around are outside the model. The pipes never fill up
(`PIPE_BUF` is far away from any bound here). A sleep is a step that takes as
long as it likes. An application is assumed to leave deadly signals at their
default. `MaxPid` is both a bound and the process limit of the system: when it
is reached fork() fails and the daemon dies as in the code.

### Invocation

The invoker's request is a sequence of words built once (`Words`), the
booster's handlers consume it by `Extent`. A list has some items, too many, or
one that is too long. Every write may meet a closed connection (SIGPIPE),
every read the end of the stream: the booster then reads 0, the invoker keeps
an uninitialised variable, `"junk"`. `KillInvoker` and `KillBooster` strike at
any point; `DaemonForwards` stands for `reapZombies`. A request whose invoker
has a standard descriptor closed (`io` false) has its SCM_RIGHTS message
missing, because sendmsg() fails and that is only reported; the booster then
takes a byte of the next word for it and every word that follows is out of
step.

`LaunchPromise` has five variables: whether the invoker waits (`wait`), what
has become of the application (`app`) and of the process it runs in (`end`),
whether signals are forwarded (`forwarding`), and how the invoker ended
(`told`). It promises what `src/README:263` says of a launch that is waited
for: the invoker exits with the status that `main()` returned, ends by the
signal that ended the application, and a signal that hits the invoker ends the
application too; a failure is only told of an application that did not and will
not start. What the code does beside that is an action or a conjunct of its
own, called an exception in its comment:

* an application that calls `exit()` has its status replaced by 250, against
  `src/README:263` ("exits with the same exit code") and
  `tests/Harmattan/TestScripts/test-func-launcher.py:414` ("invoker returns
  the same exit status as the application"). For one that returns from
  `main()` they hold;
* a signal that reaches the invoker before `sigs_init()`, and SIGKILL, leave
  the application running (`HitAlone`), against `src/README:264` ("Unix
  signals are also forwarded") and `test-func-launcher.py:244` ("the launched
  application should die too"). After `sigs_init()` a signal ends both
  (`HitForwarding`);
* a process killed after `main()` returned may leave the invoker with 250, or
  with a status it never read (`Unknown`), since end of stream is not noticed.

`KeepsPromise` is that `Invocation` implements it with `wait <- req.wait`,
`end <- bend` and `forwarding <- (handlers = "forward")`.

### Startup, EventLoop, SingleInstance

`Startup` has one record lock, which belongs to a process: `Fork` does not pass
it on and `Gone` drops it. Socket files stay when their creator dies.
`EventLoop` keeps the order of `runEventLoop`: the thread is started before the
SIGHUP handler is set and before exec(). A slot called across threads is a
posted event. `Start` and `StartFails` are the launcher executable, which may
end before main() of the library for want of a display or a library.
`SingleInstance` covers the `single-instance` program and the booster that
uses it as a plugin; a name cut off by `renameProcess` (`Cut`) is not found by
the window search. A daemon that could not load the plugin launches such an
application without any lock (the code warns); those launches are not
`Guarded`, and the properties speak about the guarded ones.

### Sockets

A socket is a pair of daemon and name. `fds` says which names each process
holds, `file` which daemon's socket a socket file names. When the last holder
of a socket goes, the connections in its backlog are reset (`Backlogs`,
`Told`). Each daemon loads the plugin directory file by file, in the order of
glob(): a file that lacks a symbol is passed over, a second plugin of a type
overwrites the entry of the first. A registry is kept per daemon, because the
processes a daemon forked go on with their copy of it when that daemon is
dead and the next one is loading. `StartWaiting` is `closeUnusedSockets` and
`findSocket`, with the death of a booster whose own name was closed as
another's. `Launch` is the head of `run`: sockets are closed before main()
unless an exit status will be reported. The daemon may die at any moment and
be started once more; only boosters past `SetPdeathsig` die with it.

A report is three words, which `SendType`, `SendPid` and `SendDelay` write one
at a time; the daemon takes them in `ReadType`, `ReadPid` and
`ReadDelayAndFork` and blocks between them. If the next word is not the one it
expects, because two reports got mixed up or one was broken off, it is in
state `astray` for good: there it may fork for any char (at most once for
three words, since no misreading makes a report of fewer bytes), die of a short
read, or do nothing. That allows more than the bytes do, which `Launcher`
follows one by one; what holds in `Sockets` holds for those too. `KillAt` says
where a booster may be killed.

`QueuedMovesOn` names the four cases in which a connected invoker does wait for
ever. `LeftBehind`: the daemon is gone and only applications that are waited
for still hold its socket; connect() succeeds, nobody accepts. `Ambiguous`:
two types' plugins name one socket, and the boosters of both die at start.
`BrokenOff`: the daemon is blocked in read() by a booster killed halfway
through its report (the same as run `midsend`). `astray`: it read reports out
of step and need not have forked the booster this invoker waits for.

### CommandLine, Descriptors, MDeclarativeCache, AppView

`CommandLine` takes one option per step, in any order and with repetition, and
keeps two records: `typed`, what the user said last, and `req`, what main()
made of it. A number goes through `Strtoul` (clipped and ERANGE, negative ones
wrap) and is cut to an unsigned int by `GetDelay`, before the comparison with
ULONG_MAX, as in the code. An unsigned long is at least as wide as an unsigned
int (`UserType`), which C guarantees. `Hits` is the loop over the elements of
`PATH`, of which `SearchProgram` takes the first that is there. A path is a
directory and a rest; the name of the program itself does not matter. A user
also has the set of directories that can be entered (`dirs`): `Launch` calls
chdir() for `$PWD` and goes on whether or not it succeeds, as the code does.

`Descriptors` is a kernel table per process together with the numbers that the
code remembers. `Open` takes the lowest free number, `Close` goes by the
remembered one, whatever is open there (`CloseAll` does so for a set, which
is the same as one after the other). The first log line takes a number too.

`MDeclarativeCache` numbers the application's arguments, so that a padded or a
made-up one is told apart. `AppView` follows one booster: fork, wait, accept,
request, `launchProcess`, then any sequence of calls on the cache. `named` are the views whose windows
were given the application's WM_CLASS. The conversation with the invoker goes
well here; `Invocation` is about that.

## 3. Runs

| Run | Checks | Bounds and size |
|---|---|---|
| `daemon` | `TypeOK`, `BoosterOfEveryType`, `NoStalePair`, `NoForgottenZombie`, `BootBoosterReplaced` | two types, two invokers, four processes, boot mode, one SIGUSR1, SIGTERM; symmetric types and invokers; 3.7 M states |
| `live` | `WaitingAgainInStep`, `ZombiesReaped` | `FairSpec`, two types, two invokers, words of two bytes, one kill outside the two windows between writes; seven processes, so that fork() never fails; two of them end; 284 k states |
| `midsend` | violated: `WaitingAgain` | one type, one invoker, the kill between two writes |
| `pairing` | violated: `InvokerOutlivesApp` | three invokers, one kill of a waiting booster |
| `usr1` | violated: `Usr1KeepsDaemon` | boot mode and one SIGUSR1 |
| `invocation` | `TypeOK`, `AckMeansComplete`, `ForwardsToTheApp`, `InvokerEndsToo`, `BoosterMovesOn`, `KeepsPromise` | every shape of request, standard descriptors open or not, two signals; 117 k states |
| `startup` | `TypeOK`, `OneForegroundDaemon`, `Reachable`, `Settles`, `ParentsLeave` | three instances, one with `--daemon`, two sockets; 54 k states |
| `second_daemon` | violated: `OneDaemon` | the same |
| `event_loop` | `TypeOK`, `ConnectionHandedOver`, `InvokerAnswered`, `ThemeHeeded`, `DaemonsEndNoticed` | no bounds; one invoker, theme change and SIGHUP each; 410 states |
| `single_instance` | `TypeOK`, `OneInstance`, `SomebodyRuns`, `RaisesTheApplication`, `Resolved` | three launches with and one without the option, booster with or without the plugin, two mishaps; 8 k states |
| `sockets` | `TypeOK`, `OnlyOwnListener`, `ServedByItsType`, `NoServiceFromTheDead`, `QueuedMovesOn` | `FairSpec`; three plugin directories, two invokers of one type or of two, one of which waits, a kill of any booster that has written its type only, four processes, two daemons, backlog 1; 655 k states |
| `app_view` | `TypeOK`, `DelaysAsTyped`, `OptionsHonoured`, `RightProgram`, `RunsAtItsPriority`, `StdioHandedOver`, `CacheAnswers` | eleven users, six ways to start the daemon, three options, three views; 466 k states |

Bounds. `daemon`: two types are needed for reports to interleave, and four
processes for both types to be replaced once, or one of them twice. Every
occurrence of a type or an invoker in `Launcher` is symmetric (no order, no
CHOOSE among them) and the run has no temporal property, so the reduction is
sound. Deadly signals from outside are left to `live`: with one here the run
has 9.5 M states. All five invariants are proved for all constants.
`live`: with two types the reports of two boosters do get mixed up, and then
part of a pid is read as a type: the daemon forks for another type, and the
type whose report it was has no booster for as long as its application runs.
`WaitingAgain` as the tests state it is false then, so the property that holds
is `[]~Interleaved => WaitingAgain`. The constraint `InStep` leaves out only
what its hypothesis does. `Representative` keeps one of the behaviours that a
permutation of types and invokers makes of one another, which is sound with
liveness because it looks only at facts that never change once they hold and
some permutation of every behaviour satisfies it. `FewEnd` is a bound: two
processes end, of which one may be killed. `sockets`: with four processes
there is a booster of each type and a replacement for two reports, or a
replacement and a booster of the second daemon; with backlog 1 the second
invoker finds it full. `MCSettings` has the directory as shipped, with
invokers of one type and of two (whose reports get mixed up), one with a
broken file and two plugins of a type, and one with a name used twice.
`app_view`: widths are scaled so that every case of `get_delay` occurs: an unsigned int has 4 bits, an unsigned long
4 (a 32-bit build) or 6 (a 64-bit one), `MCNumbers` has values below, at and
over each limit, and over the maximum of 10. `ARGV_LIMIT` is 3, and
applications have 1 to 4 arguments. The users differ in where the program is,
what shadows it, `PATH`, `PWD` (not set, wrong, gone) and priority; the starts
in which of 0..2 are open, `--quiet`, `--daemon`, boot mode, left-over socket files, priority and
privileges.

Deadlock is not checked anywhere: the daemon idles when nothing happens, and
instances and launches end.

The violated properties state what the repository's documentation, comments or
tests say; what the code does instead:

* `midsend`: a booster killed between two writes blocks the daemon for ever.
* `pairing`: a report read after its sender was reaped leaves two waiting
  boosters of one type; from then on an invoker is paired with a booster that
  is not its own, and the death of that booster kills the invoker while its
  application runs.
* `usr1`: SIGUSR1 right after a fork ends the daemon through the SIGTERM
  handler the booster inherited.
* `second_daemon`: with `--daemon` the lock is lost in the double fork.

Beside these, several properties that hold name exceptions of their own, where
the code does less than one might expect. Each is in the formula and in its
comment. These disagree with a document, a comment or a test:

* the exit status of `exit()`, and signals that are not forwarded
  (`KeepsPromise`), see *Invocation* above;
* a type without a booster after reports got mixed up (`WaitingAgainInStep`,
  `QueuedMovesOn`), or with the daemon blocked in read() (`BrokenOff`, and run
  `midsend`), although `test-func-launcher.py:375` has no such condition when it
  says "Test that booster is restarted if it is killed";
* `applicationFilePath()` is documented as "the file path of the application
  executable" (`mdeclarativecache.h:67`). It is that only for a populated cache
  and a program that was not called by its bare name, and a relative path only
  as seen from the invoker's directory; in boot mode it is the launcher's path
  (`CacheAnswers` states this as an equivalence);
* `-w` after `-n` has no effect, which the usage text (`invoker.c:415`) does not
  say (`OptionsHonoured`).

Of these no document speaks:

* a stranded invoker (`LeftBehind`) and two plugins with one name (`Ambiguous`),
  see *Sockets* above;
* `killBoosters()` signals the process of every key. The NUL key that a misread
  report can make outlives its process (`BoosterOfEveryType`, `NoStalePair`);
* a booster that is displaced from the table by a second one of its type is
  not signalled by SIGUSR1 (`BootBoosterReplaced` is about current ones);
* a delay that does not fit an unsigned int is cut (`AsTyped`); a directory
  earlier in `PATH` hides a program, an empty element of `PATH` is skipped, and
  an application whose `$PWD` cannot be entered runs in the daemon's directory
  (`RightProgram`);
* a booster without privileges keeps the nice value of 10 it gave itself
  (`RunsAtItsPriority`);
* a theme that changes before the m-booster has connected the theme item goes
  unnoticed (`ThemeHeeded`);
* the cached view is given the application's WM_CLASS, if qApplication() comes
  first; for any other view this is left to Qt (`CacheAnswers`);
* a daemon started with one of 0..2 closed gets a pipe or the lock there, and
  the hand-over breaks; the m-booster's socket pair for SIGHUP stays open in
  the application (`StdioHandedOver`).

Fairness. Daemon, its SIGCHLD handler, boosters, invoker, threads and starting
instances are processes of a preemptive kernel and are scheduled when they can
run: weak fairness for each. Connecting, killing, failing, ending of an
application, and the appearance of its window have none; in `Sockets` neither
has the restart of the daemon, nor a daemon that is astray. `WaitingAgainInStep`
and `QueuedMovesOn` rest
on one assumption about the other side: `Served` is among the fair booster
steps of `Launcher`, and `NobodyStalls` is a conjunct of the `FairSpec` of
`Sockets`, so an invoker that has connected is taken to send its whole request.
The real invoker does so unless it is stopped, and when it dies the booster's
read ends (`Invocation` models both). A client that connects and stays silent
keeps its booster, and with it the type, busy for ever: `Connection` has no
timeout, and the properties do not speak about such a run.

## 4. Proofs

Every invariant of every passing run is proved for all values of the
constants, and so is the refinement. The only hypotheses are the named
assumptions of the modules, which TLC evaluates in the runs. They give the
types of the constants and keep the names of *nothing* (`None`, `NoInvoker`,
`Nul`, ...) apart from real values; beyond that they say that a word has more
than one byte, that an unsigned int holds `MAX_RESPAWN_DELAY` and an unsigned
long every unsigned int, that the name of a type is the name of a socket, that
SIGPIPE is not among the signals sent from outside in `Invocation` (it comes
from a write), and that a descriptor table goes to 24 at least (the kernel's limit is 1024, a
launch needs 22 numbers, see below).

Each proof has the same plan: an inductive invariant (`IInv`, or `TypeInv` and
`Book` in `LauncherProofs`), a conjunction of named parts; a lemma per action;
one short theorem per property. TLC has found each of these invariants to
hold under the constants of the runs.

**Launcher**

* `Typing`: inductive with `SnapOK`: a descriptor in the snapshot still has
  something to read when its turn comes, since only the daemon reads; without
  it the byte counters could go below zero.
* `NoTypeIsLost` (`BoosterOfEveryType`) and `PairsAreFresh` (`NoStalePair`).
  The invariant `Book` says that pids not yet forked are unused, children are
  exactly processes forked and not reaped, every entry of a letter other than
  NUL names a child forked for that letter, and all types have an entry once
  `start` is over. Its point is that a report read out of step can only add a
  process for the letter it names: it never removes an entry of another.
* `NoWakeupIsLost` (`NoForgottenZombie`). Every action either makes no zombie
  and consumes no announcement (`QuietStep`) or is treated alone: ending a
  child sets SIGCHLD pending, the handler turns that into a byte, and the byte
  is consumed only to begin a pass that visits every child.
* `BootModeEnds` (`BootBoosterReplaced`). Inductive together with `Book`, which
  gives that the entries killBoosters() signals are all current boosters.

**Invocation.** `CompleteBeforeAck` needs the position of the booster in the
request between any two rounds (`ActionsOK`): an abandoned list leaves it at a
word that is no action, so that the acknowledging word is never met by
accident. `ForwardsRight` and the refinement need the other direction,
`StreamOK`: the words under way are exactly the part of the booster's fixed
script of replies that the invoker has not read, so that a status can only be
read when the application has returned it, and an uninitialised pid only when
the booster is dead. `PromiseKept` is `Spec => KeepsPromise`: under the
refinement mapping (`wait <- req.wait`, `end <- bend`,
`forwarding <- (handlers = "forward")`) initial states map to initial states
of `LaunchPromise` and each action to one of its steps or a stutter (a lemma
per group of actions). It needs one invariant more, `EndOK`: a process that
went on to its regular end has written the whole status, so the invoker does
not meet the end of the stream before it, and an application that did not
return from `main()` ended as its process did. `LaunchPromise` has no fairness,
so this is the whole refinement.

**Startup.** `ForegroundExclusion` (`OneForegroundDaemon`) and `FilesReachable`
(`Reachable`). The lock has one holder (`OneHolder`), how many forks lie
behind an instance follows from where it is (`Forks`), and an instance that
never forks therefore still is the process that took the lock (`KeepsLock`).

**EventLoop.** `HandedOver` (`ConnectionHandedOver`): a quit() is only posted by
a thread that has finished, so only such a thread lets the loop be left
(`HandOver`).

**SingleInstance.** `AtMostOne`, `AtLeastOne`, `RaisesAnother`. `Locked`: a guarded
launch is the application exactly if it holds the lock. `StoodBack`: without a mishap
nobody is turned away by a free lock.

**Sockets.** `ListensOnItsOwn`, `RightType`, `OnlyTheLivingServe`. `RegistryOK`:
after n files the registry has exactly the last good plugin of each type among
them; since the directory stays the same, a later daemon makes the same
registry, and so replaces every socket file there is (`FilesOK`) before it
forks anyone. `ProcessesOK`: a process holds all sockets of the daemon that
forked it, then that of its type, then perhaps none; the process of a char
that no plugin has ends before it waits. None of this looks at what is in the
booster pipe, so it holds for a daemon that is astray too. `InvokersOK`: whoever
is queued or served met the daemon of that very socket, or none.

**AppView.** `DelaysKept`, `OptionsKept`, `ProgramKept`, `PriorityKept`, `CacheRight`:
what main() of the invoker has made of the options at any point
(`ParsedOK`), what the search found (`FoundOK`; lemmas compare it with
`ShellFinds`, which skips directories and does not skip empty elements), what
the booster holds of it at each stage (`DataOK`, `ProcOK`), and what the cache was told and has given
away (`AskedOK`, `ViewsOK`). `Typing` and `StdioKept` (`StdioHandedOver`) rest
on `TablesKept`, whose invariant follows the descriptor tables from stage to
stage. `DescriptorsProofs` has the terms for it: `Room(p, k)`, nothing is
open from number k on, the log aside, which makes `Lowest` well defined; and
`Has(p, S)`, the open objects are exactly those of S, each under the number
remembered for it. `Room` holds however the daemon was started and gives the
bound on the table: at most 21 numbers and the log. `Has` holds if 0..2 were
open at the start; then no remembered number is below 3, and no target of the
dup2() loop is the source of a later move.

Only model-checked, because fairness is out of the prover's reach:
`WaitingAgainInStep`, `ZombiesReaped`, `InvokerEndsToo`, `BoosterMovesOn`, `Settles`,
`ParentsLeave`, `InvokerAnswered`, `ThemeHeeded`, `DaemonsEndNoticed`, `Resolved`
and `QueuedMovesOn`.

## 5. Not modelled

Toolkit preloading; user and group ids, credentials and `oom_adj`, which are
set once and read by nobody here; the text of process names, reports and log
lines; the sleep of `--delay` after the invoker is done; `invoke_fallback`
(never called); pids that are reused; an application that installs signal
handlers, so that a forwarded signal does not end it, or closes descriptors of
its own accord; `applicationDirPath()`, which is cut from the same `argv[0]` as
`applicationFilePath()`; a wrong protocol version,
which the invoker of this repository never sends.

## 6. Plan

1. Done: `Launcher`, `Invocation` with `LaunchPromise`, `Startup`, `EventLoop`,
   `SingleInstance`, `Sockets`, `AppView` with its parts; proofs of all their
   invariants and of the refinement.
2. Next: an abstract specification of the booster pool (per type: how many
   wait, who is served) that `Sockets` implements, by TLC first and then
   proved from the invariant there is.
3. Action properties from the same invariants: a pair of booster and invoker
   is never changed to another invoker, the registry of a daemon never changes
   once it forks, a verdict of the invoker is final.

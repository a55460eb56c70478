------------------------------ MODULE Launcher ------------------------------
(***************************************************************************)
(* The applauncherd daemon (launcherlib/daemon.cpp, main.cpp) together     *)
(* with the booster processes it forks (launcherlib/booster.cpp), the pipe *)
(* on which boosters report a launch and the three pipes that carry the    *)
(* daemon's own signals.                                                   *)
(*                                                                         *)
(* What is kept: the order of the steps of the daemon's main loop, every   *)
(* system call through which another process can be observed, the bytes in *)
(* the booster pipe, signal dispositions inherited over fork().  What is   *)
(* abstracted: time (a sleep is a step that takes arbitrarily long), the   *)
(* conversation with the invoker (module Invocation), preloading.          *)
(***************************************************************************)
EXTENDS Integers, Sequences, FiniteSets

CONSTANTS
    Types,       \* type letters of the registered booster plugins
    Nul, Junk,   \* char 0, and any other char that is no plugin's letter
    Invokers,    \* invoker processes
    NoWait,      \* the invokers started with --no-wait
    NoInvoker,   \* the pid 0 sent for a --no-wait launch
    Garbage,     \* a pid assembled from bytes of different words
    WordBytes,   \* sizeof(pid_t) and sizeof(int)
    MaxPid,      \* bound: fork() fails once this many processes were forked
    Signals,     \* the deadly signals the environment sends to children
    KillAt,      \* the process states in which it sends them
    MaxKills,    \* bound on the number of those signals
    MaxUsr1,     \* bound on the number of SIGUSR1 sent to the daemon
    TermDaemon,  \* whether somebody sends SIGTERM to the daemon
    BootMode     \* --boot-mode

Pids    == 1..MaxPid
Chars   == Types \cup {Nul, Junk}
PidWords == Invokers \cup {NoInvoker, Garbage}

\* The daemon's control points.
DaemonPCs == {"start", "loop", "readPid", "readDelay", "reap", "exited"}

\* The life of a forked process, in the order it is lived.
Unreported == {"forked", "default", "init", "waiting", "serving"}
Reporting  == {"sendType", "sendPid", "sendDelay"}
Alive      == Unreported \cup Reporting \cup {"sent", "app"}
ProcStates == {"none"} \cup Alive \cup {"zombie", "gone"}

\* States in which prctl(PR_SET_PDEATHSIG, SIGHUP) is in force.
DiesWithDaemon ==
    {"init", "waiting", "serving", "sendType", "sendPid", "sendDelay", "sent"}

\* The descriptors select() waits for.
Fds == {"booster", "chld", "term", "usr1"}

\* One byte in the booster pipe: the idx-th byte of a written datum.
Bytes == [kind : {"type"}, val : Chars, idx : {1}]
         \cup [kind : {"pid", "delay"}, val : PidWords, idx : 1..WordBytes]

ASSUME LauncherAssumption ==
    /\ MaxPid \in Nat /\ WordBytes \in Nat /\ WordBytes > 1
    /\ MaxKills \in Nat /\ MaxUsr1 \in Nat
    /\ {Nul, Junk} \cap Types = {} /\ Nul # Junk
    /\ {NoInvoker, Garbage} \cap Invokers = {} /\ NoInvoker # Garbage
    /\ NoWait \subseteq Invokers
    /\ "TERM" \in Signals /\ "none" \notin Signals /\ "exit" \notin Signals
    /\ KillAt \subseteq Alive
    /\ TermDaemon \in BOOLEAN /\ BootMode \in BOOLEAN

VARIABLES
    dpc,                       \* where the daemon is
    snap,                      \* descriptors of the last select() not handled yet
    msgType, msgPid,           \* locals of readFromBoosterPipe
    cursor,                    \* last pid visited by reapZombies
    m_bootMode,
    m_children,                \* the vector, in pid order, as a set
    m_boosterTypeToPid,        \* 0 where the map has no entry
    m_boosterPidToInvokerPid,  \* NoInvoker where the map has no entry
    nextPid,                   \* the pid fork() returns next
    pst, ptype, pboot,         \* per process: state, letter, boot mode at fork
    pinv,                      \* the invoker whose connection it accepted
    how,                       \* how it ended: "exit" or a signal
    boosterPipe,               \* bytes written and not read yet
    chldPending,               \* SIGCHLD pending for the daemon (not queued)
    chldBytes, termByte, usr1Bytes,  \* contents of the signal pipes
    killed,                    \* invoker -> signal the daemon sent it
    kills, usr1Sent            \* environment budgets used

daemonVars == <<dpc, snap, msgType, msgPid, cursor, m_bootMode, m_children,
                m_boosterTypeToPid, m_boosterPidToInvokerPid, killed>>
procVars   == <<nextPid, pst, ptype, pboot, pinv, how>>
pipeVars   == <<boosterPipe, chldPending, chldBytes, termByte, usr1Bytes>>
envVars    == <<kills, usr1Sent>>
vars == <<daemonVars, procVars, pipeVars, envVars>>

-----------------------------------------------------------------------------
(* Helpers                                                                 *)

\* A word written by sendDataToParent, as the bytes that enter the pipe.
WordOf(k, v) == [j \in 1..WordBytes |-> [kind |-> k, val |-> v, idx |-> j]]

\* What a char read from the pipe can be: a byte of some word that was taken
\* for a type may be any char at all.
CharRead(b) == IF b.kind = "type" THEN {b.val} ELSE Chars

\* What a pid_t read from the first WordBytes bytes of the pipe can be.
PidRead(w) == IF \E v \in PidWords : w = WordOf("pid", v)
              THEN {v \in PidWords : w = WordOf("pid", v)}
              ELSE {NoInvoker, Garbage}

\* Processes whose parent-death signal is set get SIGHUP when the daemon ends.
AfterDaemonEnd(st) ==
    [p \in Pids |-> IF st[p] \in DiesWithDaemon THEN "gone" ELSE st[p]]

DaemonEnds ==
    /\ dpc' = "exited"
    /\ pst' = AfterDaemonEnd(pst)

\* forkBooster(c) called with process states st and children kids, the daemon
\* continuing at pc.  fork() fails when the process limit is reached: the
\* entry of the type is cleared by then, and the daemon dies.
ForkBooster(c, st, kids, pc) ==
    \/ /\ nextPid <= MaxPid
       /\ m_children' = kids \cup {nextPid}
       /\ m_boosterTypeToPid' = [m_boosterTypeToPid EXCEPT ![c] = nextPid]
       /\ pst'   = [st EXCEPT ![nextPid] = "forked"]
       /\ ptype' = [ptype EXCEPT ![nextPid] = c]
       /\ pboot' = [pboot EXCEPT ![nextPid] = m_bootMode]
       /\ nextPid' = nextPid + 1
       /\ dpc' = pc
    \/ /\ nextPid > MaxPid
       /\ m_children' = kids
       /\ m_boosterTypeToPid' = [m_boosterTypeToPid EXCEPT ![c] = 0]
       /\ pst' = AfterDaemonEnd(st)
       /\ dpc' = "exited"
       /\ UNCHANGED <<ptype, pboot, nextPid>>

\* A child ends: the daemon gets SIGCHLD; an orphan is reaped by init.
End(p, h) ==
    /\ how' = [how EXCEPT ![p] = h]
    /\ IF dpc = "exited"
       THEN pst' = [pst EXCEPT ![p] = "gone"] /\ UNCHANGED chldPending
       ELSE pst' = [pst EXCEPT ![p] = "zombie"] /\ chldPending' = TRUE

-----------------------------------------------------------------------------
(* The daemon                                                              *)

Init ==
    /\ dpc = "start" /\ snap = {}
    /\ msgType = Nul /\ msgPid = NoInvoker /\ cursor = 0
    /\ m_bootMode = BootMode
    /\ m_children = {}
    /\ m_boosterTypeToPid = [c \in Chars |-> 0]
    /\ m_boosterPidToInvokerPid = [p \in Pids |-> NoInvoker]
    /\ nextPid = 1
    /\ pst = [p \in Pids |-> "none"]
    /\ ptype = [p \in Pids |-> Nul]
    /\ pboot = [p \in Pids |-> FALSE]
    /\ pinv = [p \in Pids |-> NoInvoker]
    /\ how = [p \in Pids |-> "none"]
    /\ boosterPipe = <<>>
    /\ chldPending = FALSE /\ chldBytes = 0
    /\ termByte = FALSE /\ usr1Bytes = 0
    /\ killed = [i \in Invokers |-> "none"]
    /\ kills = 0 /\ usr1Sent = 0

\* forkBoosters(): one booster of each registered type; the order of the
\* registry makes no difference.
ForkBoosters ==
    /\ dpc = "start"
    /\ \/ \E t \in Types :
            /\ m_boosterTypeToPid[t] = 0
            /\ ForkBooster(t, pst, m_children, "start")
            /\ UNCHANGED <<snap, msgType, msgPid, cursor, m_bootMode,
                           m_boosterPidToInvokerPid, killed, pinv, how>>
       \/ /\ \A t \in Types : m_boosterTypeToPid[t] # 0
          /\ dpc' = "loop"
          /\ UNCHANGED <<snap, msgType, msgPid, cursor, m_bootMode, m_children,
                         m_boosterTypeToPid, m_boosterPidToInvokerPid, killed,
                         procVars>>
    /\ UNCHANGED <<pipeVars, envVars>>

\* Mutant: the booster pipe's bit is tested where the SIGCHLD pipe's should be.
ReadableWrongFd ==
    {fd \in Fds : \/ fd \in {"booster", "chld"} /\ boosterPipe # <<>>
                  \/ fd = "chld" /\ chldBytes > 0
                  \/ fd = "term" /\ termByte
                  \/ fd = "usr1" /\ usr1Bytes > 0}

Readable ==
    {fd \in Fds : \/ fd = "booster" /\ boosterPipe # <<>>
                  \/ fd = "chld" /\ chldBytes > 0
                  \/ fd = "term" /\ termByte
                  \/ fd = "usr1" /\ usr1Bytes > 0}

\* select() returns: the set of readable descriptors is a snapshot that the
\* rest of the iteration works from.
Select ==
    /\ dpc = "loop" /\ snap = {}
    /\ Readable # {}
    /\ snap' = Readable
    /\ UNCHANGED <<dpc, msgType, msgPid, cursor, m_bootMode, m_children,
                   m_boosterTypeToPid, m_boosterPidToInvokerPid, killed,
                   procVars, pipeVars, envVars>>

\* readFromBoosterPipe: the type byte.
ReadType ==
    /\ dpc = "loop" /\ "booster" \in snap
    /\ msgType' \in CharRead(Head(boosterPipe))
    /\ boosterPipe' = Tail(boosterPipe)
    /\ snap' = snap \ {"booster"}
    /\ dpc' = "readPid"
    /\ UNCHANGED <<msgPid, cursor, m_bootMode, m_children, m_boosterTypeToPid,
                   m_boosterPidToInvokerPid, killed, procVars, chldPending,
                   chldBytes, termByte, usr1Bytes, envVars>>

\* A blocking read of a word that finds fewer bytes: the daemon dies.
ShortRead ==
    /\ dpc \in {"readPid", "readDelay"}
    /\ boosterPipe # <<>> /\ Len(boosterPipe) < WordBytes
    /\ boosterPipe' = <<>>
    /\ DaemonEnds
    /\ UNCHANGED <<snap, msgType, msgPid, cursor, m_bootMode, m_children,
                   m_boosterTypeToPid, m_boosterPidToInvokerPid, killed,
                   nextPid, ptype, pboot, pinv, how, chldPending, chldBytes,
                   termByte, usr1Bytes, envVars>>

DropWord == SubSeq(boosterPipe, WordBytes + 1, Len(boosterPipe))

\* readFromBoosterPipe: the invoker's pid, paired with the booster that is
\* the current one of that type.
ReadPid ==
    /\ dpc = "readPid"
    /\ Len(boosterPipe) >= WordBytes
    /\ msgPid' \in PidRead(SubSeq(boosterPipe, 1, WordBytes))
    /\ boosterPipe' = DropWord
    /\ LET p == m_boosterTypeToPid[msgType]
       IN m_boosterPidToInvokerPid' =
            IF msgPid' # NoInvoker /\ p # 0
            THEN [m_boosterPidToInvokerPid EXCEPT ![p] = msgPid']
            ELSE m_boosterPidToInvokerPid
    /\ dpc' = "readDelay"
    /\ UNCHANGED <<snap, msgType, cursor, m_bootMode, m_children,
                   m_boosterTypeToPid, killed, procVars, chldPending,
                   chldBytes, termByte, usr1Bytes, envVars>>

\* readFromBoosterPipe: the respawn delay, and the fork of the next booster.
ReadDelayAndFork ==
    /\ dpc = "readDelay"
    /\ Len(boosterPipe) >= WordBytes
    /\ boosterPipe' = DropWord
    /\ ForkBooster(msgType, pst, m_children, "loop")
    /\ UNCHANGED <<snap, msgType, msgPid, cursor, m_bootMode,
                   m_boosterPidToInvokerPid, killed, pinv, how, chldPending,
                   chldBytes, termByte, usr1Bytes, envVars>>

\* SIGCHLD: one byte is taken, then the pass over m_children begins.
ReadSigChld ==
    /\ dpc = "loop"
    /\ "booster" \notin snap /\ "chld" \in snap
    /\ snap' = snap \ {"chld"}
    /\ chldBytes' = chldBytes - 1
    /\ cursor' = 0
    /\ dpc' = "reap"
    /\ UNCHANGED <<msgType, msgPid, m_bootMode, m_children, m_boosterTypeToPid,
                   m_boosterPidToInvokerPid, killed, procVars, boosterPipe,
                   chldPending, termByte, usr1Bytes, envVars>>

Unvisited == {p \in m_children : p > cursor}

\* reapZombies, one child: waitpid(p, WNOHANG) finds it running.
ReapSkip(p) ==
    /\ pst[p] # "zombie"
    /\ UNCHANGED <<dpc, m_children, m_boosterTypeToPid,
                   m_boosterPidToInvokerPid, killed, nextPid, pst, ptype, pboot>>

\* The signal that killed p is passed on to the invoker paired with it.
ForwardSignal(p) ==
    LET i == m_boosterPidToInvokerPid[p]
    IN IF i \in Invokers /\ how[p] \in Signals
       THEN [killed EXCEPT ![i] = how[p]] ELSE killed

\* Mutant: the current booster of a type is not restarted.
ReapZombieNoRestart(p) ==
    /\ pst[p] = "zombie"
    /\ killed' = ForwardSignal(p)
    /\ m_boosterPidToInvokerPid' =
         [m_boosterPidToInvokerPid EXCEPT ![p] = NoInvoker]
    /\ m_children' = m_children \ {p}
    /\ pst' = [pst EXCEPT ![p] = "gone"]
    /\ UNCHANGED <<dpc, m_boosterTypeToPid, nextPid, ptype, pboot>>

\* Mutant: the pair of the child that ended is not erased.
ReapZombieKeepsPair(p) ==
    /\ pst[p] = "zombie"
    /\ killed' = ForwardSignal(p)
    /\ UNCHANGED m_boosterPidToInvokerPid
    /\ \/ \E c \in Chars \ {Nul} :
            /\ m_boosterTypeToPid[c] = p
            /\ ForkBooster(c, [pst EXCEPT ![p] = "gone"], m_children \ {p}, "reap")
       \/ /\ \A c \in Chars \ {Nul} : m_boosterTypeToPid[c] # p
          /\ m_children' = m_children \ {p}
          /\ pst' = [pst EXCEPT ![p] = "gone"]
          /\ UNCHANGED <<dpc, m_boosterTypeToPid, nextPid, ptype, pboot>>

\* reapZombies, one child: it had ended, so it is dropped from the vector and
\* from the pairs; if it is the current booster of a type, that is restarted.
ReapZombie(p) ==
    /\ pst[p] = "zombie"
    /\ killed' = ForwardSignal(p)
    /\ m_boosterPidToInvokerPid' =
         [m_boosterPidToInvokerPid EXCEPT ![p] = NoInvoker]
    /\ \/ \E c \in Chars \ {Nul} :
            /\ m_boosterTypeToPid[c] = p
            /\ ForkBooster(c, [pst EXCEPT ![p] = "gone"], m_children \ {p}, "reap")
       \/ /\ \A c \in Chars \ {Nul} : m_boosterTypeToPid[c] # p
          /\ m_children' = m_children \ {p}
          /\ pst' = [pst EXCEPT ![p] = "gone"]
          /\ UNCHANGED <<dpc, m_boosterTypeToPid, nextPid, ptype, pboot>>

ReapStep ==
    /\ dpc = "reap"
    /\ \E p \in Unvisited :
         /\ \A q \in Unvisited : p <= q
         /\ cursor' = p
         /\ ReapSkip(p) \/ ReapZombie(p)
    /\ UNCHANGED <<snap, msgType, msgPid, m_bootMode, pinv, how, pipeVars, envVars>>

\* Mutant: the SIGCHLD pipe is emptied after the pass instead of before it.
ReapDoneDrains ==
    /\ dpc = "reap" /\ Unvisited = {}
    /\ dpc' = "loop"
    /\ chldBytes' = 0
    /\ snap' = snap \ {"chld"}
    /\ UNCHANGED <<msgType, msgPid, cursor, m_bootMode, m_children,
                   m_boosterTypeToPid, m_boosterPidToInvokerPid, killed,
                   procVars, boosterPipe, chldPending, termByte, usr1Bytes,
                   envVars>>

ReapDone ==
    /\ dpc = "reap" /\ Unvisited = {}
    /\ dpc' = "loop"
    /\ UNCHANGED <<snap, msgType, msgPid, cursor, m_bootMode, m_children,
                   m_boosterTypeToPid, m_boosterPidToInvokerPid, killed,
                   procVars, pipeVars, envVars>>

\* SIGTERM: the daemon exits.
HandleSigTerm ==
    /\ dpc = "loop"
    /\ snap \cap {"booster", "chld"} = {} /\ "term" \in snap
    /\ termByte' = FALSE
    /\ DaemonEnds
    /\ UNCHANGED <<snap, msgType, msgPid, cursor, m_bootMode, m_children,
                   m_boosterTypeToPid, m_boosterPidToInvokerPid, killed,
                   nextPid, ptype, pboot, pinv, how, boosterPipe, chldPending,
                   chldBytes, usr1Bytes, envVars>>

\* killBoosters(): SIGTERM to the current booster of every type.  A process
\* that has not reset its handlers yet runs the one inherited from the daemon,
\* which writes to the daemon's own SIGTERM pipe.
KillBoosters ==
    LET targets == {p \in Pids : \E c \in Chars : m_boosterTypeToPid[c] = p}
        dying   == {p \in targets : pst[p] \in Alive \ {"forked"}}
    IN /\ pst' = [p \in Pids |-> IF p \in dying THEN "zombie" ELSE pst[p]]
       /\ how' = [p \in Pids |-> IF p \in dying THEN "TERM" ELSE how[p]]
       /\ chldPending' = (chldPending \/ dying # {})
       /\ termByte' = (termByte \/ \E p \in targets : pst[p] = "forked")

\* Mutant: the mode is switched and the boosters of the old mode stay.
HandleSigUsr1NoKill ==
    /\ dpc = "loop" /\ snap = {"usr1"}
    /\ snap' = {}
    /\ usr1Bytes' = usr1Bytes - 1
    /\ m_bootMode' = FALSE
    /\ UNCHANGED <<dpc, msgType, msgPid, cursor, m_children, m_boosterTypeToPid,
                   m_boosterPidToInvokerPid, killed, procVars, boosterPipe,
                   chldPending, chldBytes, termByte, envVars>>

\* SIGUSR1: enterNormalMode().
HandleSigUsr1 ==
    /\ dpc = "loop" /\ snap = {"usr1"}
    /\ snap' = {}
    /\ usr1Bytes' = usr1Bytes - 1
    /\ m_bootMode' = FALSE
    /\ IF m_bootMode THEN KillBoosters
       ELSE UNCHANGED <<pst, how, chldPending, termByte>>
    /\ UNCHANGED <<dpc, msgType, msgPid, cursor, m_children, m_boosterTypeToPid,
                   m_boosterPidToInvokerPid, killed, nextPid, ptype, pboot,
                   pinv, boosterPipe, chldBytes, envVars>>

\* The SIGCHLD handler runs in the daemon.
SigChldHandler ==
    /\ dpc # "exited" /\ chldPending
    /\ chldPending' = FALSE
    /\ chldBytes' = chldBytes + 1
    /\ UNCHANGED <<daemonVars, procVars, boosterPipe, termByte, usr1Bytes, envVars>>

Daemon ==
    \/ ForkBoosters \/ Select \/ ReadType \/ ShortRead \/ ReadPid
    \/ ReadDelayAndFork \/ ReadSigChld \/ ReapStep \/ ReapDone
    \/ HandleSigTerm \/ HandleSigUsr1

-----------------------------------------------------------------------------
(* A forked process                                                        *)

Goto(p, from, to) == pst[p] = from /\ pst' = [pst EXCEPT ![p] = to]

\* signal(SIGTERM, SIG_DFL) and its two siblings.
ResetHandlers(p) ==
    /\ Goto(p, "forked", "default")
    /\ UNCHANGED <<daemonVars, nextPid, ptype, pboot, pinv, how, pipeVars, envVars>>

\* prctl(PR_SET_PDEATHSIG, SIGHUP); a daemon that is gone already sends nothing.
SetPdeathsig(p) ==
    /\ Goto(p, "default", "init")
    /\ UNCHANGED <<daemonVars, nextPid, ptype, pboot, pinv, how, pipeVars, envVars>>

\* The respawn delay has passed and the booster is preloaded: it accepts.
StartWaiting(p) ==
    /\ ptype[p] \in Types
    /\ Goto(p, "init", "waiting")
    /\ UNCHANGED <<daemonVars, nextPid, ptype, pboot, pinv, how, pipeVars, envVars>>

\* BoosterFactory::create knows no such type.
UnknownType(p) ==
    /\ pst[p] = "init" /\ ptype[p] \notin Types
    /\ End(p, "exit")
    /\ UNCHANGED <<daemonVars, nextPid, ptype, pboot, pinv, boosterPipe,
                   chldBytes, termByte, usr1Bytes, envVars>>

\* accept() hands an invoker's connection to one waiting booster.
Accept(p, i) ==
    /\ Goto(p, "waiting", "serving")
    /\ \A q \in Pids : pinv[q] # i
    /\ pinv' = [pinv EXCEPT ![p] = i]
    /\ UNCHANGED <<daemonVars, nextPid, ptype, pboot, how, pipeVars, envVars>>

\* Refused credentials, an unreadable request, or a single-instance launch of
\* a program that runs already: the booster exits and reports nothing.
ServeFails(p) ==
    /\ pst[p] = "serving"
    /\ End(p, "exit")
    /\ UNCHANGED <<daemonVars, nextPid, ptype, pboot, pinv, boosterPipe,
                   chldBytes, termByte, usr1Bytes, envVars>>

Served(p) ==
    /\ Goto(p, "serving", "sendType")
    /\ UNCHANGED <<daemonVars, nextPid, ptype, pboot, pinv, how, pipeVars, envVars>>

\* invokersPid(): 0 unless the invoker waits for the application.
InvokersPid(p) == IF pinv[p] \in NoWait THEN NoInvoker ELSE pinv[p]

\* One write of sendDataToParent.  With no reader left it raises SIGPIPE; when
\* the daemon is gone, a child that has not closed its copy of the read end
\* yet may be a reader still.
Write(p, from, to, bytes) ==
    /\ pst[p] = from
    /\ \/ /\ dpc = "exited"
          /\ pst' = [pst EXCEPT ![p] = "gone"] /\ UNCHANGED boosterPipe
       \/ /\ \/ dpc # "exited"
             \/ \E q \in Pids : pst[q] \in {"forked", "default", "init"}
          /\ pst' = [pst EXCEPT ![p] = to]
          /\ boosterPipe' = boosterPipe \o bytes
    /\ UNCHANGED <<daemonVars, nextPid, ptype, pboot, pinv, how, chldPending,
                   chldBytes, termByte, usr1Bytes, envVars>>

SendType(p)  == Write(p, "sendType", "sendPid",
                      <<[kind |-> "type", val |-> ptype[p], idx |-> 1]>>)
SendPid(p)   == Write(p, "sendPid", "sendDelay", WordOf("pid", InvokersPid(p)))
SendDelay(p) == Write(p, "sendDelay", "sent", WordOf("delay", NoInvoker))

\* prctl(PR_SET_PDEATHSIG, 0), then the application's main().
BecomeApp(p) ==
    /\ Goto(p, "sent", "app")
    /\ UNCHANGED <<daemonVars, nextPid, ptype, pboot, pinv, how, pipeVars, envVars>>

AppExits(p) ==
    /\ pst[p] = "app"
    /\ End(p, "exit")
    /\ UNCHANGED <<daemonVars, nextPid, ptype, pboot, pinv, boosterPipe,
                   chldBytes, termByte, usr1Bytes, envVars>>

\* What a booster does by itself, once scheduled.
Booster(p) ==
    \/ ResetHandlers(p) \/ SetPdeathsig(p) \/ StartWaiting(p) \/ UnknownType(p)
    \/ Served(p) \/ SendType(p) \/ SendPid(p) \/ SendDelay(p) \/ BecomeApp(p)

-----------------------------------------------------------------------------
(* The environment                                                         *)

\* Somebody signals a child.  SIGTERM to a process that still has the
\* daemon's handlers ends up in the daemon's pipe instead.
SignalChild(p, s) ==
    /\ kills < MaxKills
    /\ pst[p] \in KillAt
    /\ kills' = kills + 1
    /\ IF pst[p] = "forked" /\ s = "TERM"
       THEN termByte' = TRUE /\ UNCHANGED <<pst, how, chldPending>>
       ELSE End(p, s) /\ UNCHANGED termByte
    /\ UNCHANGED <<daemonVars, nextPid, ptype, pboot, pinv, boosterPipe,
                   chldBytes, usr1Bytes, usr1Sent>>

SendUsr1 ==
    /\ dpc # "exited" /\ usr1Sent < MaxUsr1
    /\ usr1Sent' = usr1Sent + 1
    /\ usr1Bytes' = usr1Bytes + 1
    /\ UNCHANGED <<daemonVars, procVars, boosterPipe, chldPending, chldBytes,
                   termByte, kills>>

SendTerm ==
    /\ TermDaemon /\ dpc # "exited" /\ ~termByte
    /\ termByte' = TRUE
    /\ UNCHANGED <<daemonVars, procVars, boosterPipe, chldPending, chldBytes,
                   usr1Bytes, envVars>>

Environment ==
    \/ SendUsr1 \/ SendTerm
    \/ \E p \in Pids :
         \/ ServeFails(p) \/ AppExits(p)
         \/ \E i \in Invokers : Accept(p, i)
         \/ \E s \in Signals : SignalChild(p, s)

Next == Daemon \/ SigChldHandler \/ (\E p \in Pids : Booster(p)) \/ Environment

\* The daemon, its signal handler and the boosters are scheduled; nobody has
\* to launch, kill or end anything.
Fairness ==
    /\ WF_vars(Daemon) /\ WF_vars(SigChldHandler)
    /\ \A p \in Pids : WF_vars(Booster(p))

Spec     == Init /\ [][Next]_vars
FairSpec == Spec /\ Fairness

-----------------------------------------------------------------------------
(* Properties                                                              *)

\* Every variable keeps its type.
TypeOK ==
    /\ dpc \in DaemonPCs /\ snap \subseteq Fds
    /\ msgType \in Chars /\ msgPid \in PidWords /\ cursor \in 0..MaxPid
    /\ m_bootMode \in BOOLEAN
    /\ m_children \subseteq Pids
    /\ m_boosterTypeToPid \in [Chars -> 0..MaxPid]
    /\ m_boosterPidToInvokerPid \in [Pids -> PidWords]
    /\ nextPid \in 1..(MaxPid + 1)
    /\ pst \in [Pids -> ProcStates]
    /\ ptype \in [Pids -> Chars]
    /\ pboot \in [Pids -> BOOLEAN]
    /\ pinv \in [Pids -> Invokers \cup {NoInvoker}]
    /\ how \in [Pids -> {"none", "exit"} \cup Signals]
    /\ boosterPipe \in Seq(Bytes)
    /\ chldPending \in BOOLEAN /\ chldBytes \in Nat
    /\ termByte \in BOOLEAN /\ usr1Bytes \in Nat
    /\ killed \in [Invokers -> {"none"} \cup Signals]
    /\ kills \in Nat /\ usr1Sent \in Nat

\* As long as the daemon is in its main loop, every booster type has a current
\* process, and every process that is current for any char is a child forked
\* for that char and not reaped yet: no sequence of launches, deaths, misread
\* messages and mode changes loses a type, and killBoosters(), which signals
\* the process of every key, does not signal a pid that the kernel may have
\* given to somebody else.  The NUL key is the exception, for both: once a
\* report read out of step has made it, reapZombies takes its boosterTypeForPid
\* for "none" (daemon.cpp:527), the entry outlives its process, and
\* killBoosters() does signal that pid.
BoosterOfEveryType ==
    dpc \notin {"start", "exited"} =>
        \A c \in Chars \ {Nul} :
            LET p == m_boosterTypeToPid[c]
            IN /\ c \in Types => p # 0
               /\ p # 0 => p \in m_children /\ ptype[p] = c

\* A pair in m_boosterPidToInvokerPid belongs to a child that has not been
\* reaped, so that a recycled pid never finds somebody else's invoker.  (A
\* process forked for a NUL read out of step is the one exception: reapZombies
\* takes the key 0 for "no type" and leaves its entry behind.)
NoStalePair ==
    \A p \in Pids : m_boosterPidToInvokerPid[p] # NoInvoker =>
        p \in m_children \/ ptype[p] = Nul

\* No wake-up is lost: a child that ended is either still to be visited by the
\* pass of reapZombies under way, or SIGCHLD is pending, or its byte is in the
\* pipe and select() will see it.
NoForgottenZombie ==
    dpc # "exited" =>
        \A p \in Pids : pst[p] = "zombie" =>
            \/ chldPending
            \/ chldBytes > 0
            \/ dpc = "reap" /\ p > cursor

\* After SIGUSR1 has ended the boot mode, a current booster that was forked
\* without its caches is dead already, or the daemon itself is on its way out.
BootBoosterReplaced ==
    dpc # "exited" /\ ~m_bootMode =>
        \A t \in Types :
            LET p == m_boosterTypeToPid[t]
            IN p # 0 /\ pboot[p] => pst[p] = "zombie" \/ termByte

\* Every type is always going to have a booster waiting for an invoker again:
\* "Test that booster is restarted if it is killed".
WaitingAgain ==
    \A t \in Types : []<>(\E p \in Pids : ptype[p] = t /\ pst[p] = "waiting")

\* Two reports are half written at the same time, so their words alternate in
\* the pipe.
Interleaved ==
    \E p, q \in Pids :
        p # q /\ {pst[p], pst[q]} \subseteq {"sendPid", "sendDelay"}

\* WaitingAgain as far as the code keeps it: whatever boosters die, before
\* they accepted, while they serve or as applications, each type is going to
\* have one waiting, unless two reports get mixed up in the pipe
\* (booster.cpp:178-190).  Then part of a pid is read as a type: the daemon
\* forks for some other type and this one has no booster for as long as its
\* application runs, or the daemon dies of a short read.  (SIGTERM to a process
\* just forked ends the daemon too, see Usr1KeepsDaemon, and a death halfway
\* through a report blocks it, see Launcher_v_midsend.cfg.)
WaitingAgainInStep == []~Interleaved => WaitingAgain

\* Every child that ended is reaped, and no zombie stays behind, again unless
\* reports get mixed up.
ZombiesReaped ==
    []~Interleaved =>
        \A p \in Pids : []<>(pst[p] # "zombie" \/ dpc = "exited")

\* The comment in reapZombies: an invoker is killed with the signal that
\* killed the process it launched, hence never while that is running.
InvokerOutlivesApp ==
    \A i \in Invokers : killed[i] # "none" =>
        \A p \in Pids : pinv[p] = i => pst[p] \in {"zombie", "gone"}

\* README, "Boot mode": SIGUSR1 makes the launcher enter the normal mode; it
\* does not end it.  (For a run in which nobody else sends a signal and
\* fork() has no reason to fail.)
Usr1KeepsDaemon == dpc # "exited"
=============================================================================

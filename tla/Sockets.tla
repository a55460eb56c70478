------------------------------- MODULE Sockets -------------------------------
(***************************************************************************)
(* The listening sockets of applauncherd, from the plugin files that name  *)
(* them (Daemon::loadBoosterPlugins, BoosterPluginRegistry) over the hash  *)
(* of SocketManager and the copies that boosters and applications inherit, *)
(* to the invokers that wait in a socket's backlog - while the daemon dies *)
(* and is started again.                                                   *)
(*                                                                         *)
(* A socket is <<daemon, name>>: it lives as long as some process holds a  *)
(* descriptor of it, and when the last one is closed the kernel resets the *)
(* connections in its backlog.  A socket file outlives its socket.         *)
(*                                                                         *)
(* A report is three words here.  What bytes the daemon makes of words that*)
(* it reads out of step is in module Launcher; here it may then do anything*)
(* that any such bytes can make it do (Astray).                            *)
(***************************************************************************)
EXTENDS Integers, Sequences, Functions

CONSTANTS
    Types,       \* type letters; an invoker of type t connects to the file t
    Names,       \* names of socket files
    Invokers,
    Settings,    \* what is explored: contents of the plugin directory, with
                 \*   the --type each invoker was given
    Waits,       \* the invokers that wait for their application to end
    None,        \* no invoker, no type, any char that is no type
    KillAt,      \* the stages in which boosters are killed
    MaxPid,      \* bound: fork() fails once this many processes were forked
    MaxDaemons,  \* bound on how often the daemon is started
    Backlog      \* connections a socket queues; listen() is called with 10

\* A file that matches lib*booster.so, in the order of glob().  One that
\* cannot be opened, or lacks a symbol, is not good.
Plugins == [good : BOOLEAN, type : Types, sock : Names]

Chars   == Types \cup {None}
Pids    == 1..MaxPid
Daemons == 1..MaxDaemons
SocketIds == Daemons \X Names

DaemonPCs == {"load", "fork", "run", "readPid", "readDelay", "astray", "dead"}

\* Stages in which the parent-death signal is set.
DiesWithDaemon == {"armed", "waiting", "serving", "sendPid", "sendDelay", "sent"}

Boosters == {"forked"} \cup DiesWithDaemon
Stages   == {"none"} \cup Boosters \cup {"app", "zombie", "gone"}

\* The words of a report, in the order of the writes, and which of them the
\* daemon takes the next bytes for; one it cannot tell any more.
Words    == [kind : {"type", "pid", "delay", "lost"}, val : Chars]
Lost     == [kind |-> "lost", val |-> None]
Expected == [run |-> "type", readPid |-> "pid", readDelay |-> "delay"]

ASSUME SocketsAssumption ==
    /\ Types \subseteq Names
    /\ Settings \subseteq Seq(Plugins) \X [Invokers -> Types]
    /\ KillAt \subseteq Boosters
    /\ Waits \subseteq Invokers /\ None \notin Invokers \cup Types
    /\ MaxPid \in Nat /\ MaxDaemons \in Nat \ {0} /\ Backlog \in Nat \ {0}

VARIABLES
    dir,           \* the plugin directory
    wants,         \* per invoker, its --type
    dpc, inc,      \* the daemon: where it is, and how many there have been
    loaded,        \* how many files of the directory it has dealt with
    registry,      \* BoosterPluginRegistry::m_registry, per daemon: the
                   \*   processes it forks have a copy of the finished one
    m_socketHash,  \* names of the daemon's sockets
    file,          \* per name: the daemon whose socket the file names, or 0
    cur,           \* m_boosterTypeToPid
    boosterPipe,   \* words written and not read yet
    msgType,       \* the type last read from it
    nextPid,
    pst, ptype,    \* per process: its stage, its type
    pdaemon,       \*   the daemon that forked it
    fds,           \*   the names of the sockets it holds
    serves,        \*   the invoker it accepted
    backlog,       \* per socket: the invokers connected and not accepted
    ist,           \* per invoker: how far it is
    met            \* per invoker: the daemon that was running when it connected

setting     == <<dir, wants>>
daemonVars  == <<dpc, inc, loaded, registry, m_socketHash, file, cur, msgType>>
procVars    == <<nextPid, pst, ptype, pdaemon, fds, serves>>
invokerVars == <<backlog, ist, met>>
vars == <<setting, daemonVars, boosterPipe, procVars, invokerVars>>

-----------------------------------------------------------------------------
(* Plugins                                                                 *)

\* Mutant: the name of the socket is not entered.
RegisterNoName(r, p) == Append(r, [type |-> p.type, sock |-> None])

\* registerPlugin: the entry of the type is overwritten, or a new one made.
Register(r, p) ==
    LET e == [type |-> p.type, sock |-> p.sock]
    IN IF \E j \in DOMAIN r : r[j].type = p.type
       THEN [j \in DOMAIN r |-> IF r[j].type = p.type THEN e ELSE r[j]]
       ELSE Append(r, e)

\* What findSocket(socketId()) looks for in a booster of type t that daemon d
\* forked, and the names of the sockets of the other types.
SockOf(d, t)     == {e.sock : e \in {x \in Range(registry[d]) : x.type = t}}
OtherSocks(d, t) == {e.sock : e \in {x \in Range(registry[d]) : x.type # t}}

-----------------------------------------------------------------------------
(* The kernel                                                              *)

\* Somebody holds socket s when the daemon has the sockets hash and the
\* processes those of f.
Held(s, hash, f) ==
    \/ s[1] = inc /\ s[2] \in hash
    \/ \E p \in Pids : pdaemon[p] = s[1] /\ s[2] \in f[p]

\* When the daemon is left with hash and the processes with f, the connections
\* in the backlog of a socket that nobody holds any more are reset.
Backlogs(hash, f) ==
    [s \in SocketIds |-> IF Held(s, hash, f) THEN backlog[s] ELSE <<>>]
Told(hash, f) ==
    [i \in Invokers |->
        IF \E s \in SocketIds : i \in Range(backlog[s]) /\ ~Held(s, hash, f)
        THEN "over" ELSE ist[i]]

DaemonLives(p) == dpc # "dead" /\ pdaemon[p] = inc

\* A process ends, as a zombie if its parent lives; its invoker notices.
EndProcess(p) ==
    LET f == [fds EXCEPT ![p] = {}]
    IN /\ fds' = f
       /\ pst' = [pst EXCEPT ![p] = IF DaemonLives(p) THEN "zombie" ELSE "gone"]
       /\ serves' = [serves EXCEPT ![p] = None]
       /\ backlog' = Backlogs(m_socketHash, f)
       /\ ist' = [i \in Invokers |-> IF serves[p] = i THEN "over"
                                     ELSE Told(m_socketHash, f)[i]]

-----------------------------------------------------------------------------
Init ==
    /\ \E s \in Settings : dir = s[1] /\ wants = s[2]
    /\ dpc = "load" /\ inc = 1 /\ loaded = 0 /\ m_socketHash = {}
    /\ registry = [d \in Daemons |-> <<>>]
    /\ file = [n \in Names |-> 0]
    /\ cur = [t \in Chars |-> 0]
    /\ boosterPipe = <<>> /\ msgType = None
    /\ nextPid = 1
    /\ pst = [p \in Pids |-> "none"]
    /\ ptype = [p \in Pids |-> None]
    /\ pdaemon = [p \in Pids |-> 0]
    /\ fds = [p \in Pids |-> {}]
    /\ serves = [p \in Pids |-> None]
    /\ backlog = [s \in SocketIds |-> <<>>]
    /\ ist = [i \in Invokers |-> "idle"]
    /\ met = [i \in Invokers |-> 0]

-----------------------------------------------------------------------------
(* The daemon                                                              *)

\* The daemon ends: boosters that have asked for it get SIGHUP.
DaemonEnds ==
    LET dies == {p \in Pids : pdaemon[p] = inc /\ pst[p] \in DiesWithDaemon}
        f    == [p \in Pids |-> IF p \in dies THEN {} ELSE fds[p]]
    IN /\ dpc' = "dead"
       /\ m_socketHash' = {} /\ boosterPipe' = <<>>
       /\ fds' = f
       /\ pst' = [p \in Pids |-> IF p \in dies \/ pst[p] = "zombie" THEN "gone"
                                 ELSE pst[p]]
       /\ serves' = [p \in Pids |-> IF p \in dies THEN None ELSE serves[p]]
       /\ backlog' = Backlogs({}, f)
       /\ ist' = [i \in Invokers |-> IF \E p \in dies : serves[p] = i THEN "over"
                                     ELSE Told({}, f)[i]]

\* loadBoosterPlugins(): the next file is loaded and registered, or skipped.
LoadBoosterPlugins ==
    /\ dpc = "load" /\ loaded < Len(dir)
    /\ LET p == dir[loaded + 1]
       IN registry' = IF p.good
                      THEN [registry EXCEPT ![inc] = Register(registry[inc], p)]
                      ELSE registry
    /\ loaded' = loaded + 1
    /\ UNCHANGED <<setting, dpc, inc, m_socketHash, file, cur, msgType,
                   boosterPipe, procVars, invokerVars>>

\* Mutant: a socket file that exists is taken for a socket that is set up.
InitBoosterSocketsReuses ==
    /\ dpc = "load" /\ loaded = Len(dir)
    /\ LET names == {e.sock : e \in Range(registry[inc])}
       IN /\ m_socketHash' = names
          /\ file' = [n \in Names |-> IF n \in names /\ file[n] = 0 THEN inc ELSE file[n]]
    /\ dpc' = "fork"
    /\ UNCHANGED <<setting, inc, loaded, registry, cur, msgType, boosterPipe,
                   procVars, invokerVars>>

\* initBoosterSockets(), after the last file: a socket for every name, its
\* file made anew.
InitBoosterSockets ==
    /\ dpc = "load" /\ loaded = Len(dir)
    /\ LET names == {e.sock : e \in Range(registry[inc])}
       IN /\ m_socketHash' = names
          /\ file' = [n \in Names |-> IF n \in names THEN inc ELSE file[n]]
    /\ dpc' = "fork"
    /\ UNCHANGED <<setting, inc, loaded, registry, cur, msgType, boosterPipe,
                   procVars, invokerVars>>

\* forkBooster(t): the child has a copy of every descriptor.  st and pipe are
\* the process states and the pipe when it is called, pc what comes after it.
ForkBooster(t, st, pipe, pc) ==
    \/ /\ nextPid <= MaxPid
       /\ pst'     = [st EXCEPT ![nextPid] = "forked"]
       /\ ptype'   = [ptype EXCEPT ![nextPid] = t]
       /\ pdaemon' = [pdaemon EXCEPT ![nextPid] = inc]
       /\ fds'     = [fds EXCEPT ![nextPid] = m_socketHash]
       /\ cur'     = [cur EXCEPT ![t] = nextPid]
       /\ nextPid' = nextPid + 1
       /\ boosterPipe' = pipe
       /\ dpc' = pc
       /\ UNCHANGED <<m_socketHash, serves, backlog, ist>>
    \/ /\ nextPid > MaxPid
       /\ DaemonEnds
       /\ UNCHANGED <<ptype, pdaemon, cur, nextPid>>

\* forkBoosters(), in the order of the registry, and the main loop begins.
ForkBoosters ==
    /\ dpc = "fork"
    /\ LET r == registry[inc]
       IN \/ \E j \in DOMAIN r :
               /\ cur[r[j].type] = 0
               /\ \A k \in 1..(j - 1) : cur[r[k].type] # 0
               /\ ForkBooster(r[j].type, pst, boosterPipe, "fork")
          \/ /\ \A e \in Range(r) : cur[e.type] # 0
             /\ dpc' = "run"
             /\ UNCHANGED <<m_socketHash, cur, boosterPipe, nextPid, pst, ptype,
                            pdaemon, fds, serves, backlog, ist>>
    /\ UNCHANGED <<setting, inc, loaded, registry, file, msgType, met>>

\* readFromBoosterPipe(): the daemon, in its loop or blocked in the second or
\* third read, takes the word it expects.
ReadWord(pc) ==
    /\ dpc = pc /\ boosterPipe # <<>> /\ Head(boosterPipe).kind = Expected[pc]
    /\ UNCHANGED <<setting, inc, loaded, registry, file, met>>

Take(pc) ==
    /\ boosterPipe' = Tail(boosterPipe) /\ dpc' = pc
    /\ UNCHANGED <<m_socketHash, cur, procVars, backlog, ist>>

ReadType ==
    /\ ReadWord("run")
    /\ msgType' = Head(boosterPipe).val
    /\ Take("readPid")

ReadPid ==
    /\ ReadWord("readPid")
    /\ UNCHANGED msgType
    /\ Take("readDelay")

ReadDelayAndFork ==
    /\ ReadWord("readDelay")
    /\ UNCHANGED msgType
    /\ ForkBooster(msgType, pst, Tail(boosterPipe), "run")

\* How many words of a report the daemon has read.
Begun == [run |-> 0, readPid |-> 1, readDelay |-> 2]

\* The next bytes are not those of the word expected: two reports were written
\* at the same time, or one was broken off before this one.
LoseStep ==
    /\ dpc \in DOMAIN Expected /\ boosterPipe # <<>>
    /\ Head(boosterPipe).kind # Expected[dpc]
    /\ dpc' = "astray"
    /\ boosterPipe' = [j \in 1..(Begun[dpc] + Len(boosterPipe)) |-> Lost]
    /\ UNCHANGED <<setting, inc, loaded, registry, m_socketHash, file, cur,
                   msgType, procVars, invokerVars>>

\* From then on it may fork for any char there is, die of a short read, or do
\* nothing, being blocked in read().  No fork takes fewer bytes than a report
\* has, nor fewer words.
Astray ==
    /\ dpc = "astray"
    /\ \/ /\ Len(boosterPipe) >= 3
          /\ LET rest == SubSeq(boosterPipe, 4, Len(boosterPipe))
             IN \E t \in Chars : ForkBooster(t, pst, rest, "astray")
       \/ /\ boosterPipe # <<>>
          /\ DaemonEnds /\ UNCHANGED <<ptype, pdaemon, cur, nextPid>>
    /\ UNCHANGED <<setting, inc, loaded, registry, file, msgType, met>>

\* reapZombies(): a dead booster that is the current one of its type is
\* replaced.  (None stands for chars whose processes may each be current, and
\* for NUL, whose process is never replaced.)
Reap(p) ==
    /\ dpc \in {"run", "astray"} /\ pst[p] = "zombie" /\ pdaemon[p] = inc
    /\ LET st == [pst EXCEPT ![p] = "gone"]
       IN \/ /\ cur[ptype[p]] = p \/ ptype[p] = None
             /\ ForkBooster(ptype[p], st, boosterPipe, dpc)
          \/ /\ cur[ptype[p]] # p \/ ptype[p] = None
             /\ pst' = st
             /\ UNCHANGED <<dpc, m_socketHash, cur, boosterPipe, nextPid, ptype,
                            pdaemon, fds, serves, backlog, ist>>
    /\ UNCHANGED <<setting, inc, loaded, registry, file, msgType, met>>

\* SIGTERM, or a crash, at any moment.  (The last daemon of the bound only
\* dies of fork().)
DaemonDies ==
    /\ dpc # "dead" /\ inc < MaxDaemons
    /\ DaemonEnds
    /\ UNCHANGED <<setting, inc, loaded, registry, file, cur, msgType, nextPid,
                   ptype, pdaemon, met>>

\* It is started again: a new process, with the same plugin directory.
DaemonRestarts ==
    /\ dpc = "dead" /\ inc < MaxDaemons
    /\ dpc' = "load" /\ inc' = inc + 1
    /\ loaded' = 0 /\ cur' = [t \in Chars |-> 0]
    /\ UNCHANGED <<setting, registry, m_socketHash, file, msgType, boosterPipe,
                   procVars, invokerVars>>

Daemon ==
    \/ LoadBoosterPlugins \/ InitBoosterSockets \/ ForkBoosters
    \/ ReadType \/ ReadPid \/ ReadDelayAndFork \/ LoseStep
    \/ \E p \in Pids : Reap(p)

-----------------------------------------------------------------------------
(* A booster, and the application it becomes                               *)

\* prctl(PR_SET_PDEATHSIG, SIGHUP).  A daemon that is gone by now is not
\* noticed.
SetPdeathsig(p) ==
    /\ pst[p] = "forked"
    /\ pst' = [pst EXCEPT ![p] = "armed"]
    /\ UNCHANGED <<setting, daemonVars, boosterPipe, nextPid, ptype, pdaemon, fds,
                   serves, invokerVars>>

\* Mutant: the sockets of the other types stay open.
StartWaitingKeepsAll(p) ==
    /\ pst[p] = "armed"
    /\ pst' = [pst EXCEPT ![p] = "waiting"]
    /\ UNCHANGED <<setting, daemonVars, boosterPipe, nextPid, ptype, pdaemon, fds,
                   serves, invokerVars>>

\* closeUnusedSockets(), then findSocket() for the booster that is created;
\* a name shared with another type has been closed, and without a socket the
\* constructor of Connection ends the process.  So does BoosterFactory when no
\* plugin has the char the process was forked for.
StartWaiting(p) ==
    /\ pst[p] = "armed"
    /\ LET own  == SockOf(pdaemon[p], ptype[p])
           left == fds[p] \ OtherSocks(pdaemon[p], ptype[p])
           f    == [fds EXCEPT ![p] = left]
       IN IF own # {} /\ own \subseteq left
          THEN /\ fds' = f
               /\ pst' = [pst EXCEPT ![p] = "waiting"]
               /\ backlog' = Backlogs(m_socketHash, f)
               /\ ist' = Told(m_socketHash, f)
               /\ UNCHANGED serves
          ELSE EndProcess(p)
    /\ UNCHANGED <<setting, daemonVars, boosterPipe, nextPid, ptype, pdaemon, met>>

\* The sockets a booster accepts on.
Listens(p) ==
    {s \in SocketIds : s[1] = pdaemon[p] /\ s[2] \in SockOf(s[1], ptype[p])}

\* Connection::accept().
Accept(p) ==
    /\ pst[p] = "waiting"
    /\ \E s \in Listens(p) :
         /\ backlog[s] # <<>>
         /\ backlog' = [backlog EXCEPT ![s] = Tail(backlog[s])]
         /\ serves' = [serves EXCEPT ![p] = Head(backlog[s])]
         /\ ist' = [ist EXCEPT ![Head(backlog[s])] = "accepted"]
    /\ pst' = [pst EXCEPT ![p] = "serving"]
    /\ UNCHANGED <<setting, daemonVars, boosterPipe, nextPid, ptype, pdaemon, fds, met>>

\* The request is refused or cannot be read.
ServeFails(p) ==
    /\ pst[p] = "serving"
    /\ EndProcess(p)
    /\ UNCHANGED <<setting, daemonVars, boosterPipe, nextPid, ptype, pdaemon, met>>

\* A process that still has the read end of the booster pipe of p's daemon.
PipeHasReader(p) ==
    \/ DaemonLives(p)
    \/ \E q \in Pids : pdaemon[q] = pdaemon[p] /\ pst[q] \in {"forked", "armed"}

\* One write of sendDataToParent(); without a reader of the pipe it ends the
\* process by SIGPIPE.
Write(p, from, to, word) ==
    /\ pst[p] = from
    /\ IF PipeHasReader(p)
       THEN /\ pst' = [pst EXCEPT ![p] = to]
            /\ boosterPipe' =
                 CASE ~DaemonLives(p)                    -> boosterPipe
                   [] DaemonLives(p) /\ dpc = "astray"   -> Append(boosterPipe, Lost)
                   [] DaemonLives(p) /\ dpc # "astray"   -> Append(boosterPipe, word)
            /\ UNCHANGED <<fds, serves, backlog, ist>>
       ELSE EndProcess(p) /\ UNCHANGED boosterPipe
    /\ UNCHANGED <<setting, daemonVars, nextPid, ptype, pdaemon, met>>

\* The request was read and acknowledged; the type is reported, then the
\* invoker's pid and the respawn delay (whose values no socket depends on).
SendType(p)  == Write(p, "serving", "sendPid", [kind |-> "type", val |-> ptype[p]])
SendPid(p)   == Write(p, "sendPid", "sendDelay", [kind |-> "pid", val |-> None])
SendDelay(p) == Write(p, "sendDelay", "sent", [kind |-> "delay", val |-> None])

\* Mutant: closeAllSockets() is called for the launches that are waited for.
LaunchKeepsSockets(p) ==
    /\ pst[p] = "sent"
    /\ LET f == IF serves[p] \in Waits THEN [fds EXCEPT ![p] = {}] ELSE fds
       IN /\ fds' = f
          /\ backlog' = Backlogs(m_socketHash, f)
          /\ ist' = Told(m_socketHash, f)
    /\ pst' = [pst EXCEPT ![p] = "app"]
    /\ UNCHANGED <<setting, daemonVars, boosterPipe, nextPid, ptype, pdaemon, serves,
                   met>>

\* prctl(PR_SET_PDEATHSIG, 0) and run(): the sockets are closed before main()
\* unless there is an exit status to report.
Launch(p) ==
    /\ pst[p] = "sent"
    /\ LET f == IF serves[p] \in Waits THEN fds ELSE [fds EXCEPT ![p] = {}]
       IN /\ fds' = f
          /\ backlog' = Backlogs(m_socketHash, f)
          /\ ist' = Told(m_socketHash, f)
    /\ pst' = [pst EXCEPT ![p] = "app"]
    /\ UNCHANGED <<setting, daemonVars, boosterPipe, nextPid, ptype, pdaemon, serves,
                   met>>

\* SIGKILL to a booster.
Killed(p) ==
    /\ pst[p] \in KillAt
    /\ EndProcess(p)
    /\ UNCHANGED <<setting, daemonVars, boosterPipe, nextPid, ptype, pdaemon, met>>

AppEnds(p) ==
    /\ pst[p] = "app"
    /\ EndProcess(p)
    /\ UNCHANGED <<setting, daemonVars, boosterPipe, nextPid, ptype, pdaemon, met>>

\* What a process does by itself once it runs, and what it does with a request.
Booster(p) ==
    \/ SetPdeathsig(p) \/ StartWaiting(p) \/ Accept(p)
    \/ SendPid(p) \/ SendDelay(p) \/ Launch(p)
Serve(p) == SendType(p) \/ ServeFails(p)

-----------------------------------------------------------------------------
(* The invokers                                                            *)

\* Mutant: another type's name is taken.
InvokerSockOther(i) == CHOOSE n \in Types : n # wants[i]

\* The name that invoker_init() chooses.
InvokerSock(i) == wants[i]

\* invoker_init(): connect() fails without a file, or when nobody holds the
\* socket it names, and blocks while the backlog is full.
Connect(i) ==
    /\ ist[i] = "idle"
    /\ LET s == <<file[InvokerSock(i)], InvokerSock(i)>>
       IN IF s[1] # 0 /\ Held(s, m_socketHash, fds)
          THEN /\ Len(backlog[s]) < Backlog
               /\ backlog' = [backlog EXCEPT ![s] = Append(backlog[s], i)]
               /\ ist' = [ist EXCEPT ![i] = "queued"]
               /\ met' = [met EXCEPT ![i] =
                       IF dpc \in {"load", "fork", "dead"} THEN 0 ELSE inc]
          ELSE ist' = [ist EXCEPT ![i] = "over"] /\ UNCHANGED <<backlog, met>>
    /\ UNCHANGED <<setting, daemonVars, boosterPipe, procVars>>

Next ==
    \/ Daemon \/ Astray \/ DaemonDies \/ DaemonRestarts
    \/ \E p \in Pids : Booster(p) \/ Serve(p) \/ Killed(p) \/ AppEnds(p)
    \/ \E i \in Invokers : Connect(i)

Spec == Init /\ [][Next]_vars

\* An invoker that was accepted sends its whole request, or its end is seen.
NobodyStalls == \A p \in Pids : WF_vars(Serve(p))

\* Daemon and boosters are scheduled; nobody has to connect, to end an
\* application, or to kill or restart anybody.
FairSpec == /\ Spec /\ NobodyStalls
            /\ WF_vars(Daemon) /\ \A p \in Pids : WF_vars(Booster(p))

-----------------------------------------------------------------------------
(* Properties                                                              *)

\* Every variable keeps its type.
TypeOK ==
    /\ setting \in Settings
    /\ dpc \in DaemonPCs /\ inc \in Daemons
    /\ loaded \in 0..Len(dir)
    /\ registry \in [Daemons -> Seq([type : Types, sock : Names])]
    /\ m_socketHash \subseteq Names
    /\ file \in [Names -> 0..MaxDaemons]
    /\ cur \in [Chars -> 0..MaxPid]
    /\ boosterPipe \in Seq(Words) /\ msgType \in Chars
    /\ nextPid \in 1..(MaxPid + 1)
    /\ pst \in [Pids -> Stages]
    /\ ptype \in [Pids -> Chars]
    /\ pdaemon \in [Pids -> 0..MaxDaemons]
    /\ fds \in [Pids -> SUBSET Names]
    /\ serves \in [Pids -> Invokers \cup {None}]
    /\ backlog \in [SocketIds -> Seq(Invokers)]
    /\ ist \in [Invokers -> {"idle", "queued", "accepted", "over"}]
    /\ met \in [Invokers -> 0..MaxDaemons]

\* A booster that waits holds the socket of its type and no other, whatever
\* plugins share a type; an application holds no listening socket, except its
\* own type's while somebody waits for its exit status.
OnlyOwnListener ==
    \A p \in Pids :
        /\ pst[p] \in DiesWithDaemon \ {"armed"} =>
              fds[p] = SockOf(pdaemon[p], ptype[p]) /\ fds[p] # {}
        /\ pst[p] = "app" =>
              fds[p] = IF serves[p] \in Waits THEN SockOf(pdaemon[p], ptype[p]) ELSE {}

\* An invoker is accepted by a booster of the type it was given, if every
\* plugin's socket has the name the invoker knows for its type.
ServedByItsType ==
    \A p \in Pids :
        /\ serves[p] # None
        /\ \A e \in Range(registry[pdaemon[p]]) : e.sock = e.type
        => ptype[p] = wants[serves[p]]

\* A booster that outlived its daemon, because that died before
\* PR_SET_PDEATHSIG was set, is cut off by the next one: an invoker that
\* connects while a daemon runs is never accepted by a booster of another.
NoServiceFromTheDead ==
    \A p \in Pids : serves[p] # None /\ met[serves[p]] # 0 =>
        pdaemon[p] = met[serves[p]]

\* Invoker i is connected to a socket of a dead daemon that nobody accepts on:
\* only applications of its type that are waited for still hold it.
LeftBehind(i) ==
    \E s \in SocketIds :
        /\ i \in Range(backlog[s])
        /\ s[1] # inc \/ dpc = "dead"
        /\ \A p \in Pids : pdaemon[p] = s[1] /\ s[2] \in fds[p] =>
              pst[p] = "app" /\ serves[p] \in Waits /\ s[2] \in SockOf(s[1], ptype[p])

\* Invoker i is connected to a socket whose name two types' plugins have.
Ambiguous(i) ==
    \E s \in SocketIds, t \in Types :
        i \in Range(backlog[s]) /\ s[2] \in SockOf(s[1], t) \cap OtherSocks(s[1], t)

\* The daemon waits for the rest of a report whose sender is dead.
BrokenOff ==
    /\ dpc \in {"readPid", "readDelay"} /\ boosterPipe = <<>>
    /\ \A p \in Pids : pdaemon[p] = inc => pst[p] \notin {"sendPid", "sendDelay"}

\* An invoker that is connected does not wait for ever to be accepted,
\* whatever boosters die: it is accepted, or reset when the daemon dies.
\* There are four exceptions.  A socket whose name two types share has no
\* boosters.  The socket of a daemon that died stays open in the applications
\* of its type that are waited for; connect() still succeeds on it, and nobody
\* accepts.  And the two ways to lose a report: the daemon is blocked in
\* read() for ever by a sender killed between its writes, or it has read
\* reports of two boosters that got mixed up, or one after a broken one, and
\* need not have forked the booster this invoker waits for.
QueuedMovesOn ==
    \A i \in Invokers :
        []<>(\/ ist[i] # "queued"
             \/ LeftBehind(i) \/ Ambiguous(i)
             \/ BrokenOff \/ dpc = "astray")
=============================================================================

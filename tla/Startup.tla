------------------------------ MODULE Startup ------------------------------
(***************************************************************************)
(* Starting applauncherd: the executable that loads the launcher library   *)
(* (launcher/launcher.c), the lock file that is to keep a second instance  *)
(* out (launcherlib/main.cpp, Daemon::lock), the double fork of --daemon   *)
(* (Daemon::daemonize) and the socket files of the booster types, which an *)
(* instance removes and creates anew (SocketManager::initSocket).          *)
(*                                                                         *)
(* A record lock belongs to the process that set it: it is not inherited   *)
(* over fork() and goes away when that process ends.  Socket files survive *)
(* the process that created them.                                          *)
(***************************************************************************)
EXTENDS Integers, FiniteSets

CONSTANTS
    Instances,   \* executions of applauncherd, each started once
    Daemonized,  \* those with --daemon
    Sockets,     \* the socket files, one per booster type
    Nobody

ASSUME StartupAssumption ==
    /\ Daemonized \subseteq Instances
    /\ Nobody \notin Instances

VARIABLES
    pc,      \* per instance, where its youngest process is
    gen,     \* number of forks behind that process
    procs,   \* <<instance, generation>> of the processes that exist
    lock,    \* set of at most one process: the holder of the lock
    socket,  \* per file: the instance whose socket it names, or Nobody
    todo,    \* per instance: the socket files it has not set up yet
    at       \* per instance: the one initSocket() is at work on

vars == <<pc, gen, procs, lock, socket, todo, at>>

Stages == {"off", "main", "fork1", "fork2", "unlink", "bind", "run", "dead"}

Init ==
    /\ pc = [i \in Instances |-> "off"]
    /\ gen = [i \in Instances |-> 0]
    /\ procs = {} /\ lock = {}
    /\ socket = [s \in Sockets |-> Nobody]
    /\ todo = [i \in Instances |-> Sockets]
    /\ at \in [Instances -> Sockets]

Youngest(i) == <<i, gen[i]>>

\* Mutant: the lock outlives its holder, as a lock by the file's existence would.
GoneKeepsLock(p) == procs' = procs \ {p} /\ UNCHANGED lock

\* A process ends; the kernel drops its lock.
Gone(p) == procs' = procs \ {p} /\ lock' = lock \ {p}

\* main() of launcher.c: libraries that cannot be preloaded do not matter;
\* the library's main() is called.
Start(i) ==
    /\ pc[i] = "off"
    /\ pc' = [pc EXCEPT ![i] = "main"]
    /\ procs' = procs \cup {Youngest(i)}
    /\ UNCHANGED <<gen, lock, socket, todo, at>>

\* DISPLAY is not set, or the launcher library has no main(): nothing has been
\* touched yet.
StartFails(i) ==
    /\ pc[i] = "off"
    /\ pc' = [pc EXCEPT ![i] = "dead"]
    /\ UNCHANGED <<gen, procs, lock, socket, todo, at>>

\* Mutant: a shared lock is asked for instead of an exclusive one.
LockShared(i) ==
    /\ pc[i] = "main"
    /\ lock' = {Youngest(i)}
    /\ pc' = [pc EXCEPT ![i] = IF i \in Daemonized THEN "fork1" ELSE "unlink"]
    /\ UNCHANGED <<gen, procs, socket, todo, at>>

\* main(): Daemon::lock() comes first; the constructor daemonizes afterwards.
Lock(i) ==
    /\ pc[i] = "main"
    /\ IF lock = {}
       THEN /\ lock' = {Youngest(i)}
            /\ pc' = [pc EXCEPT ![i] = IF i \in Daemonized THEN "fork1" ELSE "unlink"]
            /\ UNCHANGED procs
       ELSE pc' = [pc EXCEPT ![i] = "dead"] /\ Gone(Youngest(i))
    /\ UNCHANGED <<gen, socket, todo, at>>

\* daemonize(): the child carries on.
Fork(i) ==
    /\ pc[i] \in {"fork1", "fork2"}
    /\ pc' = [pc EXCEPT ![i] = IF pc[i] = "fork1" THEN "fork2" ELSE "unlink"]
    /\ gen' = [gen EXCEPT ![i] = gen[i] + 1]
    /\ procs' = procs \cup {<<i, gen[i] + 1>>}
    /\ UNCHANGED <<lock, socket, todo, at>>

\* Mutant: the parent of the second fork stays.
ParentExitsOnce(i) ==
    /\ \E p \in procs : p[1] = i /\ p[2] = 0 /\ p[2] < gen[i] /\ Gone(p)
    /\ UNCHANGED <<pc, gen, socket, todo, at>>

\* daemonize(): the parent exits.
ParentExits(i) ==
    /\ \E p \in procs : p[1] = i /\ p[2] < gen[i] /\ Gone(p)
    /\ UNCHANGED <<pc, gen, socket, todo, at>>

\* Mutant: a file that exists is taken for a socket that is set up.
UnlinkLeavesFile(i) ==
    /\ pc[i] = "unlink"
    /\ \E s \in todo[i] :
         IF socket[s] = Nobody
         THEN /\ pc' = [pc EXCEPT ![i] = "bind"]
              /\ at' = [at EXCEPT ![i] = s]
              /\ UNCHANGED todo
         ELSE /\ todo' = [todo EXCEPT ![i] = todo[i] \ {s}]
              /\ UNCHANGED <<pc, at>>
    /\ UNCHANGED <<gen, procs, lock, socket>>

\* initSocket(): the previous file is removed ...
Unlink(i) ==
    /\ pc[i] = "unlink"
    /\ \E s \in todo[i] :
         /\ socket' = [socket EXCEPT ![s] = Nobody]
         /\ pc' = [pc EXCEPT ![i] = "bind"]
         /\ at' = [at EXCEPT ![i] = s]
    /\ UNCHANGED <<gen, procs, lock, todo>>

\* Mutant: bind() is tried again for as long as the name is in use.
BindRetries(i) ==
    /\ pc[i] = "bind" /\ socket[at[i]] = Nobody
    /\ socket' = [socket EXCEPT ![at[i]] = i]
    /\ todo' = [todo EXCEPT ![i] = todo[i] \ {at[i]}]
    /\ pc' = [pc EXCEPT ![i] = "unlink"]
    /\ UNCHANGED <<gen, procs, lock, at>>

\* ... and bind() makes a new one, unless somebody else has done so meanwhile.
Bind(i) ==
    /\ pc[i] = "bind"
    /\ IF socket[at[i]] = Nobody
       THEN /\ socket' = [socket EXCEPT ![at[i]] = i]
            /\ todo' = [todo EXCEPT ![i] = todo[i] \ {at[i]}]
            /\ pc' = [pc EXCEPT ![i] = "unlink"]
            /\ UNCHANGED <<procs, lock>>
       ELSE /\ pc' = [pc EXCEPT ![i] = "dead"]
            /\ Gone(Youngest(i))
            /\ UNCHANGED <<socket, todo>>
    /\ UNCHANGED <<gen, at>>

\* All sockets are there: the boosters are forked and the main loop begins.
Run(i) ==
    /\ pc[i] = "unlink" /\ todo[i] = {}
    /\ pc' = [pc EXCEPT ![i] = "run"]
    /\ UNCHANGED <<gen, procs, lock, socket, todo, at>>

\* The instance ends, or is killed, at any moment.
Die(i) ==
    /\ pc[i] \notin {"off", "dead"}
    /\ pc' = [pc EXCEPT ![i] = "dead"]
    /\ Gone(Youngest(i))
    /\ UNCHANGED <<gen, socket, todo, at>>

\* What the youngest process of an instance does by itself.
Instance(i) == Lock(i) \/ Fork(i) \/ Unlink(i) \/ Bind(i) \/ Run(i)

Next == \E i \in Instances : Start(i) \/ StartFails(i) \/ Instance(i)
                             \/ ParentExits(i) \/ Die(i)

Spec == Init /\ [][Next]_vars

\* Every process that exists is scheduled; nobody has to start one or kill it.
FairSpec ==
    Spec /\ \A i \in Instances : WF_vars(Instance(i)) /\ WF_vars(ParentExits(i))

-----------------------------------------------------------------------------
(* Properties                                                              *)

\* Every variable keeps its type.
TypeOK ==
    /\ pc \in [Instances -> Stages]
    /\ gen \in [Instances -> 0..2]
    /\ procs \subseteq Instances \X (0..2)
    /\ lock \subseteq procs /\ Cardinality(lock) <= 1
    /\ socket \in [Sockets -> Instances \cup {Nobody}]
    /\ todo \in [Instances -> SUBSET Sockets]
    /\ at \in [Instances -> Sockets]

PastLock(i) == pc[i] \in {"unlink", "bind", "run"}

\* "Lock file to prevent launch of second instance": at most one instance is
\* past the lock, whatever dies and restarts in between.
OneDaemon == \A i, j \in Instances : PastLock(i) /\ PastLock(j) => i = j

\* The same of the instances started without --daemon, the ones that keep
\* the lock they took.
OneForegroundDaemon ==
    \A i, j \in Instances \ Daemonized : PastLock(i) /\ PastLock(j) => i = j

\* An invoker that connects to a socket file of a running instance reaches
\* that instance's boosters: no file is left over from an instance that died,
\* and none was taken away by another.  (An instance with --daemon that runs
\* beside others does take their files away.)
Reachable ==
    (\A i \in Daemonized : pc[i] = "off") =>
        \A i \in Instances : pc[i] = "run" => \A s \in Sockets : socket[s] = i

\* Starting never hangs, with or without --daemon and whoever else is being
\* started or dies meanwhile: the instance runs in the end, or has given up.
Settles == \A i \in Instances : (pc[i] = "main") ~> (pc[i] \in {"run", "dead"})

\* daemonize() leaves nothing behind: of an instance that runs, and of one
\* that died half-way, the processes of the earlier generations end, and with
\* them the lock they hold.
ParentsLeave ==
    \A i \in Instances :
        (gen[i] > 0) ~> [](\A p \in procs : p[1] = i => p[2] = 2)
=============================================================================

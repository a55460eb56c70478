----------------------------- MODULE Descriptors -----------------------------
(***************************************************************************)
(* The descriptor table of the launcher, by number: what the daemon opens, *)
(* what a booster inherits and closes, what accept() and the invoker's     *)
(* SCM_RIGHTS message add, and the dup2() loop before main().  Every open  *)
(* takes the lowest free number, and every close goes by the number that   *)
(* the code remembers, whatever is open there by then.                     *)
(***************************************************************************)
EXTENDS Integers, Sequences

CONSTANTS
    MaxFd,    \* bound: the table has 0..MaxFd
    Starts    \* how the daemon is started: see StartType

Fd     == 0..MaxFd
Closed == "closed"

Pipes   == {"boosterR", "boosterW", "chldR", "chldW", "termR", "termW", "usr1R", "usr1W"}
Socks   == {"sock_m", "sock_d", "sock_q"}
IO      == <<"io0", "io1", "io2">>
Objects == Pipes \cup Socks \cup {"io0", "io1", "io2"}
               \cup {"lock", "log", "null", "conn", "hup0", "hup1"}

SockOf(t) == CASE t = "d" -> "sock_d" [] t = "m" -> "sock_m" [] t = "q" -> "sock_q"

\* Which of 0..2 are open; --quiet, --daemon, --boot-mode; no socket file is
\* left from before; its nice value, and whether it may lower that; its cwd.
StartType(s) ==
    /\ s.open \subseteq 0..2 /\ {s.quiet, s.daemon, s.boot, s.fresh, s.priv} \subseteq BOOLEAN
    /\ s.nice \in Int

ASSUME DescriptorsAssumption ==
    MaxFd \in Nat /\ MaxFd >= 24 /\ \A s \in Starts : StartType(s)

VARIABLES
    start,   \* how the daemon was started
    dp,      \* the daemon: its table, and the numbers it remembers (-1: none)
    bp       \* the same of the booster that is followed

fdVars == <<start, dp, bp>>

-----------------------------------------------------------------------------
(* System calls on p = [tab, num]                                          *)

Lowest(tab) == CHOOSE n \in Fd : tab[n] = Closed /\ \A m \in 0..(n - 1) : tab[m] # Closed

Open(p, o) ==
    LET n == Lowest(p.tab)
    IN [tab |-> [p.tab EXCEPT ![n] = o], num |-> [p.num EXCEPT ![o] = n]]

\* pipe(), socketpair().
OpenPair(p, o1, o2) == Open(Open(p, o1), o2)

\* close(the number remembered), for every o in os, which is forgotten.
CloseAll(p, os) ==
    LET closed == {p.num[o] : o \in os}
    IN [tab |-> [n \in Fd |-> IF n \in closed THEN Closed ELSE p.tab[n]],
        num |-> [o \in Objects |-> IF o \in os THEN -1 ELSE p.num[o]]]
Close(p, o) == CloseAll(p, {o})

\* dup2(n, k); close(n).
Move(p, n, k) ==
    [p EXCEPT !.tab = [m \in Fd |-> IF m = n THEN Closed
                                    ELSE IF m = k THEN p.tab[n] ELSE p.tab[m]]]

\* vsyslog() connects when it is first called.
Log(p) == IF p.num["log"] = -1 THEN Open(p, "log") ELSE p

-----------------------------------------------------------------------------
(* The daemon                                                              *)

\* consoleQuiet().
ConsoleQuiet(p) ==
    LET q == [p EXCEPT !.tab = [n \in Fd |-> IF n \in 0..2 THEN Closed ELSE p.tab[n]]]
    IN Open(Open(Open(q, "null"), "null"), "null")

\* The end of daemonize(): /dev/null is opened and moved to k.
ToDevNull(p, k) ==
    LET q == Open(p, "null") IN Move(q, q.num["null"], k)

\* Lock file, the log line of parseArgs() for the boot mode, the rest of the
\* constructor.
StartDaemon(s) ==
    LET p0 == [tab |-> [n \in Fd |-> IF n \in s.open THEN "std" ELSE Closed],
               num |-> [o \in Objects |-> -1]]
        p1 == Open(p0, "lock")
        p2 == IF s.boot THEN Log(p1) ELSE p1
        p3 == IF s.quiet THEN ConsoleQuiet(p2) ELSE p2
        p4 == OpenPair(OpenPair(p3, "boosterR", "boosterW"), "chldR", "chldW")
        p5 == OpenPair(OpenPair(p4, "termR", "termW"), "usr1R", "usr1W")
    IN IF s.daemon THEN ToDevNull(ToDevNull(ToDevNull(p5, 0), 1), 2) ELSE p5

\* initSocket(): an unlink() that fails is logged.
InitSocket(p, o, fresh) == IF fresh THEN Log(Open(p, o)) ELSE Open(p, o)
InitSockets(p, fresh) ==
    InitSocket(InitSocket(InitSocket(p, "sock_m", fresh), "sock_d", fresh), "sock_q", fresh)

FdInit ==
    /\ start \in Starts
    /\ dp = InitSockets(StartDaemon(start), start.fresh)
    /\ bp = dp

-----------------------------------------------------------------------------
(* A booster of type t                                                     *)

\* What forkBooster() closes in the child.
ChildCloses(p, t) == CloseAll(p, ((Pipes \ {"boosterW"}) \cup Socks \cup {"lock"}) \ {SockOf(t)})

\* accept(), with what runEventLoop() of the m-booster opens: it logs a line
\* first; the thread that accepts may be before or after socketpair().  The
\* pair is never closed.
AcceptedBy(p, t, boot) ==
    IF t = "m" /\ ~boot
    THEN {OpenPair(Open(Log(p), "conn"), "hup0", "hup1"),
          Open(OpenPair(Log(p), "hup0", "hup1"), "conn")}
    ELSE {Open(p, "conn")}

\* closeAllSockets(): a socket with number 0 is forgotten and stays open.
CloseAllSockets(p) ==
    [CloseAll(p, {o \in Socks : p.num[o] > 0}) EXCEPT
       !.num = [o \in Objects |-> IF o \in Socks THEN -1 ELSE p.num[o]]]

\* receiveIO().
ReceiveIO(p) == Open(Open(Open(p, "io0"), "io1"), "io2")

\* Mutant: the test is on where a descriptor goes.
DupTargets(p, i) == IF i > 0 THEN Move(p, p.num[IO[i + 1]], i) ELSE p

\* The dup2() loop of launchProcess(), for one descriptor and for all.
Dup(p, i) == IF p.num[IO[i + 1]] > 0 THEN Move(p, p.num[IO[i + 1]], i) ELSE p
DupIO(p) == Dup(Dup(Dup(p, 0), 1), 2)

FdTypeOK ==
    /\ start \in Starts
    /\ \A p \in {dp, bp} : /\ p.tab \in [Fd -> Objects \cup {"std", Closed}]
                           /\ p.num \in [Objects -> Fd \cup {-1}]
=============================================================================

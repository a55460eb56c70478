------------------------------- MODULE AppView -------------------------------
(***************************************************************************)
(* What an application finds when its main() is called, and in the cache   *)
(* of the QDeclarative booster: one launch from the words typed to the     *)
(* invoker (CommandLine), over a booster forked by a daemon that was       *)
(* started in some way (Descriptors), to the calls the application makes   *)
(* (MDeclarativeCache).  The conversation itself, with everything that can *)
(* go wrong in it, is module Invocation; here it goes well.                *)
(***************************************************************************)
EXTENDS CommandLine, Descriptors, MDeclarativeCache, Functions

ASSUME AppViewAssumption ==
    /\ \A u \in Users : UserType(u)
    /\ \A s \in Starts : s.cwd \in Bases
    /\ "/" \in Bases

VARIABLES
    pc,        \* how far the booster is
    appData,   \* AppData, and the flags given to dlopen()
    proc,      \* of the booster: nice value, m_oldPriority, cwd, $PWD, the
               \* file that was loaded
    asked      \* argc of the application's last call of qApplication(), or 0

vars == <<cmdVars, fdVars, cacheVars, pc, appData, proc, asked>>

\* AppData::AppData().
NoData == [options |-> {}, sendPid |-> FALSE, file |-> None, argc |-> 0, prio |-> 0,
           delay |-> 0, flags |-> {}]

Init ==
    /\ CmdInit /\ FdInit /\ CacheInit
    /\ pc = "none" /\ appData = NoData /\ asked = 0
    /\ proc = [nice |-> start.nice, old |-> 0, cwd |-> IF start.daemon THEN "/" ELSE start.cwd,
               pwd |-> start.cwd, loaded |-> None]

-----------------------------------------------------------------------------
(* Priorities                                                              *)

\* setpriority(n): a lower value needs privileges.
SetPriority(p, n) == IF start.priv \/ n >= p.nice THEN [p EXCEPT !.nice = n] ELSE p

PushPriority(p, n) == SetPriority([p EXCEPT !.old = p.nice], n)

\* Mutant: forgotten.
PopPriorityNot(p) == p

PopPriority(p) == SetPriority(p, p.old)

\* The beginning of launchProcess().
RestorePriority(p) == IF p.nice < appData.prio THEN SetPriority(p, appData.prio) ELSE p

-----------------------------------------------------------------------------
(* The booster that serves the invoker                                     *)

\* forkBooster() and initialize() up to the wait.  (The booster was there
\* before; which of them is followed is known once the invoker has a type.)
ForkBooster ==
    /\ ipc = "connect" /\ pc = "none"
    /\ bp' = ChildCloses(dp, req.type)
    /\ proc' = PopPriority(PushPriority(proc, 10))
    /\ cache' = IF req.type = "d" /\ ~start.boot THEN Populate(cache) ELSE cache
    /\ pc' = "waiting"
    /\ UNCHANGED <<cmdVars, start, dp, views, appData, asked>>

Accept ==
    /\ pc = "waiting"
    /\ bp' \in AcceptedBy(bp, req.type, start.boot)
    /\ pc' = "accepted"
    /\ UNCHANGED <<cmdVars, start, dp, cacheVars, appData, proc, asked>>

\* What the setters of AppData are called with.
AppDataOf(r, u) ==
    [options |-> r.magic, sendPid |-> "WAIT" \in r.magic, file |-> r.file,
     argc |-> u.argc, prio |-> u.nice, delay |-> r.respawn, flags |-> {}]

\* receiveApplicationData(): magic and actions; the environment is replaced
\* by the invoker's.  Then the connection is closed unless it is needed.
ReceiveApplicationData ==
    /\ pc = "accepted"
    /\ appData' = AppDataOf(req, user)
    /\ proc' = [proc EXCEPT !.pwd = user.pwd]
    /\ bp' = IF "WAIT" \in req.magic THEN ReceiveIO(bp) ELSE Close(ReceiveIO(bp), "conn")
    /\ pc' = "received"
    /\ UNCHANGED <<cmdVars, start, dp, cacheVars, asked>>

\* The end of initialize(), after the report to the daemon.
ClosePipe ==
    /\ pc = "received"
    /\ bp' = Close(bp, "boosterW")
    /\ pc' = "initialized"
    /\ UNCHANGED <<cmdVars, start, dp, cacheVars, appData, proc, asked>>

\* The flags of loadMain().
DlopenFlags ==
    {IF "GLOBAL" \in appData.options THEN "GLOBAL" ELSE "LOCAL"}
        \cup (appData.options \cap {"DEEP"})

\* run() and launchProcess().  dlopen() takes the file as seen from the
\* booster's directory, before chdir($PWD), which may fail without anybody
\* noticing; a file that is not executable may be no library.
Launch ==
    /\ pc = "initialized"
    /\ LET file == Full(appData.file, proc.cwd)
       IN \/ /\ KindAt(file) \in {"prog", "data"}
             /\ proc' = [RestorePriority(proc) EXCEPT
                           !.loaded = file,
                           !.cwd = IF proc.pwd \in user.dirs THEN proc.pwd ELSE @]
             /\ bp' = Close(DupIO(IF appData.sendPid THEN bp ELSE CloseAllSockets(bp)), "log")
             /\ appData' = [appData EXCEPT !.flags = DlopenFlags]
             /\ pc' = "main"
          \/ /\ KindAt(file) # "prog"
             /\ pc' = "dead"
             /\ UNCHANGED <<bp, appData, proc>>
    /\ UNCHANGED <<cmdVars, start, dp, cacheVars, asked>>

\* The application asks the cache, perhaps after it took arguments away.
AskApplication ==
    /\ pc = "main"
    /\ \E argc \in 1..appData.argc : QApplication(argc) /\ asked' = argc
    /\ UNCHANGED <<cmdVars, fdVars, pc, appData, proc>>

AskView ==
    /\ pc = "main"
    /\ QDeclarativeView
    /\ UNCHANGED <<cmdVars, fdVars, pc, appData, proc, asked>>

Next ==
    \/ CommandLine /\ UNCHANGED <<fdVars, cacheVars, pc, appData, proc, asked>>
    \/ ForkBooster \/ Accept \/ ReceiveApplicationData \/ ClosePipe \/ Launch
    \/ AskApplication \/ AskView

Spec == Init /\ [][Next]_vars

-----------------------------------------------------------------------------
(* Properties                                                              *)

\* Every variable of the launch keeps its type; numbers fit an unsigned int.
TypeOK ==
    /\ CmdTypeOK /\ FdTypeOK /\ CacheTypeOK
    /\ pc \in {"none", "waiting", "accepted", "received", "initialized", "main", "dead"}
    /\ appData.options \subseteq {"WAIT", "GLOBAL", "DEEP", "SINGLE"}
    /\ appData.sendPid \in BOOLEAN /\ appData.file \in Paths \cup {None}
    /\ appData.delay \in 0..(IntMod - 1)
    /\ appData.flags \subseteq {"GLOBAL", "LOCAL", "DEEP"}
    /\ proc.nice \in Int /\ proc.old \in Int
    /\ proc.cwd \in Bases /\ proc.pwd \in Bases \cup {None}
    /\ proc.loaded \in (Bases \X Rests) \cup {None}
    /\ asked \in Nat

\* v is what was typed, or n if nothing was, unless that does not fit an
\* unsigned int: then get_delay() cuts it without a word.
AsTyped(v, t, n) == IF t = None THEN v = n ELSE t \in 0..(IntMod - 1) => v = t

\* The delays that main() works with are the ones typed, whatever build and
\* whatever options came before; the respawn delay that reaches the booster,
\* and through it the daemon's sleep(), is between 1 and the maximum.
DelaysAsTyped ==
    pc = "main" =>
        /\ AsTyped(req.delay, typed.delay, 0)
        /\ AsTyped(appData.delay, typed.respawn, RESPAWN_DELAY)
        /\ appData.delay \in 1..MAX_RESPAWN_DELAY

\* Invoker and booster agree on whether somebody waits (one would wait for a
\* pid that is never sent, the other send to a closed connection), and the
\* booster loads, and asks for a single instance, as the options say.  After
\* -n no -w brings the waiting back (invoker.c:618-625), in whatever order; the
\* usage text (invoker.c:415) has -w as an option of its own.
OptionsHonoured ==
    pc = "main" =>
        /\ req.wait = appData.sendPid /\ req.wait = ("n" \notin typed.flags)
        /\ appData.flags = {IF "G" \in typed.flags THEN "GLOBAL" ELSE "LOCAL"}
                              \cup (IF "D" \in typed.flags THEN {"DEEP"} ELSE {})
        /\ ("SINGLE" \in appData.options) = ("s" \in typed.flags)
        /\ req.type = typed.type

\* Where a shell would find the program: an empty element of PATH is the
\* working directory, and directories are no programs.
ShellFinds ==
    LET at(e) == IF e = <<>> THEN <<user.cwd, "">> ELSE Full(e, user.cwd)
        hits == {k \in DOMAIN user.path : KindAt(at(user.path[k])) = "prog"}
    IN IF user.path = None \/ hits = {} THEN None ELSE at(user.path[Min(hits)])

\* The file that the booster loads is the one the user meant, seen from the
\* invoker's directory although the booster has another: the path typed, or
\* for a bare name what a shell would run (if PATH has no empty element).
\* main() runs in $PWD, whether or not the invoker was started there; in the
\* daemon's directory if $PWD is not set or cannot be entered, because nobody
\* looks at what chdir() returns (booster.cpp:364).
\* "could not locate program" (search.c:87): a shell would not find it
\* either, or only by an empty element of PATH.  Code 127 for a bare name: of
\* the elements that are not empty, one with a directory of that name comes
\* before any with the program.
RightProgram ==
    /\ pc = "main" =>
        /\ ~user.bare => proc.loaded = Full(user.word, user.cwd)
        /\ user.bare /\ <<>> \notin Range(user.path) => proc.loaded = ShellFinds
        /\ proc.cwd = IF user.pwd \in user.dirs THEN user.pwd
                      ELSE IF start.daemon THEN "/" ELSE start.cwd
    /\ ipc = "lost" =>
        ShellFinds = None \/ (<<>> \in Range(user.path) /\ ShellFinds = <<user.cwd, "">>)
    /\ code = 127 /\ user.bare =>
        LET Offers(k, kind) == /\ user.path[k] # <<>>
                               /\ KindAt(Full(user.path[k], user.cwd)) = kind
        IN \E k \in DOMAIN user.path :
             Offers(k, "dir") /\ \A j \in 1..(k - 1) : ~Offers(j, "prog")

\* The application never has a higher priority than its invoker; it has the
\* same, unless the daemon itself had less, or the nice value of 10 that a
\* booster gives itself could not be taken back.
RunsAtItsPriority ==
    pc = "main" =>
        proc.nice = Max({user.nice, start.nice} \cup (IF start.priv THEN {} ELSE {10}))

\* If 0..2 were open when the daemon was started: the application's standard
\* descriptors are the invoker's; its exit status goes to the connection; of
\* what daemon and booster had open nothing is left but, for an invoker that
\* waits, the connection and the own socket, and the m-booster's socket pair
\* for SIGHUP; and the daemon still has its lock, pipes and sockets.
StdioHandedOver ==
    pc = "main" /\ start.open = 0..2 =>
        /\ \A i \in 0..2 : bp.tab[i] = IO[i + 1]
        /\ appData.sendPid => bp.tab[bp.num["conn"]] = "conn"
        /\ \A n \in Fd \ 0..2 : bp.tab[n] # Closed =>
              \/ bp.tab[n] \in {"conn", SockOf(req.type)} /\ appData.sendPid
              \/ bp.tab[n] \in {"hup0", "hup1"} /\ req.type = "m" /\ ~start.boot
        /\ \A o \in {"lock"} \cup Pipes \cup Socks : dp.tab[dp.num[o]] = o

\* applicationFilePath() answers "the file path of the application
\* executable" (mdeclarativecache.h:67): seen from where main() runs, it is the
\* file that was loaded.
PathIsRight ==
    /\ ApplicationFilePath = "argv0" /\ ~user.bare
    /\ Full(user.word, proc.cwd) = proc.loaded

\* After qApplication(), QCoreApplication has the application's arguments (the
\* first ARGV_LIMIT of them) and neither the made-up name nor padding.
\* applicationFilePath() is then right, as its documentation promises,
\* exactly if the cache was populated, which the booster of another type and
\* the one of the boot mode do not do (they answer with the launcher's path),
\* the program was not called by its bare name, which is no path, and a
\* relative path is seen from the invoker's directory.
\* A view that was handed out stays the caller's: nobody gets it again.  The
\* cached view has the application's WM_CLASS if it is handed out after
\* qApplication(); no other view is given one (mdeclarativecache.cpp:102-122).
CacheAnswers ==
    /\ asked # 0 =>
        /\ Arguments = [i \in 1..(IF cache.populated THEN Min({asked, ARGV_LIMIT})
                                  ELSE asked) |-> i]
        /\ PathIsRight <=> /\ req.type = "d" /\ ~start.boot
                           /\ ~user.bare
                           /\ user.word[1] = Rel => proc.cwd = user.cwd
        /\ cache.view # NoView => cache.view \in cache.named
    /\ \A i, j \in DOMAIN views : views[i] = views[j] => i = j
    /\ \A i \in DOMAIN views : views[i] \in cache.named => i = 1 /\ cache.populated
=============================================================================

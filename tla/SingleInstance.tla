--------------------------- MODULE SingleInstance ---------------------------
(***************************************************************************)
(* Launching one application as a single instance                          *)
(* (single-instance/main.cpp), by the single-instance program itself or by *)
(* a booster that has loaded it as a plugin (Booster::initialize): a       *)
(* launch takes the record lock of the application's lock file and becomes *)
(* the application, or finds the application's window and raises it.       *)
(*                                                                         *)
(* All launches spell the application's name in the same way: the lock     *)
(* file and the search for the window go by the spelling.                  *)
(***************************************************************************)
EXTENDS Integers, FiniteSets

CONSTANTS
    Launches,    \* launches of the application, each a process of its own
    Plain,       \* those without the single-instance option
    Boosted,     \* those by a booster, which needs the plugin
    Cut,         \* those by boosters without the room for the whole name
    MaxMishaps   \* bound on failing calls, kills and exits

ASSUME SingleInstanceAssumption ==
    /\ Plain \subseteq Launches /\ Cut \subseteq Boosted /\ Boosted \subseteq Launches
    /\ MaxMishaps \in Nat

VARIABLES
    plugin,   \* the daemon could load the single-instance plugin
    pc,       \* per launch, where it is
    lock,     \* set of at most one launch: the holder of the lock
    cmdline,  \* the launches whose /proc/<pid>/cmdline is the application's
    target,   \* per launch: the launch whose window it found, or itself
    mishaps

vars == <<plugin, pc, lock, cmdline, target, mishaps>>

Stages == {"off", "lock", "begin", "app", "window", "search", "raise",
           "raised", "failed", "ended"}

\* There is no process yet, or none any more.
Over == {"off", "raised", "failed", "ended"}

\* The process exists as the application, or is bound to become it.
Instance(l) == pc[l] \in {"begin", "app", "window"}

Goto(l, from, to) == pc[l] = from /\ pc' = [pc EXCEPT ![l] = to]

\* Something goes wrong, or ends.
Mishap == mishaps < MaxMishaps /\ mishaps' = mishaps + 1

\* The launches that take the lock.
Guarded == Launches \ (Plain \cup (IF plugin THEN {} ELSE Boosted))

\* validateAndRegisterPlugin() finds the three functions, or the daemon goes
\* on without.
Init ==
    /\ plugin \in BOOLEAN
    /\ pc = [l \in Launches |-> "off"]
    /\ lock = {} /\ cmdline = {}
    /\ target = [l \in Launches |-> l]
    /\ mishaps = 0

\* A booster that has no plugin launches with a warning.
Start(l) ==
    /\ Goto(l, "off", IF l \in Guarded THEN "lock" ELSE "begin")
    /\ UNCHANGED <<lock, cmdline, target, mishaps>>

\* Mutant: the result of fcntl() is not looked at.
LockIgnoresResult(l) ==
    /\ Goto(l, "lock", "begin")
    /\ lock' = {l}
    /\ UNCHANGED <<cmdline, target, mishaps>>

\* Mutant: a lock just taken is reported as a failure and given back.
LockInverted(l) ==
    /\ Goto(l, "lock", "search")
    /\ UNCHANGED <<lock, cmdline, target, mishaps>>

\* Mutant: F_SETLKW waits for the lock.
LockWaits(l) ==
    /\ lock = {}
    /\ lock' = {l} /\ Goto(l, "lock", "begin")
    /\ UNCHANGED <<cmdline, target, mishaps>>

\* lock(): fcntl(F_SETLK) succeeds or finds the lock taken.
Lock(l) ==
    /\ IF lock = {} THEN lock' = {l} /\ Goto(l, "lock", "begin")
       ELSE UNCHANGED lock /\ Goto(l, "lock", "search")
    /\ UNCHANGED <<cmdline, target, mishaps>>

\* lock(): the directories or the file cannot be made, which is reported like
\* a lock that is taken.
LockFileFails(l) ==
    /\ Goto(l, "lock", "search")
    /\ Mishap
    /\ UNCHANGED <<lock, cmdline, target>>

\* execve(), or dlclose() of the plugin, renameProcess() and main(): the
\* descriptor of the lock file stays open, and with it the lock.  A name that
\* does not fit into the space of the daemon's own arguments is cut off.
Begin(l) ==
    /\ Goto(l, "begin", "app")
    /\ cmdline' = IF l \in Cut THEN cmdline ELSE cmdline \cup {l}
    /\ UNCHANGED <<lock, target, mishaps>>

\* The application shows its window.
ShowWindow(l) ==
    /\ Goto(l, "app", "window")
    /\ UNCHANGED <<lock, cmdline, target, mishaps>>

\* Mutant: any window will do.
SearchAnyWindow(l) ==
    /\ \E w \in Launches :
         /\ Goto(l, "search", "raise")
         /\ target' = [target EXCEPT ![l] = w]
    /\ UNCHANGED <<lock, cmdline, mishaps>>

\* windowIdForBinary(): the first window whose process bears the name.
Search(l) ==
    /\ \/ \E w \in Launches :
            /\ pc[w] = "window" /\ w \in cmdline
            /\ Goto(l, "search", "raise")
            /\ target' = [target EXCEPT ![l] = w]
       \/ /\ \A w \in cmdline : pc[w] # "window"
          /\ Goto(l, "search", "failed")
          /\ UNCHANGED target
    /\ UNCHANGED <<lock, cmdline, mishaps>>

\* XOpenDisplay() fails.
NoDisplay(l) ==
    /\ Goto(l, "search", "failed")
    /\ Mishap
    /\ UNCHANGED <<lock, cmdline, target>>

\* raiseWindow(); the launching process exits.
Raise(l) ==
    /\ Goto(l, "raise", "raised")
    /\ UNCHANGED <<lock, cmdline, target, mishaps>>

\* Mutant: an entry of the lock outlives the process.
EndKeepsLock(l) ==
    /\ pc[l] \notin Over
    /\ pc' = [pc EXCEPT ![l] = "ended"]
    /\ cmdline' = cmdline \ {l}
    /\ Mishap
    /\ UNCHANGED <<lock, target>>

\* The process ends: execve() or dlopen() fails, the application returns, or
\* somebody kills it.
End(l) ==
    /\ pc[l] \notin Over
    /\ pc' = [pc EXCEPT ![l] = "ended"]
    /\ lock' = lock \ {l} /\ cmdline' = cmdline \ {l}
    /\ Mishap
    /\ UNCHANGED target

\* What a launch does by itself; when a window appears is the application's
\* own affair.
Launch(l) == (Lock(l) \/ Begin(l) \/ Search(l) \/ Raise(l)) /\ UNCHANGED plugin

Next ==
    \E l \in Launches :
        \/ Launch(l)
        \/ /\ Start(l) \/ ShowWindow(l) \/ LockFileFails(l) \/ NoDisplay(l) \/ End(l)
           /\ UNCHANGED plugin

Spec     == Init /\ [][Next]_vars
FairSpec == Spec /\ \A l \in Launches : WF_vars(Launch(l))

-----------------------------------------------------------------------------
(* Properties                                                              *)

\* Every variable keeps its type, and the lock belongs to a living process.
TypeOK ==
    /\ plugin \in BOOLEAN
    /\ pc \in [Launches -> Stages]
    /\ lock \subseteq {l \in Launches : Instance(l)} /\ Cardinality(lock) <= 1
    /\ cmdline \subseteq {l \in Launches : Instance(l)}
    /\ target \in [Launches -> Launches]
    /\ mishaps \in 0..MaxMishaps

\* "No new application processes are started": at most one of the launches
\* with the option, and with the plugin where that is needed, is, or is about to become, the application, whatever is
\* killed, fails or restarts in between.
OneInstance ==
    \A l, k \in Guarded : Instance(l) /\ Instance(k) => l = k

\* If nothing goes wrong the launches do not all stand back for each other:
\* when every launch has come to an end of its own, one of those with the
\* option is the application.
SomebodyRuns ==
    (/\ mishaps = 0
     /\ \A l \in Launches : pc[l] \in {"raised", "failed", "app", "window"}
     /\ Guarded # {})
    => \E l \in Guarded : Instance(l)

\* A launch that raises a window has found the application's: one that was
\* launched, with or without the option, and if it is gone by now it ended.
RaisesTheApplication ==
    \A l \in Launches : pc[l] \in {"raise", "raised"} =>
        target[l] # l /\ pc[target[l]] \in {"window", "ended"}

\* Every launch comes to an end of its own, without waiting for another.
Resolved ==
    \A l \in Launches :
        (pc[l] = "lock") ~> (pc[l] \in {"app", "window", "raised", "failed", "ended"})
=============================================================================

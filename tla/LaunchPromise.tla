---------------------------- MODULE LaunchPromise ----------------------------
(***************************************************************************)
(* What one run of the invoker promises to whoever started it, without     *)
(* boosters, sockets and message words: the application it asked for, the  *)
(* end of its process, and the way the invoker itself ends.  src/README:263*)
(* says that the invoker "waits for the application to terminate and exits *)
(* with the same exit code", and that "Unix signals are also forwarded".   *)
(* Where the code does not keep that, the exception is an action of its    *)
(* own or a conjunct, said to be one.  Module Invocation implements this.  *)
(***************************************************************************)
CONSTANTS
    Statuses,   \* values the application's main() can return
    Signals     \* deadly signals

VARIABLES
    wait,       \* whether the invoker waits for the application to terminate
    app,        \* <<"none", "">>, <<"running", "">>, or how the application ended
    end,        \* <<"none", "">>, or how the process ended that is, or was to
                \*   become, the application
    forwarding, \* the invoker catches the signals that can be caught
    told        \* <<"none", "">>, or how the invoker ended

vars == <<wait, app, end, forwarding, told>>

None    == <<"none", "">>
Running == <<"running", "">>
Done    == <<"exit", "0">>
Returned == {<<"ret", v>> : v \in Statuses}
Exited   == {<<"exit", v>> : v \in Statuses}
Killed   == {<<"sig", s>> : s \in Signals \cup {"PIPE"}}

Failure  == <<"exit", "1">>      \* the launch was refused or broke down
Lost     == <<"exit", "250">>    \* the connection ended without a status
Unknown  == <<"exit", "junk">>   \* the connection ended within the status

Init ==
    /\ wait \in BOOLEAN /\ forwarding = FALSE
    /\ app = None /\ end = None /\ told = None

-----------------------------------------------------------------------------
(* The application's process                                               *)

Start ==
    /\ app = None /\ end = None
    /\ app' = Running
    /\ UNCHANGED <<wait, end, forwarding, told>>

\* The launch is refused or breaks down.
Refuse ==
    /\ app = None /\ end = None
    /\ end' \in {Failure, Done}
    /\ UNCHANGED <<wait, app, forwarding, told>>

\* main() returns; the process ends at once, or when the status is reported.
Return ==
    /\ app = Running
    /\ app' \in Returned
    /\ end' = IF wait THEN None ELSE Done
    /\ UNCHANGED <<wait, forwarding, told>>

Finish ==
    /\ app \in Returned /\ end = None
    /\ end' = Done
    /\ UNCHANGED <<wait, app, forwarding, told>>

Exit ==
    /\ app = Running
    /\ \E h \in Exited : app' = h /\ end' = h
    /\ UNCHANGED <<wait, forwarding, told>>

DiesOf(h) ==
    /\ end' = h
    /\ app' = IF app = Running THEN h ELSE app

\* A signal ends the process; SIGPIPE only when the invoker is gone.
Die ==
    /\ end = None
    /\ \E h \in Killed : DiesOf(h) /\ (h[2] = "PIPE" => told # None)
    /\ UNCHANGED <<wait, forwarding, told>>

-----------------------------------------------------------------------------
(* The invoker                                                             *)

NeverRan == app = None /\ end # None

\* The verdicts on a launch that is waited for.  A status is the one that
\* main() returned; a signal the one that ended the process.  Exceptions to
\* the README: the status is unknown if the process was killed after main()
\* returned, and that of an application that called exit() is always lost.
Verdicts ==
    {<<"exit", v>> : v \in {w \in Statuses : app = <<"ret", w>>}}
    \cup (IF end \in Killed THEN {end} ELSE {})
    \cup (IF NeverRan THEN {Failure, Lost} ELSE {})
    \cup (IF end \in Killed \/ app \in Exited THEN {Lost} ELSE {})
    \cup (IF end \in Killed /\ app \in Returned THEN {Unknown} ELSE {})

Tell ==
    /\ told = None
    /\ \/ wait /\ told' \in Verdicts
       \/ ~wait /\ told' \in {Done} \cup (IF NeverRan THEN {Failure} ELSE {})
       \/ NeverRan /\ told' = <<"sig", "PIPE">>
    /\ UNCHANGED <<wait, app, end, forwarding>>

\* From now on a signal is forwarded.
Watch ==
    /\ wait /\ told = None
    /\ forwarding' = TRUE
    /\ UNCHANGED <<wait, app, end, told>>

\* A signal ends the invoker, and with it the application or the process that
\* was to become it.
HitForwarding(s) ==
    /\ forwarding /\ s # "KILL"
    /\ IF end = None THEN DiesOf(<<"sig", s>>) ELSE UNCHANGED <<app, end>>

\* Exception to the README: the application outlives the invoker, or starts
\* behind its back, after SIGKILL, after a signal that came too early, and of
\* course when nobody waits.
HitAlone(s) ==
    /\ ~forwarding \/ s = "KILL"
    /\ UNCHANGED <<app, end>>

Hit ==
    /\ told = None
    /\ \E s \in Signals : told' = <<"sig", s>> /\ (HitForwarding(s) \/ HitAlone(s))
    /\ UNCHANGED <<wait, forwarding>>

Next == Start \/ Refuse \/ Return \/ Finish \/ Exit \/ Die \/ Tell \/ Watch \/ Hit

Spec == Init /\ [][Next]_vars
=============================================================================

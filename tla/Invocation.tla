----------------------------- MODULE Invocation -----------------------------
(***************************************************************************)
(* One launch: the invoker (invoker/invoker.c, invokelib.c) and the booster*)
(* that accepted its connection (launcherlib/connection.cpp and the second *)
(* half of booster.cpp) over a local stream socket, with the application   *)
(* the booster turns into, signals that hit either process, and the daemon *)
(* passing the application's death on to the invoker.                      *)
(*                                                                         *)
(* A word or string written by one side is one unit on the socket.  Only   *)
(* what the receiver can tell apart is kept of it: a string has an         *)
(* acceptable or an excessive length, a list some or too many items.       *)
(* One item stands for all items of a list.                                *)
(***************************************************************************)
EXTENDS Integers, Sequences

CONSTANTS
    Statuses,    \* values the application's main() can return
    Signals,     \* deadly signals sent to the invoker or to the booster
    Singles,     \* subset of BOOLEAN: values of --single-instance explored
    MaxSignals   \* bound on the number of signals sent

ASSUME InvocationAssumption ==
    /\ Singles \subseteq BOOLEAN /\ MaxSignals \in Nat
    /\ "PIPE" \notin Signals   \* SIGPIPE only comes from a write

VARIABLES
    req,        \* what the invoker was asked to launch, and how
    ipc,        \* where the invoker is
    sent,       \* words of the request written so far
    g_invoked_pid,  \* "-1", "pid" or "junk"
    handlers,   \* the invoker's signal dispositions: "default" or "forward"
    told,       \* how the invoker ended
    bpc,        \* where the booster is
    taken,      \* words of the request read so far
    m_sendPid,
    got,        \* parts of the request the booster holds as the invoker sent them
    toInvoker,  \* words on their way back
    bOpen,      \* the booster's end of the connection is open
    bend,       \* how the booster process ended
    app,        \* what has become of the application
    mapped,     \* the daemon knows the pair booster - invoker
    signals     \* signals sent by the environment

invokerVars == <<ipc, sent, g_invoked_pid, handlers, told>>
boosterVars == <<bpc, taken, m_sendPid, got, bOpen, bend, app, mapped>>
vars == <<req, invokerVars, boosterVars, toInvoker, signals>>

None    == <<"none", "">>
Running == <<"running", "">>

\* The lists of a request have "some" items, too "many", or one too "long".
\* None is empty: there is the program's name, and main() itself puts
\* POSIXLY_CORRECT into the environment.  io: descriptors 0..2 of the invoker
\* are open.
Shapes   == {"some", "many", "long"}
Requests == [wait : BOOLEAN, single : Singles, args : Shapes, env : Shapes, io : BOOLEAN]

-----------------------------------------------------------------------------
(* The request on the wire                                                 *)

\* The words of one list: invoker_send_args, invoker_send_env.
ListWords(action, shape) ==
    <<action, IF shape = "many" THEN "bigcount" ELSE "count",
      IF shape = "long" THEN "bigsize" ELSE "size", "text">>

\* What invoke_remote writes, in its order.  Descriptors that are not open
\* cannot be sent: sendmsg() fails, which is only reported, and the receiver
\* takes the first byte of the next word for the message.
Words ==
    <<IF req.wait THEN "MAGIC|WAIT" ELSE "MAGIC",
      "NAME", "size", "text", "EXEC", "size", "text">>
    \o ListWords("ARGS", req.args)
    \o <<"PRIO", "word", "DELAY", "word", "IDS", "word", "word", "IO">>
    \o (IF req.io THEN <<"fds">> \o ListWords("ENV", req.env)
        ELSE ListWords("cutword", req.env))
    \o <<"END">>

\* How many words the handler of the action at position k reads, the action
\* included.  A list with a count out of bounds is abandoned after the count,
\* a string with a size out of bounds after the size.
Extent(k) ==
    CASE Words[k] = "EXEC" -> 3
      [] Words[k] \in {"ARGS", "ENV"} ->
           IF Words[k + 1] # "count" THEN 2
           ELSE IF Words[k + 2] = "bigsize" THEN 3 ELSE 4
      [] Words[k] \in {"PRIO", "DELAY"} -> 2
      [] Words[k] = "IO" -> IF req.io THEN 2 ELSE 1
      [] Words[k] = "IDS" -> 3
      [] OTHER -> 1

\* Whether the handler ends up with what was sent.
Faithful(k) ==
    /\ Words[k] = "IO" => req.io
    /\ ~ \E j \in k..(k + Extent(k) - 1) : Words[j] \in {"bigcount", "bigsize"}

Actions == {"EXEC", "ARGS", "PRIO", "DELAY", "IDS", "IO", "ENV"}

-----------------------------------------------------------------------------
Init ==
    /\ req \in Requests
    /\ ipc = "send" /\ sent = 0 /\ g_invoked_pid = "-1" /\ handlers = "default"
    /\ told = None
    /\ bpc = "accept" /\ taken = 0 /\ m_sendPid = FALSE /\ got = {}
    /\ toInvoker = <<>> /\ bOpen = TRUE /\ bend = None
    /\ app = None /\ mapped = FALSE
    /\ signals = 0

-----------------------------------------------------------------------------
(* The invoker                                                             *)

InvokerEnds(h) == ipc' = "done" /\ told' = h

\* invoke_remote: the next word, or SIGPIPE if the booster has closed.
SendWord ==
    /\ ipc = "send" /\ sent < Len(Words)
    /\ IF bOpen
       THEN /\ sent' = sent + 1
            /\ ipc' = IF sent' = Len(Words) THEN "ack" ELSE "send"
            /\ UNCHANGED told
       ELSE InvokerEnds(<<"sig", "PIPE">>) /\ UNCHANGED sent
    /\ UNCHANGED <<req, g_invoked_pid, handlers, boosterVars, toInvoker, signals>>

\* Mutant: the end of the stream is not noticed.
RecvNoEof(pc, w) ==
    /\ ipc = pc
    /\ toInvoker # <<>> /\ w = Head(toInvoker) /\ toInvoker' = Tail(toInvoker)

\* A blocking read of the next word from the booster; at the end of the stream
\* the variable read into is left as it was, and is none of the words expected.
Recv(pc, w) ==
    /\ ipc = pc
    /\ \/ toInvoker # <<>> /\ w = Head(toInvoker) /\ toInvoker' = Tail(toInvoker)
       \/ toInvoker = <<>> /\ ~bOpen /\ w = "junk" /\ UNCHANGED toInvoker

ReplyWords == {"BAD_CREDS", "ACK", "PID", "pid", "EXIT", "junk"} \cup Statuses

\* Mutant: the PID message is not waited for.
RecvAckNoPid ==
    /\ \E w \in ReplyWords :
         /\ Recv("ack", w)
         /\ IF w # "ACK" THEN InvokerEnds(<<"exit", "1">>)
            ELSE IF req.wait THEN ipc' = "sigs_init" /\ UNCHANGED told
            ELSE InvokerEnds(<<"exit", "0">>)
    /\ UNCHANGED <<req, sent, g_invoked_pid, handlers, boosterVars, signals>>

\* invoke_recv_ack; a launch with --no-wait is over here.
RecvAck ==
    /\ \E w \in ReplyWords :
         /\ Recv("ack", w)
         /\ IF w # "ACK" THEN InvokerEnds(<<"exit", "1">>)
            ELSE IF req.wait THEN ipc' = "pid" /\ UNCHANGED told
            ELSE InvokerEnds(<<"exit", "0">>)
    /\ UNCHANGED <<req, sent, g_invoked_pid, handlers, boosterVars, signals>>

\* invoker_recv_pid: the message, and the pid that follows it.
RecvPid ==
    /\ \E w \in ReplyWords :
         \/ /\ Recv("pid", w)
            /\ IF w = "PID" THEN ipc' = "pidval" /\ UNCHANGED told
               ELSE InvokerEnds(<<"exit", "1">>)
            /\ UNCHANGED g_invoked_pid
         \/ /\ Recv("pidval", w)
            /\ g_invoked_pid' = w
            /\ ipc' = "sigs_init" /\ UNCHANGED told
    /\ UNCHANGED <<req, sent, handlers, boosterVars, signals>>

SigsInit ==
    /\ ipc = "sigs_init"
    /\ handlers' = "forward"
    /\ ipc' = "exit"
    /\ UNCHANGED <<req, sent, g_invoked_pid, told, boosterVars, toInvoker, signals>>

\* Mutant: the message is not looked at, a status is read after it anyway.
RecvExitAnyMessage ==
    /\ \E w \in ReplyWords :
         \/ Recv("exit", w) /\ ipc' = "status" /\ UNCHANGED told
         \/ Recv("status", w) /\ InvokerEnds(<<"exit", w>>)
    /\ UNCHANGED <<req, sent, g_invoked_pid, handlers, boosterVars, signals>>

\* invoker_recv_exit: the message, and the status that follows it.
RecvExit ==
    /\ \E w \in ReplyWords :
         \/ /\ Recv("exit", w)
            /\ ipc' = IF w = "EXIT" THEN "status" ELSE "sleep"
            /\ UNCHANGED told
         \/ Recv("status", w) /\ InvokerEnds(<<"exit", w>>)
    /\ UNCHANGED <<req, sent, g_invoked_pid, handlers, boosterVars, signals>>

\* The two seconds given to the daemon are over and no signal has arrived.
SleepOver ==
    /\ ipc = "sleep"
    /\ InvokerEnds(<<"exit", "250">>)
    /\ UNCHANGED <<req, sent, g_invoked_pid, handlers, boosterVars, toInvoker, signals>>

Invoker == SendWord \/ RecvAck \/ RecvPid \/ SigsInit \/ RecvExit \/ SleepOver

-----------------------------------------------------------------------------
(* The booster and the application                                         *)

\* The process ends, and with it its end of the connection.  An application
\* that is running ends with it.
BoosterEnds(h) ==
    /\ bpc' = "dead" /\ bend' = h /\ bOpen' = FALSE
    /\ app' = IF app = Running THEN h ELSE app

\* Connection::accept.  Without the credentials the invoker is told so.
Accept ==
    /\ bpc = "accept"
    /\ \/ bpc' = "magic" /\ UNCHANGED <<bend, bOpen, app, toInvoker>>
       \/ /\ ipc # "done"
          /\ BoosterEnds(<<"exit", "1">>) /\ toInvoker' = <<"BAD_CREDS">>
       \/ /\ ipc = "done"
          /\ BoosterEnds(<<"sig", "PIPE">>) /\ UNCHANGED toInvoker
    /\ UNCHANGED <<req, invokerVars, taken, m_sendPid, got, mapped, signals>>

\* The first n unread words have arrived.
Here(n) == taken + n <= sent

\* Mutant: a read that meets the end of the stream is tried again.
BrokenNever(n) == FALSE

\* The stream has ended before them: what is read is 0, no valid message.
Broken(n) == ~Here(n) /\ ipc = "done"

\* receiveMagic and receiveAppName.
ReceiveHead ==
    /\ \/ /\ bpc = "magic" /\ Here(1)
          /\ m_sendPid' = (Words[1] = "MAGIC|WAIT")
          /\ taken' = taken + 1
          /\ bpc' = "name" /\ UNCHANGED <<bend, bOpen, app>>
       \/ /\ bpc = "name" /\ Here(3)
          /\ taken' = taken + 3
          /\ bpc' = "actions" /\ UNCHANGED <<m_sendPid, bend, bOpen, app>>
       \/ /\ (bpc = "magic" /\ Broken(1)) \/ (bpc = "name" /\ Broken(3))
          /\ BoosterEnds(<<"exit", "1">>)
          /\ UNCHANGED <<taken, m_sendPid>>
    /\ UNCHANGED <<req, invokerVars, got, mapped, toInvoker, signals>>

\* Mutant: a handler reads one word too many.
ReceiveActionOneMore ==
    /\ bpc = "actions" /\ Here(1)
    /\ LET k == taken + 1
       IN /\ Here(Extent(k))
          /\ taken' = taken + Extent(k) + (IF Words[k] \in Actions THEN 1 ELSE 0)
          /\ got' = got \cup ({Words[k]} \cap Actions)
          /\ bpc' = IF Words[k] = "END" THEN "ack" ELSE "actions"
    /\ UNCHANGED <<req, invokerVars, m_sendPid, bend, bOpen, app, mapped,
                   toInvoker, signals>>

\* Mutant: a word that is no action is skipped.
ReceiveActionSkips ==
    /\ bpc = "actions" /\ Here(1)
    /\ LET k == taken + 1
       IN /\ Here(Extent(k))
          /\ taken' = taken + Extent(k)
          /\ got' = IF Faithful(k) THEN got \cup ({Words[k]} \cap Actions) ELSE got
          /\ bpc' = IF Words[k] = "END" THEN "ack" ELSE "actions"
    /\ UNCHANGED <<req, invokerVars, m_sendPid, bend, bOpen, app, mapped,
                   toInvoker, signals>>

\* receiveActions, one round.  Whether the handler succeeded is not looked
\* at; an unknown action word ends the booster.
ReceiveAction ==
    /\ bpc = "actions"
    /\ IF Here(1) /\ Words[taken + 1] \in Actions
       THEN LET k == taken + 1
            IN \/ /\ Here(Extent(k))
                  /\ taken' = taken + Extent(k)
                  /\ got' = IF Faithful(k) THEN got \cup {Words[k]} ELSE got
                  /\ UNCHANGED <<bpc, bend, bOpen, app>>
               \/ /\ Broken(Extent(k))
                  /\ BoosterEnds(<<"exit", "1">>)
                  /\ UNCHANGED <<taken, got>>
       ELSE IF Here(1) /\ Words[taken + 1] = "END"
       THEN /\ taken' = taken + 1
            /\ bpc' = "ack"
            /\ UNCHANGED <<got, bend, bOpen, app>>
       ELSE /\ Here(1) \/ Broken(1)
            /\ BoosterEnds(<<"exit", "1">>)
            /\ UNCHANGED <<taken, got>>
    /\ UNCHANGED <<req, invokerVars, m_sendPid, mapped, toInvoker, signals>>

\* One word back to the invoker, or SIGPIPE if that is gone.
Reply(pc, next, w) ==
    /\ bpc = pc
    /\ IF ipc # "done"
       THEN /\ toInvoker' = Append(toInvoker, w)
            /\ bpc' = next /\ UNCHANGED <<bend, bOpen, app>>
       ELSE BoosterEnds(<<"sig", "PIPE">>) /\ UNCHANGED toInvoker
    /\ UNCHANGED <<req, invokerVars, taken, m_sendPid, got, mapped, signals>>

SendAck    == Reply("ack", IF m_sendPid THEN "pid" ELSE "close", "ACK")
SendPidMsg == Reply("pid", "pidval", "PID")
SendPidVal == Reply("pidval", "single", "pid")

\* Without an exit status to report the connection is closed at once.
CloseEarly ==
    /\ bpc = "close"
    /\ bpc' = "single" /\ bOpen' = FALSE
    /\ UNCHANGED <<req, invokerVars, taken, m_sendPid, got, bend, app, mapped,
                   toInvoker, signals>>

\* The single-instance lock is held by another process: its window is
\* activated, or that fails; nothing is launched and nobody is told.
Activate ==
    /\ bpc = "single" /\ req.single
    /\ \E v \in {"0", "1"} : BoosterEnds(<<"exit", v>>)
    /\ UNCHANGED <<req, invokerVars, taken, m_sendPid, got, mapped, toInvoker, signals>>

\* sendDataToParent: from here the daemon forwards a deadly signal.
Report ==
    /\ bpc = "single"
    /\ bpc' = "load"
    /\ mapped' = m_sendPid
    /\ UNCHANGED <<req, invokerVars, taken, m_sendPid, got, bOpen, bend, app,
                   toInvoker, signals>>

\* launchProcess up to the call of main(), which loadMain may not find.
Load ==
    /\ bpc = "load"
    /\ \/ bpc' = "app" /\ app' = Running /\ UNCHANGED <<bend, bOpen>>
       \/ BoosterEnds(<<"exit", "1">>)
    /\ UNCHANGED <<req, invokerVars, taken, m_sendPid, got, mapped, toInvoker, signals>>

\* main() returns; without an exit status to report the process is done.
AppReturns ==
    /\ bpc = "app"
    /\ \E v \in Statuses :
         /\ app' = <<"ret", v>>
         /\ IF m_sendPid THEN bpc' = "exit" /\ UNCHANGED <<bend, bOpen>>
            ELSE bpc' = "dead" /\ bend' = <<"exit", "0">> /\ bOpen' = FALSE
    /\ UNCHANGED <<req, invokerVars, taken, m_sendPid, got, mapped, toInvoker, signals>>

\* The application calls exit() somewhere.
AppExits ==
    /\ bpc = "app"
    /\ \E v \in Statuses : BoosterEnds(<<"exit", v>>)
    /\ UNCHANGED <<req, invokerVars, taken, m_sendPid, got, mapped, toInvoker, signals>>

\* sendAppExitStatus, and the end of the process.
SendExitMsg == Reply("exit", "status", "EXIT")
SendStatus  == Reply("status", "finish", app[2])
Finish ==
    /\ bpc = "finish"
    /\ BoosterEnds(<<"exit", "0">>)
    /\ UNCHANGED <<req, invokerVars, taken, m_sendPid, got, mapped, toInvoker, signals>>

\* What happens by itself; the application may run for ever.
Booster ==
    \/ Accept \/ ReceiveHead \/ ReceiveAction \/ SendAck \/ SendPidMsg
    \/ SendPidVal \/ CloseEarly \/ Activate \/ Report \/ Load \/ SendExitMsg
    \/ SendStatus \/ Finish

Application == AppReturns \/ AppExits

-----------------------------------------------------------------------------
(* Signals                                                                 *)

\* A signal reaches the invoker: sig_forwarder sends it to the pid it was
\* told, restores the defaults and raises it again.  A pid that nobody sent
\* may be negative: then the signal has no effect.
SignalsInvoker(s) ==
    /\ ipc # "done"
    /\ \/ /\ InvokerEnds(<<"sig", s>>)
          /\ IF handlers = "forward" /\ s # "KILL" /\ g_invoked_pid = "pid" /\ bpc # "dead"
             THEN BoosterEnds(<<"sig", s>>)
             ELSE UNCHANGED <<bpc, bend, bOpen, app>>
       \/ /\ handlers = "forward" /\ s # "KILL" /\ g_invoked_pid # "pid"
          /\ UNCHANGED <<ipc, told, bpc, bend, bOpen, app>>
    /\ UNCHANGED <<req, sent, g_invoked_pid, handlers, taken, m_sendPid, got,
                   mapped, toInvoker>>

KillInvoker ==
    /\ signals < MaxSignals
    /\ signals' = signals + 1
    /\ \E s \in Signals : SignalsInvoker(s)

KillBooster ==
    /\ signals < MaxSignals /\ bpc # "dead"
    /\ signals' = signals + 1
    /\ \E s \in Signals : BoosterEnds(<<"sig", s>>)
    /\ UNCHANGED <<req, invokerVars, taken, m_sendPid, got, mapped, toInvoker>>

\* reapZombies in the daemon finds the pair and passes the signal on, once.
DaemonForwards ==
    /\ bpc = "dead" /\ mapped /\ bend[1] = "sig"
    /\ IF ipc # "done"
       THEN InvokerEnds(<<"sig", bend[2]>>) /\ mapped' = FALSE
       ELSE mapped' = FALSE /\ UNCHANGED <<ipc, told>>
    /\ UNCHANGED <<req, sent, g_invoked_pid, handlers, bpc, taken, m_sendPid,
                   got, bOpen, bend, app, toInvoker, signals>>

Next == Invoker \/ Booster \/ Application \/ DaemonForwards \/ KillInvoker \/ KillBooster

\* Both processes are scheduled.
Fairness == WF_vars(Invoker) /\ WF_vars(Booster)

Spec     == Init /\ [][Next]_vars
FairSpec == Spec /\ Fairness

-----------------------------------------------------------------------------
(* Properties                                                              *)

Ends == {<<"exit", v>> : v \in Statuses \cup {"0", "1", "250", "junk"}}
        \cup {<<"sig", s>> : s \in Signals \cup {"PIPE"}}

\* Every variable keeps its type.
TypeOK ==
    /\ req \in Requests
    /\ ipc \in {"send", "ack", "pid", "pidval", "sigs_init", "exit", "status",
                "sleep", "done"}
    /\ sent \in 0..Len(Words) /\ taken \in 0..sent
    /\ g_invoked_pid \in {"-1"} \cup ReplyWords
    /\ handlers \in {"default", "forward"}
    /\ told \in {None} \cup Ends /\ bend \in {None} \cup Ends
    /\ bpc \in {"accept", "magic", "name", "actions", "ack", "pid", "pidval",
                "close", "single", "load", "app", "exit", "status", "finish", "dead"}
    /\ m_sendPid \in BOOLEAN /\ bOpen \in BOOLEAN /\ mapped \in BOOLEAN
    /\ got \subseteq Actions
    /\ toInvoker \in Seq(ReplyWords)
    /\ app \in {None, Running} \cup Ends \cup {<<"ret", v>> : v \in Statuses}
    /\ signals \in 0..MaxSignals

\* receiveActions does not look at what its handlers return, yet a request
\* that could not be read completely is never acknowledged and its
\* application never started: the words left unread are no action and end
\* the booster.
AckMeansComplete ==
    bpc \in {"ack", "pid", "pidval", "close", "single", "load", "app"} =>
        got = Actions /\ taken = Len(Words)

\* The invoker follows sig_forwarder's pid only if it is the booster's: a
\* booster that dies between the PID message and the pid leaves a pid that
\* nobody sent, and then there is no process left to be signalled for it.
ForwardsToTheApp ==
    handlers = "forward" => g_invoked_pid = "pid" \/ bpc = "dead"

\* The invoker never hangs on a booster that is gone.
InvokerEndsToo == (bpc = "dead") ~> (ipc = "done")

\* A booster never hangs on an invoker that is gone: it becomes the
\* application or ends.
BoosterMovesOn == (ipc = "done") ~> (bpc \in {"app", "dead"})

\* One run of the invoker keeps the promise of LaunchPromise: the status it
\* exits with is the one main() returned, a signal it is ended by has ended
\* the application too, and a failure or a lost connection is told only of an
\* application that will not start, or ended without a status to be read.
\* Two of its exceptions are disagreements with the documents.  An
\* application that calls exit(), instead of returning from main(), has its
\* exit code replaced by 250 (src/README:263 "exits with the same exit code";
\* tests/Harmattan/TestScripts/test-func-launcher.py:414 "invoker returns the
\* same exit status as the application").  And a signal is not "forwarded"
\* (src/README:264; test-func-launcher.py:244 "the launched application should
\* die too") if it reaches the invoker before sigs_init(), or is SIGKILL.
Promise == INSTANCE LaunchPromise
           WITH wait <- req.wait, end <- bend, forwarding <- (handlers = "forward")
KeepsPromise == Promise!Spec
=============================================================================

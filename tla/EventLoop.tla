----------------------------- MODULE EventLoop -----------------------------
(***************************************************************************)
(* How an m-booster waits for its invoker (mbooster/eventhandler.cpp,      *)
(* MBooster::receiveDataFromInvoker): the main thread runs a Qt event loop *)
(* while a second thread blocks in Connection::accept().  The loop is left *)
(* when that thread says so, and the process ends inside it when the theme *)
(* changes or when the daemon dies.                                        *)
(*                                                                         *)
(* In boot mode none of this happens: see StartWaiting in module Launcher. *)
(***************************************************************************)
EXTENDS Integers

VARIABLES
    main,      \* where the main thread is
    thread,    \* where the accepting thread is
    client,    \* the invoker's connection
    m_fd,      \* whether Connection::m_fd is an open connection
    quits,     \* quit() slots posted to the event queue
    theme,     \* "same", "changed" unseen, or "noted": the slot is posted
    sighup,    \* disposition of SIGHUP: "default" or "handler"
    hupByte,   \* a byte in the SIGHUP socket pair
    hup        \* the daemon has died

vars == <<main, thread, client, m_fd, quits, theme, sighup, hupByte, hup>>

Init ==
    /\ main = "start" /\ thread = "none"
    /\ client = "none" /\ m_fd = FALSE
    /\ quits = 0 /\ theme = "same"
    /\ sighup = "default" /\ hupByte = FALSE /\ hup = FALSE

-----------------------------------------------------------------------------
(* The main thread: runEventLoop                                           *)

Step(from, to) == main = from /\ main' = to

\* The slots are connected; the GConf item reports changes from now on.
Connect ==
    /\ Step("start", "connected")
    /\ UNCHANGED <<thread, client, m_fd, quits, theme, sighup, hupByte, hup>>

\* QtConcurrent::run(accept).
Spawn ==
    /\ Step("connected", "spawned")
    /\ thread' = "accept"
    /\ UNCHANGED <<client, m_fd, quits, theme, sighup, hupByte, hup>>

\* setupUnixSignalHandlers, unless there is no socket pair for it.  (Of the
\* bits its sa_flags may start with, none makes a difference to one SIGHUP.)
SetupSigHup ==
    /\ Step("spawned", "ready")
    /\ sighup' \in {"default", "handler"}
    /\ UNCHANGED <<thread, client, m_fd, quits, theme, hupByte, hup>>

\* Mutant: exec() starts with an empty queue, as quit() called directly would.
ExecForgets ==
    /\ Step("ready", "loop")
    /\ quits' = 0
    /\ UNCHANGED <<thread, client, m_fd, theme, sighup, hupByte, hup>>

\* MApplication::exec(); what was posted before is delivered in it.
Exec ==
    /\ Step("ready", "loop")
    /\ UNCHANGED <<thread, client, m_fd, quits, theme, sighup, hupByte, hup>>

\* A posted quit() ends the loop.
Quit ==
    /\ Step("loop", "left")
    /\ quits > 0
    /\ quits' = quits - 1
    /\ UNCHANGED <<thread, client, m_fd, theme, sighup, hupByte, hup>>

\* Mutant: the slot notes the change and returns, the process goes on waiting.
NotifyThemeChangeStays ==
    /\ main = "loop" /\ theme = "noted"
    /\ theme' = "same"
    /\ UNCHANGED <<main, thread, client, m_fd, quits, sighup, hupByte, hup>>

\* notifyThemeChange: the process ends at once, with whatever the accepting
\* thread has accepted.
NotifyThemeChange ==
    /\ Step("loop", "dead")
    /\ theme = "noted"
    /\ UNCHANGED <<thread, client, m_fd, quits, theme, sighup, hupByte, hup>>

\* Mutant: the socket notifier is never installed.
HandleSigHupNever == FALSE /\ UNCHANGED vars

\* handleSigHup: the byte written by the signal handler ends the process.
HandleSigHup ==
    /\ Step("loop", "dead")
    /\ hupByte
    /\ UNCHANGED <<thread, client, m_fd, quits, theme, sighup, hupByte, hup>>

\* The theme item is disconnected and deleted, a change noted by it is lost.
Disconnect ==
    /\ Step("left", "deaf")
    /\ theme' = IF theme = "noted" THEN "changed" ELSE theme
    /\ UNCHANGED <<thread, client, m_fd, quits, sighup, hupByte, hup>>

\* restoreUnixSignalHandlers.
Restore ==
    /\ Step("deaf", "restored")
    /\ sighup' = "default"
    /\ UNCHANGED <<thread, client, m_fd, quits, theme, hupByte, hup>>

\* receiveDataFromInvoker goes on if there is a connection.
Serve ==
    /\ Step("restored", IF m_fd THEN "serve" ELSE "dead")
    /\ UNCHANGED <<thread, client, m_fd, quits, theme, sighup, hupByte, hup>>

Main ==
    \/ Connect \/ Spawn \/ SetupSigHup \/ Exec \/ Quit \/ NotifyThemeChange
    \/ HandleSigHup \/ Disconnect \/ Restore \/ Serve

-----------------------------------------------------------------------------
(* The accepting thread                                                    *)

\* Connection::accept: a connection, or one without the credentials, which
\* is closed again.
Accept ==
    /\ main # "dead" /\ thread = "accept" /\ client = "waiting"
    /\ \/ client' = "accepted" /\ m_fd' = TRUE
       \/ client' = "refused" /\ m_fd' = FALSE
    /\ thread' = "emit"
    /\ UNCHANGED <<main, quits, theme, sighup, hupByte, hup>>

\* Mutant: the signal is emitted before the connection is accepted.
EmitFirst ==
    /\ main # "dead"
    /\ \/ thread = "accept" /\ quits = 0 /\ quits' = 1 /\ UNCHANGED thread
       \/ thread = "emit" /\ thread' = "done" /\ UNCHANGED quits
    /\ UNCHANGED <<main, client, m_fd, theme, sighup, hupByte, hup>>

\* Mutant: the thread accepts in a loop and emits every time round.
EmitAgain ==
    /\ main # "dead" /\ thread = "emit" /\ quits < 3
    /\ quits' = quits + 1
    /\ UNCHANGED <<main, thread, client, m_fd, theme, sighup, hupByte, hup>>

\* connectionAccepted or connectionRejected, queued for the main thread.
Emit ==
    /\ main # "dead" /\ thread = "emit"
    /\ quits' = quits + 1
    /\ thread' = "done"
    /\ UNCHANGED <<main, client, m_fd, theme, sighup, hupByte, hup>>

Thread == Accept \/ Emit

-----------------------------------------------------------------------------
(* The environment                                                         *)

InvokerConnects ==
    /\ client = "none"
    /\ client' = "waiting"
    /\ UNCHANGED <<main, thread, m_fd, quits, theme, sighup, hupByte, hup>>

\* accept() itself fails, nobody having been accepted.
AcceptFails ==
    /\ main # "dead" /\ thread = "accept"
    /\ thread' = "emit"
    /\ UNCHANGED <<main, client, m_fd, quits, theme, sighup, hupByte, hup>>

\* The theme changes; the booster hears of it while the item is connected.
ThemeChanges ==
    /\ theme = "same"
    /\ theme' = IF main \in {"connected", "spawned", "ready", "loop", "left"}
                THEN "noted" ELSE "changed"
    /\ UNCHANGED <<main, thread, client, m_fd, quits, sighup, hupByte, hup>>

\* The daemon dies and the kernel sends SIGHUP; hupSignalHandler writes a byte.
DaemonDies ==
    /\ ~hup /\ main # "dead"
    /\ hup' = TRUE
    /\ IF sighup = "handler" THEN hupByte' = TRUE /\ UNCHANGED main
       ELSE main' = "dead" /\ UNCHANGED hupByte
    /\ UNCHANGED <<thread, client, m_fd, quits, theme, sighup>>

Environment == InvokerConnects \/ AcceptFails \/ ThemeChanges \/ DaemonDies

Next == Main \/ Thread \/ Environment

Spec == Init /\ [][Next]_vars

\* Both threads are scheduled.  A loop that has several events to deliver
\* does not starve one of them, and each of them ends it.
FairSpec == Spec /\ WF_vars(Main) /\ WF_vars(Thread)

-----------------------------------------------------------------------------
(* Properties                                                              *)

\* Every variable keeps its type; in particular one quit() is posted at most.
TypeOK ==
    /\ main \in {"start", "connected", "spawned", "ready", "loop", "left",
                 "deaf", "restored", "serve", "dead"}
    /\ thread \in {"none", "accept", "emit", "done"}
    /\ client \in {"none", "waiting", "accepted", "refused"}
    /\ m_fd \in BOOLEAN /\ quits \in 0..1
    /\ theme \in {"same", "noted", "changed"}
    /\ sighup \in {"default", "handler"}
    /\ hupByte \in BOOLEAN /\ hup \in BOOLEAN

\* Once the main thread has left the loop, the other thread has nothing more
\* to do with the Connection object: the two never use it at the same time,
\* and a served connection is the one that was accepted.
ConnectionHandedOver ==
    /\ main \in {"left", "deaf", "restored", "serve"} => thread = "done"
    /\ main = "serve" => client = "accepted" /\ sighup = "default"

\* An invoker is never left hanging: a connection accepted before exec() was
\* entered leaves the loop just as well as one accepted later.
InvokerAnswered == (client = "waiting") ~> (main \in {"serve", "dead"})

\* A booster does not go on waiting with the widgets of the old theme: if the
\* theme item reports a change while it waits it ends, unless an invoker came
\* first.  (A change before the item is connected, eventhandler.cpp:26, is
\* never reported, although the widgets may be made by then; this booster does
\* wait with the old ones.  One after it is disconnected comes too late.)
ThemeHeeded == (theme = "noted") ~> (main \in {"serve", "dead"})

\* A booster does not go on waiting for a daemon that is gone, although its
\* SIGHUP handler only writes a byte.
DaemonsEndNoticed == hup ~> (main \in {"serve", "dead"})
=============================================================================

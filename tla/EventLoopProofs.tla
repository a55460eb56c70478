-------------------------- MODULE EventLoopProofs --------------------------
(***************************************************************************)
(* Proofs about module EventLoop: the two threads of an m-booster hand the *)
(* Connection object over in an orderly way.                               *)
(***************************************************************************)
EXTENDS EventLoop, TLAPS

\* Where the main thread is once it has left the event loop.
PastLoop == {"left", "deaf", "restored", "serve"}

\* What makes the hand-over work.  The thread is started once; a quit() is
\* only posted by a thread that has finished, so only such a thread lets the
\* loop be left; m_fd is set for an accepted connection alone; the SIGHUP
\* handler is never set again after it was restored.
HandOver ==
    /\ main \in {"start", "connected"} => thread = "none"
    /\ quits > 0 => thread = "done"
    /\ main \in PastLoop => thread = "done" /\ quits = 0
    /\ m_fd => client = "accepted"
    /\ main = "serve" => m_fd
    /\ main \in {"restored", "serve"} => sighup = "default"

IInv == TypeOK /\ HandOver

\* The initial state satisfies IInv.
LEMMA HandOverInit == Init => IInv
  <1> SUFFICES ASSUME Init PROVE IInv
    OBVIOUS
  <1>1. quits \in 0..1 /\ ~(quits > 0)
    BY DEF Init
  <1>2. TypeOK
    BY <1>1, Zenon DEF Init, TypeOK
  <1>3. HandOver
    BY <1>1, Zenon DEF Init, HandOver, PastLoop
  <1> QED
    BY <1>2, <1>3 DEF IInv

\* Every step of either thread and of the environment preserves IInv.
LEMMA HandOverStep == IInv /\ [Next]_vars => IInv'
  <1> SUFFICES ASSUME IInv, [Next]_vars PROVE IInv'
    OBVIOUS
  <1> USE DEF IInv, TypeOK, HandOver, PastLoop
  <1>1. CASE Main
    <2>1. CASE Connect
      BY <2>1 DEF Connect, Step
    <2>2. CASE Spawn
      BY <2>2 DEF Spawn, Step
    <2>3. CASE SetupSigHup
      BY <2>3 DEF SetupSigHup, Step
    <2>4. CASE Exec
      BY <2>4 DEF Exec, Step
    <2>5. CASE Quit
      BY <2>5 DEF Quit, Step
    <2>6. CASE NotifyThemeChange
      BY <2>6 DEF NotifyThemeChange, Step
    <2>7. CASE HandleSigHup
      BY <2>7 DEF HandleSigHup, Step
    <2>8. CASE Disconnect
      BY <2>8 DEF Disconnect, Step
    <2>9. CASE Restore
      BY <2>9 DEF Restore, Step
    <2>10. CASE Serve
      BY <2>10 DEF Serve, Step
    <2> QED
      BY <1>1, <2>1, <2>2, <2>3, <2>4, <2>5, <2>6, <2>7, <2>8, <2>9, <2>10
         DEF Main
  <1>2. CASE Accept
    BY <1>2 DEF Accept
  <1>3. CASE Emit
    BY <1>3 DEF Emit
  <1>4. CASE InvokerConnects
    BY <1>4 DEF InvokerConnects
  <1>5. CASE AcceptFails
    BY <1>5 DEF AcceptFails
  <1>6. CASE ThemeChanges
    BY <1>6 DEF ThemeChanges
  <1>7. CASE DaemonDies
    BY <1>7 DEF DaemonDies
  <1>8. CASE UNCHANGED vars
    BY <1>8 DEF vars
  <1> QED
    BY <1>1, <1>2, <1>3, <1>4, <1>5, <1>6, <1>7, <1>8
       DEF Next, Thread, Environment

\* Every variable keeps its type; the event queue never holds more than the
\* one quit() that EventHandler::accept() posts.
THEOREM Typing == Spec => []TypeOK
  <1>1. IInv => TypeOK
    BY DEF IInv
  <1> QED
    BY HandOverInit, HandOverStep, <1>1, PTL DEF Spec

\* The accepting thread is done with the Connection object before the main
\* thread goes on to use it, and what is served is an accepted connection,
\* with SIGHUP back at its default.
THEOREM HandedOver == Spec => []ConnectionHandedOver
  <1>1. IInv => ConnectionHandedOver
    BY DEF IInv, HandOver, PastLoop, ConnectionHandedOver
  <1> QED
    BY HandOverInit, HandOverStep, <1>1, PTL DEF Spec
=============================================================================

-------------------------- MODULE InvocationProofs --------------------------
(***************************************************************************)
(* Proofs about module Invocation, for every set of statuses and signals   *)
(* and any number of signals: the request is read completely or not acted  *)
(* on, a signal is forwarded to the right process, and one run of the      *)
(* invoker implements LaunchPromise.                                       *)
(***************************************************************************)
EXTENDS Invocation, TLAPS

Returned == {<<"ret", v>> : v \in Statuses}
Killed   == {<<"sig", s>> : s \in Signals \cup {"PIPE"}}

\* Where receiveActions can be between two rounds.  A list it abandons, or
\* descriptors that did not arrive, leave it at a word that is no action.
Reading(n, parts) == taken = n /\ got = parts
ActionsOK ==
    \/ Reading(4, {})
    \/ Reading(7, {"EXEC"})
    \/ req.args = "many" /\ Reading(9, {"EXEC"})
    \/ req.args = "long" /\ Reading(10, {"EXEC"})
    \/ req.args = "some" /\
         \/ Reading(11, {"EXEC", "ARGS"})
         \/ Reading(13, {"EXEC", "ARGS", "PRIO"})
         \/ Reading(15, {"EXEC", "ARGS", "PRIO", "DELAY"})
         \/ Reading(18, {"EXEC", "ARGS", "PRIO", "DELAY", "IDS"})
         \/ ~req.io /\ Reading(19, {"EXEC", "ARGS", "PRIO", "DELAY", "IDS"})
         \/ req.io /\
              \/ Reading(20, Actions \ {"ENV"})
              \/ req.env = "many" /\ Reading(22, Actions \ {"ENV"})
              \/ req.env = "long" /\ Reading(23, Actions \ {"ENV"})
              \/ req.env = "some" /\ Reading(24, Actions)

\* Where the booster is, and what it has read by then.
Acknowledging == {"ack", "pid", "pidval", "close", "single", "load", "app"}
ReadOK ==
    /\ bpc \in {"accept", "magic"} => taken = 0 /\ got = {}
    /\ bpc = "name" => taken = 1 /\ got = {}
    /\ bpc = "actions" => ActionsOK
    /\ AckMeansComplete

\* What the booster knows of the invoker, and how far its process is.
BoosterOK ==
    /\ bpc \notin {"accept", "magic", "dead"} => m_sendPid = req.wait
    /\ bpc \in {"pid", "pidval", "exit", "status", "finish"} => req.wait
    /\ bpc = "close" => ~req.wait
    /\ bpc = "dead" => ~bOpen
    /\ ~bOpen => bpc = "dead" \/ (~req.wait /\ bpc \in {"single", "load", "app"})
    /\ bpc = "app" <=> app = Running
    /\ bpc \in {"exit", "status", "finish"} => app \in Returned
    /\ bpc \notin {"app", "exit", "status", "finish", "dead"} => app = None

\* The replies in the order in which the booster sends them, how many it has
\* sent when it is at pc, and how many the invoker has read when it is.
Script(k) == CASE k = 1 -> "ACK" [] k = 2 -> "PID" [] k = 3 -> "pid"
               [] k = 4 -> "EXIT" [] OTHER -> app[2]
Written(pc) ==
    CASE pc \in {"accept", "magic", "name", "actions", "ack"} -> 0
      [] pc \in {"pid", "close"} -> 1
      [] pc = "pidval" -> 2
      [] pc \in {"single", "load", "app"} -> IF req.wait THEN 3 ELSE 1
      [] pc = "exit" -> 3
      [] pc = "status" -> 4
      [] OTHER -> 5
Read(pc) ==
    CASE pc \in {"send", "ack"} -> 0
      [] pc = "pid" -> 1
      [] pc = "pidval" -> 2
      [] pc \in {"sigs_init", "exit"} -> 3
      [] OTHER -> 4
Total == Read(ipc) + Len(toInvoker)

\* The words on their way are the replies that the invoker has not read; how
\* far they go tells what has become of the application.
InScript ==
    /\ \A j \in 1..Len(toInvoker) : toInvoker[j] = Script(Read(ipc) + j)
    /\ Total <= 5
    /\ bpc # "dead" => Total = Written(bpc)
    /\ app # None => Total >= (IF req.wait THEN 3 ELSE 1)
    /\ Total >= 4 => app \in Returned
Refused == toInvoker = <<"BAD_CREDS">> /\ bpc = "dead" /\ app = None /\ ipc \in {"send", "ack"}
StreamOK == ipc \notin {"sleep", "done"} => InScript \/ Refused

\* What the invoker knows of the booster, and what it may have said.
InvokerOK ==
    /\ told = None <=> ipc # "done"
    /\ ipc \in {"pid", "pidval", "sigs_init", "exit", "status", "sleep"} => req.wait
    /\ handlers = "forward" => req.wait
    /\ handlers = "forward" \/ ipc \in {"sigs_init", "exit", "status", "sleep"} =>
         g_invoked_pid = "pid" \/ bpc = "dead"
    /\ ipc = "sleep" => bpc = "dead"
    /\ told \in {<<"exit", "1">>, <<"exit", "250">>, <<"exit", "junk">>} =>
         bpc = "dead" \/ app \in Returned

IInv == TypeOK /\ ReadOK /\ BoosterOK /\ StreamOK /\ InvokerOK

-----------------------------------------------------------------------------
(* The request                                                             *)

\* The words of a request and where they are.
LEMMA WordTable ==
    ASSUME req \in Requests
    PROVE  /\ Len(Words) = IF req.io THEN 25 ELSE 24
           /\ Words[1] = IF req.wait THEN "MAGIC|WAIT" ELSE "MAGIC"
           /\ Words[5] = "EXEC" /\ Words[6] = "size" /\ Words[7] = "text"
           /\ Words[8] = "ARGS"
           /\ Words[9] = IF req.args = "many" THEN "bigcount" ELSE "count"
           /\ Words[10] = IF req.args = "long" THEN "bigsize" ELSE "size"
           /\ Words[11] = "text"
           /\ Words[12] = "PRIO" /\ Words[13] = "word"
           /\ Words[14] = "DELAY" /\ Words[15] = "word"
           /\ Words[16] = "IDS" /\ Words[17] = "word" /\ Words[18] = "word"
           /\ Words[19] = "IO"
           /\ ~req.io => Words[20] = "cutword"
           /\ req.io => /\ Words[20] = "fds" /\ Words[21] = "ENV"
                        /\ Words[22] = IF req.env = "many" THEN "bigcount" ELSE "count"
                        /\ Words[23] = IF req.env = "long" THEN "bigsize" ELSE "size"
                        /\ Words[24] = "text" /\ Words[25] = "END"
  <1>1. CASE req.io
    <2>1. Len(Words) = 25
      BY <1>1 DEF Words, ListWords
    <2>2. /\ Words[1] = IF req.wait THEN "MAGIC|WAIT" ELSE "MAGIC"
          /\ Words[5] = "EXEC" /\ Words[6] = "size" /\ Words[7] = "text"
          /\ Words[8] = "ARGS"
      BY <1>1 DEF Words, ListWords
    <2>3. /\ Words[9] = IF req.args = "many" THEN "bigcount" ELSE "count"
          /\ Words[10] = IF req.args = "long" THEN "bigsize" ELSE "size"
          /\ Words[11] = "text"
      BY <1>1 DEF Words, ListWords
    <2>4. /\ Words[12] = "PRIO" /\ Words[13] = "word"
          /\ Words[14] = "DELAY" /\ Words[15] = "word"
          /\ Words[16] = "IDS" /\ Words[17] = "word" /\ Words[18] = "word"
          /\ Words[19] = "IO"
      BY <1>1 DEF Words, ListWords
    <2>5. /\ Words[20] = "fds" /\ Words[21] = "ENV"
          /\ Words[22] = IF req.env = "many" THEN "bigcount" ELSE "count"
          /\ Words[23] = IF req.env = "long" THEN "bigsize" ELSE "size"
          /\ Words[24] = "text" /\ Words[25] = "END"
      BY <1>1 DEF Words, ListWords
    <2> QED
      BY <1>1, <2>1, <2>2, <2>3, <2>4, <2>5
  <1>2. CASE ~req.io
    <2>1. Len(Words) = 24
      BY <1>2 DEF Words, ListWords
    <2>2. /\ Words[1] = IF req.wait THEN "MAGIC|WAIT" ELSE "MAGIC"
          /\ Words[5] = "EXEC" /\ Words[6] = "size" /\ Words[7] = "text"
          /\ Words[8] = "ARGS"
      BY <1>2 DEF Words, ListWords
    <2>3. /\ Words[9] = IF req.args = "many" THEN "bigcount" ELSE "count"
          /\ Words[10] = IF req.args = "long" THEN "bigsize" ELSE "size"
          /\ Words[11] = "text"
      BY <1>2 DEF Words, ListWords
    <2>4. /\ Words[12] = "PRIO" /\ Words[13] = "word"
          /\ Words[14] = "DELAY" /\ Words[15] = "word"
          /\ Words[16] = "IDS" /\ Words[17] = "word" /\ Words[18] = "word"
          /\ Words[19] = "IO" /\ Words[20] = "cutword"
      BY <1>2 DEF Words, ListWords
    <2> QED
      BY <1>2, <2>1, <2>2, <2>3, <2>4
  <1> QED
    BY <1>1, <1>2

\* The request does not change, and with it neither do its words.
LEMMA SameWords ==
    ASSUME req' = req
    PROVE  Words' = Words
  BY DEF Words, ListWords

\* How far each handler reads and whether it ends up with what was sent.
LEMMA Handlers ==
    ASSUME req \in Requests
    PROVE  /\ Extent(5) = 3 /\ Faithful(5)
           /\ req.args = "many" => Extent(8) = 2 /\ ~Faithful(8)
           /\ req.args = "long" => Extent(8) = 3 /\ ~Faithful(8)
           /\ req.args = "some" => Extent(8) = 4 /\ Faithful(8)
           /\ Extent(12) = 2 /\ Faithful(12)
           /\ Extent(14) = 2 /\ Faithful(14)
           /\ Extent(16) = 3 /\ Faithful(16)
           /\ ~req.io => Extent(19) = 1 /\ ~Faithful(19)
           /\ req.io => /\ Extent(19) = 2 /\ Faithful(19)
                        /\ req.env = "many" => Extent(21) = 2 /\ ~Faithful(21)
                        /\ req.env = "long" => Extent(21) = 3 /\ ~Faithful(21)
                        /\ req.env = "some" => Extent(21) = 4 /\ Faithful(21)
  <1>1. Extent(5) = 3 /\ Faithful(5)
    BY WordTable DEF Extent, Faithful
  <1>2. req.args = "many" => Extent(8) = 2 /\ ~Faithful(8)
    BY WordTable DEF Extent, Faithful
  <1>3. req.args = "long" => Extent(8) = 3 /\ ~Faithful(8)
    BY WordTable DEF Extent, Faithful
  <1>4. req.args = "some" => Extent(8) = 4 /\ Faithful(8)
    BY WordTable DEF Extent, Faithful
  <1>5. Extent(12) = 2 /\ Faithful(12)
    BY WordTable DEF Extent, Faithful
  <1>6. Extent(14) = 2 /\ Faithful(14)
    BY WordTable DEF Extent, Faithful
  <1>7. Extent(16) = 3 /\ Faithful(16)
    BY WordTable DEF Extent, Faithful
  <1>8. ~req.io => Extent(19) = 1 /\ ~Faithful(19)
    BY WordTable DEF Extent, Faithful
  <1>9. req.io => Extent(19) = 2 /\ Faithful(19)
    BY WordTable DEF Extent, Faithful
  <1>10. req.io /\ req.env = "many" => Extent(21) = 2 /\ ~Faithful(21)
    BY WordTable DEF Extent, Faithful
  <1>11. req.io /\ req.env = "long" => Extent(21) = 3 /\ ~Faithful(21)
    BY WordTable DEF Extent, Faithful
  <1>12. req.io /\ req.env = "some" => Extent(21) = 4 /\ Faithful(21)
    BY WordTable DEF Extent, Faithful
  <1> QED
    BY <1>1, <1>2, <1>3, <1>4, <1>5, <1>6, <1>7, <1>8, <1>9, <1>10, <1>11, <1>12


-----------------------------------------------------------------------------
(* The request is read in step with how it was written                     *)

\* A booster that is not reading keeps what it has read.
LEMMA ReadKept ==
    ASSUME ReadOK, UNCHANGED <<req, taken, got>>,
           \/ bpc' = bpc
           \/ bpc' \in {"dead", "exit", "status", "finish"}
           \/ bpc = "accept" /\ bpc' = "magic"
           \/ bpc \in Acknowledging /\ bpc' \in Acknowledging
    PROVE  ReadOK'
  <1>1. Words' = Words
    BY SameWords
  <1>2. CASE bpc' = bpc
    BY <1>1, <1>2 DEF ReadOK, ActionsOK, Reading, AckMeansComplete
  <1>3. CASE bpc' \in {"dead", "exit", "status", "finish"}
    BY <1>3 DEF ReadOK, AckMeansComplete
  <1>4. CASE bpc = "accept" /\ bpc' = "magic"
    BY <1>4 DEF ReadOK, AckMeansComplete
  <1>5. CASE bpc \in Acknowledging /\ bpc' \in Acknowledging
    BY <1>1, <1>5 DEF ReadOK, AckMeansComplete, Acknowledging
  <1> QED
    BY <1>2, <1>3, <1>4, <1>5

\* receiveMagic and receiveAppName leave the booster at the first action.
LEMMA ReadHead ==
    ASSUME TypeOK, ReadOK, ReceiveHead
    PROVE  ReadOK'
  BY DEF TypeOK, ReadOK, ReceiveHead, BoosterEnds, ActionsOK, Reading, AckMeansComplete

\* One round of receiveActions goes from one position of the table to the
\* next, leaves the table at the end of the request, or ends the booster.
LEMMA ReadRound ==
    ASSUME TypeOK, ReadOK, ReceiveAction
    PROVE  ReadOK'
  <1>1. req \in Requests /\ req' = req /\ bpc = "actions" /\ ActionsOK
    BY DEF TypeOK, ReadOK, ReceiveAction
  <1>2. Words' = Words
    BY <1>1, SameWords
  <1>3. CASE bpc' = "dead"
    BY <1>3 DEF ReadOK, AckMeansComplete
  <1>4. CASE bpc' # "dead"
    <2> DEFINE k == taken + 1
    <2>1. \/ /\ Words[k] \in Actions /\ bpc' = "actions"
             /\ taken' = taken + Extent(k)
             /\ got' = IF Faithful(k) THEN got \cup {Words[k]} ELSE got
          \/ /\ Words[k] = "END" /\ bpc' = "ack"
             /\ taken' = taken + 1 /\ got' = got
      BY <1>1, <1>4 DEF ReceiveAction, BoosterEnds
    <2>2. CASE Reading(4, {})
      BY <1>1, <1>2, <2>1, <2>2, WordTable, Handlers
         DEF Reading, Actions, ReadOK, ActionsOK, AckMeansComplete, Requests, Shapes
    <2>3. CASE Reading(7, {"EXEC"})
      BY <1>1, <1>2, <2>1, <2>3, WordTable, Handlers
         DEF Reading, Actions, ReadOK, ActionsOK, AckMeansComplete, Requests, Shapes
    <2>4. CASE req.args = "many" /\ Reading(9, {"EXEC"})
      BY <1>1, <1>2, <2>1, <2>4, WordTable, Handlers
         DEF Reading, Actions, ReadOK, ActionsOK, AckMeansComplete, Requests, Shapes
    <2>5. CASE req.args = "long" /\ Reading(10, {"EXEC"})
      BY <1>1, <1>2, <2>1, <2>5, WordTable, Handlers
         DEF Reading, Actions, ReadOK, ActionsOK, AckMeansComplete, Requests, Shapes
    <2>6. CASE req.args = "some" /\ Reading(11, {"EXEC", "ARGS"})
      BY <1>1, <1>2, <2>1, <2>6, WordTable, Handlers
         DEF Reading, Actions, ReadOK, ActionsOK, AckMeansComplete, Requests, Shapes
    <2>7. CASE req.args = "some" /\ Reading(13, {"EXEC", "ARGS", "PRIO"})
      BY <1>1, <1>2, <2>1, <2>7, WordTable, Handlers
         DEF Reading, Actions, ReadOK, ActionsOK, AckMeansComplete, Requests, Shapes
    <2>8. CASE req.args = "some" /\ Reading(15, {"EXEC", "ARGS", "PRIO", "DELAY"})
      BY <1>1, <1>2, <2>1, <2>8, WordTable, Handlers
         DEF Reading, Actions, ReadOK, ActionsOK, AckMeansComplete, Requests, Shapes
    <2>9. CASE req.args = "some" /\ Reading(18, {"EXEC", "ARGS", "PRIO", "DELAY", "IDS"})
      <3>1. bpc' = "actions" /\ taken' = 18 + Extent(19)
            /\ got' = IF Faithful(19) THEN got \cup {"IO"} ELSE got
        BY <1>1, <2>1, <2>9, WordTable DEF Reading
      <3>2. CASE ~req.io
        BY <1>1, <2>9, <3>1, <3>2, Handlers
           DEF Reading, ReadOK, ActionsOK, AckMeansComplete
      <3>3. CASE req.io
        <4>1. Reading(20, Actions \ {"ENV"})'
          BY <1>1, <2>9, <3>1, <3>3, Handlers DEF Reading, Actions
        <4> QED
          BY <1>1, <2>9, <3>1, <3>3, <4>1 DEF ReadOK, ActionsOK, AckMeansComplete
      <3> QED
        BY <3>2, <3>3
    <2>10. CASE ~req.io /\ Reading(19, {"EXEC", "ARGS", "PRIO", "DELAY", "IDS"})
      BY <1>1, <1>2, <2>1, <2>10, WordTable, Handlers
         DEF Reading, Actions, ReadOK, ActionsOK, AckMeansComplete, Requests, Shapes
    <2>11. CASE req.args = "some" /\ req.io /\ Reading(20, Actions \ {"ENV"})
      <3>1. bpc' = "actions" /\ taken' = 20 + Extent(21)
            /\ got' = IF Faithful(21) THEN got \cup {"ENV"} ELSE got
        BY <1>1, <2>1, <2>11, WordTable DEF Reading
      <3>2. CASE req.env = "some"
        <4>1. Reading(24, Actions)'
          BY <1>1, <2>11, <3>1, <3>2, Handlers DEF Reading, Actions
        <4> QED
          BY <1>1, <2>11, <3>1, <3>2, <4>1 DEF ReadOK, ActionsOK, AckMeansComplete
      <3>3. CASE req.env # "some"
        BY <1>1, <2>11, <3>1, <3>3, Handlers
           DEF Reading, ReadOK, ActionsOK, AckMeansComplete, Requests, Shapes
      <3> QED
        BY <3>2, <3>3
    <2>12. CASE req.io /\ req.env = "many" /\ Reading(22, Actions \ {"ENV"})
      BY <1>1, <1>2, <2>1, <2>12, WordTable, Handlers
         DEF Reading, Actions, ReadOK, ActionsOK, AckMeansComplete, Requests, Shapes
    <2>13. CASE req.io /\ req.env = "long" /\ Reading(23, Actions \ {"ENV"})
      BY <1>1, <1>2, <2>1, <2>13, WordTable, Handlers
         DEF Reading, Actions, ReadOK, ActionsOK, AckMeansComplete, Requests, Shapes
    <2>14. CASE req.io /\ req.env = "some" /\ Reading(24, Actions)
      BY <1>1, <1>2, <2>1, <2>14, WordTable, Handlers
         DEF Reading, Actions, ReadOK, ActionsOK, AckMeansComplete, Requests, Shapes
    <2> QED
      BY <1>1, <2>2, <2>3, <2>4, <2>5, <2>6, <2>7, <2>8, <2>9, <2>10, <2>11,
         <2>12, <2>13, <2>14 DEF ActionsOK
  <1> QED
    BY <1>3, <1>4


-----------------------------------------------------------------------------
(* The end of a process                                                    *)

\* The ways to end are told apart, from each other and from not ending.
LEMMA Outcomes ==
    /\ \A v \in Statuses \cup {"0", "1", "250", "junk"} : <<"exit", v>> \in Ends
    /\ \A s \in Signals \cup {"PIPE"} : <<"sig", s>> \in Ends
    /\ \A v \in Statuses : <<"ret", v>> \in Returned
    /\ \A e \in Ends : /\ e # None /\ e # Running /\ e \notin Returned
                       /\ e[1] = "sig" => e[2] \in Signals \cup {"PIPE"}
    /\ \A r \in Returned : r # None /\ r # Running /\ r[2] \in Statuses
    /\ None # Running
  <1>1. /\ \A v \in Statuses \cup {"0", "1", "250", "junk"} : <<"exit", v>> \in Ends
        /\ \A s \in Signals \cup {"PIPE"} : <<"sig", s>> \in Ends
    BY DEF Ends
  <1>2. \A v \in Statuses : <<"ret", v>> \in Returned
    BY DEF Returned
  <1>3. None[1] = "none" /\ Running[1] = "running"
    BY DEF None, Running
  <1>4. \A r \in Returned : r[1] = "ret" /\ r[2] \in Statuses
    <2> TAKE r \in Returned
    <2>1. PICK v \in Statuses : r = <<"ret", v>>
      BY DEF Returned
    <2> QED
      BY <2>1
  <1>5. ASSUME NEW e \in Ends
        PROVE  /\ e # None /\ e # Running /\ e \notin Returned
               /\ e[1] = "sig" => e[2] \in Signals \cup {"PIPE"}
    <2>1. CASE \E v \in Statuses \cup {"0", "1", "250", "junk"} : e = <<"exit", v>>
      <3>1. e[1] = "exit"
        BY <2>1
      <3> QED
        BY <1>3, <1>4, <3>1
    <2>2. CASE \E s \in Signals \cup {"PIPE"} : e = <<"sig", s>>
      <3>1. e[1] = "sig" /\ e[2] \in Signals \cup {"PIPE"}
        BY <2>2
      <3> QED
        BY <1>3, <1>4, <3>1
    <2> QED
      BY <2>1, <2>2 DEF Ends
  <1>6. \A r \in Returned : r # None /\ r # Running
    BY <1>3, <1>4
  <1>7. None # Running
    BY <1>3
  <1> QED
    BY <1>1, <1>2, <1>4, <1>5, <1>6, <1>7

\* A process that ends while it is not the application leaves the invoker
\* with the words it has sent; the application's end is the process's.
LEMMA BoosterDies ==
    ASSUME IInv, NEW h \in Ends, bpc # "dead", BoosterEnds(h),
           UNCHANGED <<req, invokerVars, taken, m_sendPid, got, mapped, toInvoker>>,
           signals' \in 0..MaxSignals
    PROVE  IInv'
  <1>1. Words' = Words
    BY SameWords
  <1>2. TypeOK'
    BY <1>1 DEF IInv, TypeOK, BoosterEnds, invokerVars
  <1>3. ReadOK'
    BY ReadKept DEF IInv, BoosterEnds
  <1>4. BoosterOK'
    BY Outcomes DEF IInv, BoosterOK, BoosterEnds
  <1>5. InvokerOK'
    BY Outcomes DEF IInv, InvokerOK, BoosterEnds, invokerVars
  <1>6. StreamOK'
    <2> SUFFICES ASSUME ipc \notin {"sleep", "done"}
                 PROVE  InScript'
      BY DEF StreamOK, invokerVars
    <2>1. InScript
      BY DEF IInv, StreamOK, Refused
    <2>2. Total' = Total
      BY DEF Total, Read, invokerVars
    <2>3. CASE app = Running
      <3>1. bpc = "app" /\ app \notin Returned
        BY <2>3, Outcomes DEF IInv, BoosterOK
      <3>2. Total <= 3
        BY <2>1, <3>1 DEF InScript, Written
      <3>3. Len(toInvoker) \in Nat /\ Read(ipc) \in Nat
        BY DEF IInv, TypeOK, Read
      <3>4. \A j \in 1..Len(toInvoker) : Script(Read(ipc) + j)' = Script(Read(ipc) + j)
        BY <3>2, <3>3 DEF Total, Script, Read, invokerVars
      <3>5. app # None
        BY <2>3, Outcomes
      <3> QED
        BY <2>1, <2>2, <3>2, <3>4, <3>5 DEF InScript, BoosterEnds, Total, invokerVars, Read
    <2>4. CASE app # Running
      BY <2>1, <2>2, <2>4 DEF InScript, BoosterEnds, Script, Read, invokerVars
    <2> QED
      BY <2>3, <2>4
  <1> QED
    BY <1>2, <1>3, <1>4, <1>5, <1>6 DEF IInv


\* An invoker that ends leaves the booster as it is.
LEMMA InvokerDone ==
    ASSUME IInv, NEW h \in Ends, InvokerEnds(h),
           h \in {<<"exit", "1">>, <<"exit", "250">>, <<"exit", "junk">>} =>
             bpc = "dead" \/ app \in Returned,
           UNCHANGED <<req, sent, g_invoked_pid, handlers>>,
           UNCHANGED <<bpc, taken, m_sendPid, got, bOpen, bend, app>>,
           mapped' \in BOOLEAN, toInvoker' \in Seq(ReplyWords),
           signals' \in 0..MaxSignals
    PROVE  IInv'
  <1>1. Words' = Words
    BY SameWords
  <1>2. TypeOK'
    BY <1>1 DEF IInv, TypeOK, InvokerEnds
  <1>3. ReadOK'
    BY ReadKept DEF IInv
  <1>4. BoosterOK'
    BY DEF IInv, BoosterOK
  <1>5. InvokerOK'
    BY Outcomes DEF IInv, InvokerOK, InvokerEnds
  <1>6. StreamOK'
    BY DEF StreamOK, InvokerEnds
  <1> QED
    BY <1>2, <1>3, <1>4, <1>5, <1>6 DEF IInv

-----------------------------------------------------------------------------
(* The replies                                                             *)

\* What a read of the invoker finds: the refusal, the next reply, or the end
\* of the stream, which only a dead booster leaves behind.
LEMMA Received ==
    ASSUME IInv, NEW pc \in {"ack", "pid", "pidval", "exit", "status"}, NEW w, Recv(pc, w)
    PROVE  /\ toInvoker' \in Seq(ReplyWords)
           /\ \/ Refused /\ pc = "ack" /\ w = "BAD_CREDS"
              \/ /\ InScript /\ toInvoker # <<>> /\ toInvoker' = Tail(toInvoker)
                 /\ w = Script(Read(pc) + 1)
              \/ toInvoker = <<>> /\ toInvoker' = <<>> /\ bpc = "dead" /\ w = "junk"
  <1>1. ipc = pc /\ toInvoker \in Seq(ReplyWords)
    BY DEF IInv, TypeOK, Recv
  <1>2. InScript \/ Refused
    BY <1>1 DEF IInv, StreamOK
  <1>3. CASE toInvoker # <<>> /\ w = Head(toInvoker) /\ toInvoker' = Tail(toInvoker)
    <2>1. toInvoker' \in Seq(ReplyWords) /\ Len(toInvoker) \in Nat /\ Len(toInvoker) >= 1
          /\ w = toInvoker[1]
      BY <1>1, <1>3
    <2>2. CASE InScript
      BY <1>1, <1>3, <2>1, <2>2 DEF InScript
    <2>3. CASE Refused
      <3>1. w = "BAD_CREDS"
        BY <1>3, <2>3 DEF Refused
      <3>2. pc = "ack"
        BY <1>1, <2>3 DEF Refused
      <3> QED
        BY <2>1, <2>3, <3>1, <3>2
    <2> QED
      BY <1>2, <2>2, <2>3
  <1>4. CASE toInvoker = <<>> /\ ~bOpen /\ w = "junk" /\ UNCHANGED toInvoker
    <2>1. CASE bpc # "dead"
      <3>1. ~req.wait /\ bpc \in {"single", "load", "app"}
        BY <1>4, <2>1 DEF IInv, BoosterOK
      <3>2. pc = "ack"
        BY <1>1, <3>1 DEF IInv, InvokerOK
      <3>3. InScript
        BY <1>2, <2>1 DEF Refused
      <3>4. Total = 0
        BY <1>1, <1>4, <3>2 DEF Total, Read
      <3>5. Written(bpc) = 1
        BY <3>1 DEF Written
      <3> QED
        BY <2>1, <3>3, <3>4, <3>5 DEF InScript
    <2> QED
      BY <1>1, <1>4, <2>1
  <1> QED
    BY <1>3, <1>4 DEF Recv

\* The invoker reads the next reply.
LEMMA Shifted ==
    ASSUME IInv, InScript, toInvoker # <<>>, toInvoker' = Tail(toInvoker),
           UNCHANGED <<req, boosterVars>>, Read(ipc') = Read(ipc) + 1
    PROVE  InScript'
  <1>1. /\ toInvoker \in Seq(ReplyWords) /\ Len(toInvoker) \in Nat /\ Read(ipc) \in Nat
        /\ Len(toInvoker') = Len(toInvoker) - 1
        /\ \A j \in 1..Len(toInvoker') : toInvoker'[j] = toInvoker[j + 1]
    BY DEF IInv, TypeOK, Read
  <1>2. Total' = Total
    BY <1>1 DEF Total
  <1>3. \A j \in 1..Len(toInvoker') : toInvoker'[j] = Script(Read(ipc) + j)'
    <2> TAKE j \in 1..Len(toInvoker')
    <2>1. j + 1 \in 1..Len(toInvoker) /\ Read(ipc') + j = Read(ipc) + (j + 1)
      BY <1>1
    <2>2. toInvoker'[j] = Script(Read(ipc) + (j + 1))
      BY <1>1, <2>1 DEF InScript
    <2> QED
      BY <2>1, <2>2 DEF Script, boosterVars
  <1> QED
    BY <1>2, <1>3 DEF InScript, Written, boosterVars


-----------------------------------------------------------------------------
(* The steps of the invoker                                                *)

\* A step of the invoker that is not its end leaves the booster as it is.
LEMMA InvokerMoves ==
    ASSUME IInv, UNCHANGED <<req, told, boosterVars, signals>>,
           ipc' \in {"send", "ack", "pid", "pidval", "sigs_init", "exit", "status", "sleep"},
           sent' \in sent..Len(Words), g_invoked_pid' \in {"-1"} \cup ReplyWords,
           handlers' \in {"default", "forward"}, toInvoker' \in Seq(ReplyWords),
           StreamOK', InvokerOK'
    PROVE  IInv'
  <1>1. Words' = Words
    BY SameWords
  <1>2. /\ sent \in Nat /\ Len(Words) \in Nat /\ taken \in Nat /\ taken <= sent
        /\ sent' \in Nat /\ sent <= sent' /\ sent' <= Len(Words)
    BY WordTable DEF IInv, TypeOK
  <1>3. sent' \in 0..Len(Words)' /\ taken' \in 0..sent'
    BY <1>1, <1>2 DEF boosterVars
  <1>4. TypeOK'
    BY <1>3 DEF IInv, TypeOK, boosterVars
  <1>5. ReadOK'
    BY ReadKept DEF IInv, boosterVars
  <1>6. BoosterOK'
    BY DEF IInv, BoosterOK, boosterVars
  <1> QED
    BY <1>4, <1>5, <1>6 DEF IInv

\* The invoker writes a word, or meets a closed connection.
LEMMA SendWordStep == IInv /\ SendWord => IInv'
  <1> SUFFICES ASSUME IInv, SendWord PROVE IInv'
    OBVIOUS
  <1>1. CASE bOpen
    <2>1. /\ ipc = "send" /\ ipc' \in {"send", "ack"} /\ sent' = sent + 1
          /\ UNCHANGED <<req, told, boosterVars, signals>>
          /\ UNCHANGED <<g_invoked_pid, handlers, toInvoker>>
      <3>1. /\ ipc = "send"
            /\ UNCHANGED <<req, g_invoked_pid, handlers, boosterVars, toInvoker, signals>>
        BY DEF SendWord
      <3>2. sent' = sent + 1 /\ ipc' \in {"send", "ack"} /\ UNCHANGED told
        BY <1>1 DEF SendWord
      <3> QED
        BY <3>1, <3>2
    <2>2. sent' \in sent..Len(Words)
      <3>1. sent < Len(Words)
        BY DEF SendWord
      <3>2. sent \in Nat /\ Len(Words) \in Nat
        BY WordTable DEF IInv, TypeOK
      <3> QED
        BY <2>1, <3>1, <3>2
    <2>3. StreamOK'
      <3>1. Read(ipc) = 0 /\ Read(ipc') = 0
        BY <2>1 DEF Read
      <3>2. InScript \/ Refused
        BY <2>1 DEF IInv, StreamOK
      <3>3. CASE InScript
        BY <2>1, <3>1, <3>3 DEF StreamOK, InScript, Total, Script, Written, boosterVars
      <3>4. CASE Refused
        BY <2>1, <3>4 DEF StreamOK, Refused, boosterVars
      <3> QED
        BY <3>2, <3>3, <3>4
    <2>4. InvokerOK'
      BY <2>1 DEF IInv, InvokerOK, boosterVars
    <2> QED
      BY <2>1, <2>2, <2>3, <2>4, InvokerMoves DEF IInv, TypeOK
  <1>2. CASE ~bOpen
    <2>1. <<"sig", "PIPE">> \in Ends
      BY Outcomes
    <2>2. InvokerEnds(<<"sig", "PIPE">>)
      BY <1>2 DEF SendWord
    <2>3. <<"sig", "PIPE">> \notin {<<"exit", "1">>, <<"exit", "250">>, <<"exit", "junk">>}
      OBVIOUS
    <2> QED
      BY <1>2, <2>1, <2>2, <2>3, InvokerDone DEF IInv, TypeOK, SendWord, boosterVars
  <1> QED
    BY <1>1, <1>2

\* The invoker reads the acknowledgement, or what stands for it.
LEMMA RecvAckStep == IInv /\ RecvAck => IInv'
  <1> SUFFICES ASSUME IInv, RecvAck PROVE IInv'
    OBVIOUS
  <1>1. PICK w \in ReplyWords :
          /\ Recv("ack", w)
          /\ IF w # "ACK" THEN InvokerEnds(<<"exit", "1">>)
             ELSE IF req.wait THEN ipc' = "pid" /\ UNCHANGED told
             ELSE InvokerEnds(<<"exit", "0">>)
    BY DEF RecvAck
  <1>2. /\ ipc = "ack" /\ toInvoker' \in Seq(ReplyWords)
        /\ UNCHANGED <<req, sent, g_invoked_pid, handlers, boosterVars, signals>>
    BY <1>1, Received DEF RecvAck, Recv
  <1>3. CASE w # "ACK"
    <2>1. bpc = "dead"
      BY <1>1, <1>3, Received DEF Refused, Script, Read
    <2> QED
      BY <1>1, <1>2, <1>3, <2>1, Outcomes, InvokerDone DEF IInv, TypeOK, boosterVars
  <1>4. CASE w = "ACK" /\ req.wait
    <2>1. InScript /\ toInvoker # <<>> /\ toInvoker' = Tail(toInvoker)
      BY <1>1, <1>4, Received
    <2>2. Read(ipc') = Read(ipc) + 1
      BY <1>1, <1>2, <1>4 DEF Read
    <2>3. StreamOK'
      BY <1>2, <2>1, <2>2, Shifted DEF StreamOK
    <2>4. InvokerOK'
      BY <1>1, <1>2, <1>4 DEF IInv, InvokerOK, boosterVars
    <2>5. sent' \in sent..Len(Words)
      BY <1>2, WordTable DEF IInv, TypeOK
    <2> QED
      BY <1>1, <1>2, <1>4, <2>3, <2>4, <2>5, InvokerMoves DEF IInv, TypeOK
  <1>5. CASE w = "ACK" /\ ~req.wait
    <2>1. <<"exit", "0">> \notin {<<"exit", "1">>, <<"exit", "250">>, <<"exit", "junk">>}
      OBVIOUS
    <2> QED
      BY <1>1, <1>2, <1>5, <2>1, Outcomes, InvokerDone DEF IInv, TypeOK, boosterVars
  <1> QED
    BY <1>3, <1>4, <1>5


\* The invoker reads the pid of the application.
LEMMA RecvPidStep == IInv /\ RecvPid => IInv'
  <1> SUFFICES ASSUME IInv, RecvPid PROVE IInv'
    OBVIOUS
  <1>1. UNCHANGED <<req, sent, handlers, boosterVars, signals>>
    BY DEF RecvPid
  <1>2. sent' \in sent..Len(Words)
    BY <1>1, WordTable DEF IInv, TypeOK
  <1>3. ASSUME NEW w \in ReplyWords, Recv("pid", w), UNCHANGED g_invoked_pid,
               IF w = "PID" THEN ipc' = "pidval" /\ UNCHANGED told
               ELSE InvokerEnds(<<"exit", "1">>)
        PROVE  IInv'
    <2>1. ipc = "pid" /\ toInvoker' \in Seq(ReplyWords)
      BY <1>3, Received DEF Recv
    <2>2. CASE w = "PID"
      <3>1. InScript /\ toInvoker # <<>> /\ toInvoker' = Tail(toInvoker)
        BY <1>3, <2>2, Received
      <3>2. Read(ipc') = Read(ipc) + 1
        BY <1>3, <2>1, <2>2 DEF Read
      <3>3. StreamOK'
        BY <1>1, <3>1, <3>2, Shifted DEF StreamOK
      <3>4. InvokerOK'
        BY <1>1, <1>3, <2>1, <2>2 DEF IInv, InvokerOK, boosterVars
      <3> QED
        BY <1>1, <1>2, <1>3, <2>1, <2>2, <3>3, <3>4, InvokerMoves DEF IInv, TypeOK
    <2>3. CASE w # "PID"
      <3>1. bpc = "dead"
        BY <1>3, <2>3, Received DEF Refused, Script, Read
      <3> QED
        BY <1>1, <1>3, <2>1, <2>3, <3>1, Outcomes, InvokerDone DEF IInv, TypeOK, boosterVars
    <2> QED
      BY <2>2, <2>3
  <1>4. ASSUME NEW w \in ReplyWords, Recv("pidval", w), g_invoked_pid' = w,
               ipc' = "sigs_init", UNCHANGED told
        PROVE  IInv'
    <2>1. ipc = "pidval" /\ toInvoker' \in Seq(ReplyWords)
      BY <1>4, Received DEF Recv
    <2>2. \/ /\ InScript /\ toInvoker # <<>> /\ toInvoker' = Tail(toInvoker)
             /\ w = "pid"
          \/ toInvoker = <<>> /\ toInvoker' = <<>> /\ bpc = "dead"
      BY <1>4, Received DEF Script, Read
    <2>3. InvokerOK'
      BY <1>1, <1>4, <2>1, <2>2 DEF IInv, InvokerOK, boosterVars
    <2>4. StreamOK'
      <3>1. Read(ipc) = 2 /\ Read(ipc') = 3
        BY <1>4, <2>1 DEF Read
      <3>2. CASE toInvoker # <<>>
        BY <1>1, <2>2, <3>1, <3>2, Shifted DEF StreamOK
      <3>3. CASE toInvoker = <<>>
        <4>1. InScript /\ req.wait
          BY <2>1 DEF IInv, StreamOK, Refused, InvokerOK
        <4>2. Len(toInvoker) = 0 /\ Len(toInvoker') = 0 /\ bpc = "dead"
          BY <2>2, <3>3
        <4>3. Total = 2 /\ Total' = 3
          BY <3>1, <4>2 DEF Total
        <4>4. app = None
          BY <4>1, <4>3 DEF InScript
        <4>5. InScript'
          BY <1>1, <4>2, <4>3, <4>4 DEF InScript, boosterVars
        <4> QED
          BY <4>5 DEF StreamOK
      <3> QED
        BY <3>2, <3>3
    <2> QED
      BY <1>1, <1>2, <1>4, <2>1, <2>3, <2>4, InvokerMoves DEF IInv, TypeOK
  <1> QED
    BY <1>3, <1>4 DEF RecvPid

\* The invoker sets its handlers.
LEMMA SigsInitStep == IInv /\ SigsInit => IInv'
  <1> SUFFICES ASSUME IInv, SigsInit PROVE IInv'
    OBVIOUS
  <1>1. /\ ipc = "sigs_init" /\ ipc' = "exit" /\ handlers' = "forward"
        /\ UNCHANGED <<req, sent, g_invoked_pid, told, boosterVars, toInvoker, signals>>
    BY DEF SigsInit
  <1>2. sent' \in sent..Len(Words)
    BY <1>1, WordTable DEF IInv, TypeOK
  <1>3. StreamOK'
    <2>1. Read(ipc) = 3 /\ Read(ipc') = 3
      BY <1>1 DEF Read
    <2>2. InScript
      BY <1>1 DEF IInv, StreamOK, Refused
    <2> QED
      BY <1>1, <2>1, <2>2 DEF StreamOK, InScript, Total, Script, Written, boosterVars
  <1>4. InvokerOK'
    BY <1>1 DEF IInv, InvokerOK, boosterVars
  <1> QED
    BY <1>1, <1>2, <1>3, <1>4, InvokerMoves DEF IInv, TypeOK

\* The invoker reads the exit status, or the end of the stream.
LEMMA RecvExitStep == IInv /\ RecvExit => IInv'
  <1> SUFFICES ASSUME IInv, RecvExit PROVE IInv'
    OBVIOUS
  <1>1. UNCHANGED <<req, sent, g_invoked_pid, handlers, boosterVars, signals>>
    BY DEF RecvExit
  <1>2. sent' \in sent..Len(Words)
    BY <1>1, WordTable DEF IInv, TypeOK
  <1>3. ASSUME NEW w \in ReplyWords, Recv("exit", w), UNCHANGED told,
               ipc' = IF w = "EXIT" THEN "status" ELSE "sleep"
        PROVE  IInv'
    <2>1. ipc = "exit" /\ toInvoker' \in Seq(ReplyWords)
      BY <1>3, Received DEF Recv
    <2>2. CASE w = "EXIT"
      <3>1. InScript /\ toInvoker # <<>> /\ toInvoker' = Tail(toInvoker)
        BY <1>3, <2>2, Received
      <3>2. Read(ipc') = Read(ipc) + 1
        BY <1>3, <2>1, <2>2 DEF Read
      <3>3. StreamOK'
        BY <1>1, <3>1, <3>2, Shifted DEF StreamOK
      <3>4. InvokerOK'
        BY <1>1, <1>3, <2>1, <2>2 DEF IInv, InvokerOK, boosterVars
      <3> QED
        BY <1>1, <1>2, <1>3, <2>1, <2>2, <3>3, <3>4, InvokerMoves DEF IInv, TypeOK
    <2>3. CASE w # "EXIT"
      <3>1. bpc = "dead" /\ ipc' = "sleep"
        BY <1>3, <2>3, Received DEF Refused, Script, Read
      <3>2. StreamOK'
        BY <3>1 DEF StreamOK
      <3>3. InvokerOK'
        BY <1>1, <1>3, <2>1, <3>1 DEF IInv, InvokerOK, boosterVars
      <3> QED
        BY <1>1, <1>2, <1>3, <2>1, <3>1, <3>2, <3>3, InvokerMoves DEF IInv, TypeOK
    <2> QED
      BY <2>2, <2>3
  <1>4. ASSUME NEW w \in ReplyWords, Recv("status", w), InvokerEnds(<<"exit", w>>)
        PROVE  IInv'
    <2>1. ipc = "status" /\ toInvoker' \in Seq(ReplyWords) /\ InScript
      BY <1>4, Received DEF Recv, IInv, StreamOK, Refused
    <2>2. app \in Returned
      <3>1. Len(toInvoker) \in Nat
        BY DEF IInv, TypeOK
      <3>2. Total >= 4
        BY <2>1, <3>1 DEF Total, Read
      <3> QED
        BY <2>1, <3>2 DEF InScript
    <2>3. w = "junk" \/ w = app[2]
      BY <1>4, <2>1, Received DEF Script, Read
    <2>4. <<"exit", w>> \in Ends
      BY <2>2, <2>3, Outcomes
    <2> QED
      BY <1>1, <1>4, <2>1, <2>2, <2>4, InvokerDone DEF IInv, TypeOK, boosterVars
  <1> QED
    BY <1>3, <1>4 DEF RecvExit

\* The invoker gives up on the daemon's signal.
LEMMA SleepOverStep == IInv /\ SleepOver => IInv'
  <1> SUFFICES ASSUME IInv, SleepOver PROVE IInv'
    OBVIOUS
  <1>1. bpc = "dead"
    BY DEF IInv, InvokerOK, SleepOver
  <1> QED
    BY <1>1, Outcomes, InvokerDone DEF IInv, TypeOK, SleepOver, boosterVars


-----------------------------------------------------------------------------
(* The steps of the booster                                                *)

\* A step of the booster that is not its end leaves the invoker as it is.
LEMMA BoosterMoves ==
    ASSUME IInv, bpc # "dead", UNCHANGED <<req, invokerVars, bend, signals>>,
           bpc' \in {"magic", "name", "actions", "ack", "pid", "pidval", "close",
                     "single", "load", "app", "exit", "status", "finish"},
           taken' \in 0..sent, m_sendPid' \in BOOLEAN, got' \subseteq Actions,
           bOpen' \in BOOLEAN, mapped' \in BOOLEAN, toInvoker' \in Seq(ReplyWords),
           app' \in {None, Running} \cup Returned, app \in Returned => app' = app,
           ReadOK', BoosterOK', StreamOK'
    PROVE  IInv'
  <1>1. Words' = Words
    BY SameWords
  <1>2. TypeOK'
    BY <1>1 DEF IInv, TypeOK, invokerVars, Returned
  <1>3. InvokerOK'
    BY DEF IInv, InvokerOK, invokerVars
  <1> QED
    BY <1>2, <1>3 DEF IInv

\* While the booster lives the words on their way are its replies.
LEMMA InScriptAlive ==
    ASSUME IInv, bpc # "dead", ipc # "done"
    PROVE  InScript /\ Total = Written(bpc)
  <1>1. ipc # "sleep"
    BY DEF IInv, InvokerOK
  <1> QED
    BY <1>1 DEF IInv, StreamOK, Refused, InScript

\* A step of the booster that sends nothing.
LEMMA Silent ==
    ASSUME IInv, bpc # "dead", UNCHANGED <<req, ipc, toInvoker>>, bpc' # "dead",
           Written(bpc') = Written(bpc),
           \/ app' = app
           \/ Written(bpc) = IF req.wait THEN 3 ELSE 1
    PROVE  StreamOK'
  <1> SUFFICES ASSUME ipc \notin {"sleep", "done"} PROVE InScript'
    BY DEF StreamOK
  <1>1. InScript /\ Total = Written(bpc) /\ Total' = Total /\ Read(ipc)' = Read(ipc)
    BY InScriptAlive DEF Total, Read
  <1>2. Written(bpc)' = Written(bpc)
    BY DEF Written
  <1>3. CASE app' = app
    BY <1>1, <1>2, <1>3 DEF InScript, Script, Read
  <1>4. CASE Written(bpc) = IF req.wait THEN 3 ELSE 1
    <2>1. Total <= 3 /\ Len(toInvoker) \in Nat /\ Read(ipc) \in Nat
      BY <1>1, <1>4 DEF IInv, TypeOK, Read
    <2>2. \A j \in 1..Len(toInvoker) : Script(Read(ipc) + j)' = Script(Read(ipc) + j)
      BY <2>1 DEF Total, Script, Read
    <2>3. Total' >= (IF req.wait THEN 3 ELSE 1)' /\ ~(Total' >= 4) /\ Total' <= 5
      BY <1>1, <1>4, <2>1
    <2> QED
      BY <1>1, <1>2, <2>2, <2>3 DEF InScript
  <1> QED
    BY <1>3, <1>4

\* A step of the booster that sends the next reply.
LEMMA Replied ==
    ASSUME IInv, bpc # "dead", ipc # "done", UNCHANGED <<req, ipc, app>>, bpc' # "dead",
           NEW w \in ReplyWords, toInvoker' = Append(toInvoker, w),
           Written(bpc') = Written(bpc) + 1, Written(bpc) <= 4,
           w = Script(Written(bpc) + 1), Written(bpc) >= 3 => app \in Returned
    PROVE  toInvoker' \in Seq(ReplyWords) /\ StreamOK'
  <1>1. InScript /\ Total = Written(bpc)
    BY InScriptAlive
  <1>2. toInvoker \in Seq(ReplyWords) /\ Len(toInvoker) \in Nat /\ Read(ipc) \in Nat
    BY DEF IInv, TypeOK, Read
  <1>3. /\ toInvoker' \in Seq(ReplyWords) /\ Len(toInvoker') = Len(toInvoker) + 1
        /\ \A j \in 1..Len(toInvoker) : toInvoker'[j] = toInvoker[j]
        /\ toInvoker'[Len(toInvoker) + 1] = w
    BY <1>2
  <1>4. Total' = Total + 1
    BY <1>2, <1>3 DEF Total, Read
  <1>5. Written(bpc)' = Total'
    BY <1>1, <1>4 DEF Written
  <1>6. ASSUME NEW j \in 1..Len(toInvoker')
        PROVE  toInvoker'[j] = Script(Read(ipc) + j)
    <2>1. CASE j \in 1..Len(toInvoker)
      BY <1>1, <1>3, <2>1 DEF InScript
    <2>2. CASE j = Len(toInvoker) + 1
      <3>1. Read(ipc) + j = Written(bpc) + 1
        BY <1>1, <1>2, <2>2 DEF Total
      <3> QED
        BY <1>3, <2>2, <3>1
    <2> QED
      BY <1>2, <1>3, <2>1, <2>2
  <1>7. InScript'
    <2>1. \A j \in 1..Len(toInvoker') : toInvoker'[j] = Script(Read(ipc) + j)'
      BY <1>6 DEF Script, Read
    <2>2. Total' <= 5 /\ (Total' >= 4 => app' \in Returned)
      BY <1>1, <1>2, <1>4 DEF Total
    <2>3. app' # None => Total' >= (IF req.wait THEN 3 ELSE 1)'
      BY <1>1, <1>2, <1>4 DEF InScript, Total
    <2> QED
      BY <1>5, <2>1, <2>2, <2>3 DEF InScript
  <1> QED
    BY <1>3, <1>7 DEF StreamOK


\* The booster accepts.
LEMMA AcceptStep == IInv /\ Accept => IInv'
  <1> SUFFICES ASSUME IInv, Accept PROVE IInv'
    OBVIOUS
  <1>1. /\ bpc = "accept" /\ app = None
        /\ UNCHANGED <<req, invokerVars, taken, m_sendPid, got, mapped, signals>>
    BY DEF Accept, IInv, BoosterOK
  <1>2. CASE bpc' = "magic" /\ UNCHANGED <<bend, bOpen, app, toInvoker>>
    <2>1. ReadOK'
      BY <1>1, <1>2, ReadKept DEF IInv
    <2>2. BoosterOK'
      BY <1>1, <1>2, Outcomes DEF IInv, BoosterOK
    <2>3. StreamOK'
      BY <1>1, <1>2, Silent DEF Written, invokerVars
    <2> QED
      BY <1>1, <1>2, <2>1, <2>2, <2>3, BoosterMoves, Outcomes DEF IInv, TypeOK
  <1>3. CASE ipc # "done" /\ BoosterEnds(<<"exit", "1">>) /\ toInvoker' = <<"BAD_CREDS">>
    <2>1. Words' = Words
      BY <1>1, SameWords
    <2>2. toInvoker' \in Seq(ReplyWords)
      BY <1>3 DEF ReplyWords
    <2>3. TypeOK'
      BY <1>1, <1>3, <2>1, <2>2, Outcomes DEF IInv, TypeOK, BoosterEnds, invokerVars
    <2>4. ReadOK'
      BY <1>1, <1>3, ReadKept DEF IInv, BoosterEnds
    <2>5. BoosterOK'
      BY <1>1, <1>3, Outcomes DEF IInv, BoosterOK, BoosterEnds
    <2>6. InvokerOK'
      BY <1>1, <1>3, Outcomes DEF IInv, InvokerOK, BoosterEnds, invokerVars
    <2>7. ipc \in {"send", "ack"}
      <3>1. Len(toInvoker) \in Nat
        BY DEF IInv, TypeOK
      <3>2. Total = 0
        BY <1>1, <1>3, InScriptAlive DEF Written
      <3>3. Read(ipc) = 0
        BY <3>1, <3>2 DEF Total, Read
      <3> QED
        BY <3>3 DEF Read
    <2>8. StreamOK'
      BY <1>1, <1>3, <2>7, Outcomes DEF StreamOK, Refused, BoosterEnds, invokerVars
    <2> QED
      BY <2>3, <2>4, <2>5, <2>6, <2>8 DEF IInv
  <1>4. CASE ipc = "done" /\ BoosterEnds(<<"sig", "PIPE">>) /\ UNCHANGED toInvoker
    BY <1>1, <1>4, Outcomes, BoosterDies DEF IInv, TypeOK
  <1> QED
    BY <1>2, <1>3, <1>4 DEF Accept

\* The booster reads the first word.
LEMMA ReceiveHeadStep == IInv /\ ReceiveHead => IInv'
  <1> SUFFICES ASSUME IInv, ReceiveHead PROVE IInv'
    OBVIOUS
  <1>1. /\ bpc \in {"magic", "name"} /\ app = None
        /\ UNCHANGED <<req, invokerVars, got, mapped, toInvoker, signals>>
    BY DEF ReceiveHead, IInv, BoosterOK
  <1>2. ReadOK'
    BY ReadHead DEF IInv
  <1>3. CASE BoosterEnds(<<"exit", "1">>) /\ UNCHANGED <<taken, m_sendPid>>
    BY <1>1, <1>3, Outcomes, BoosterDies DEF IInv, TypeOK
  <1>4. CASE /\ bpc = "magic" /\ Here(1) /\ m_sendPid' = (Words[1] = "MAGIC|WAIT")
             /\ taken' = taken + 1 /\ bpc' = "name" /\ UNCHANGED <<bend, bOpen, app>>
    <2>1. m_sendPid' = req.wait
      BY <1>4, WordTable DEF IInv, TypeOK, Requests
    <2>2. BoosterOK'
      BY <1>1, <1>4, <2>1, Outcomes DEF IInv, BoosterOK
    <2>3. StreamOK'
      BY <1>1, <1>4, Silent DEF Written, invokerVars
    <2>4. taken' \in 0..sent
      BY <1>4 DEF IInv, TypeOK, Here
    <2>5. m_sendPid' \in BOOLEAN
      BY <2>1 DEF IInv, TypeOK, Requests
    <2> QED
      BY <1>1, <1>2, <1>4, <2>2, <2>3, <2>4, <2>5, BoosterMoves, Outcomes DEF IInv, TypeOK
  <1>5. CASE /\ bpc = "name" /\ Here(3) /\ taken' = taken + 3
             /\ bpc' = "actions" /\ UNCHANGED <<m_sendPid, bend, bOpen, app>>
    <2>1. BoosterOK'
      BY <1>1, <1>5, Outcomes DEF IInv, BoosterOK
    <2>2. StreamOK'
      BY <1>1, <1>5, Silent DEF Written, invokerVars
    <2>3. taken' \in 0..sent
      BY <1>5 DEF IInv, TypeOK, Here
    <2> QED
      BY <1>1, <1>2, <1>5, <2>1, <2>2, <2>3, BoosterMoves, Outcomes DEF IInv, TypeOK
  <1> QED
    BY <1>3, <1>4, <1>5 DEF ReceiveHead

\* The booster reads one action with its words.
LEMMA ReceiveActionStep == IInv /\ ReceiveAction => IInv'
  <1> SUFFICES ASSUME IInv, ReceiveAction PROVE IInv'
    OBVIOUS
  <1>1. /\ bpc = "actions" /\ app = None
        /\ UNCHANGED <<req, invokerVars, m_sendPid, mapped, toInvoker, signals>>
    BY DEF ReceiveAction, IInv, BoosterOK
  <1>2. ReadOK'
    BY ReadRound DEF IInv
  <1>3. CASE BoosterEnds(<<"exit", "1">>) /\ UNCHANGED <<taken, got>>
    BY <1>1, <1>3, Outcomes, BoosterDies DEF IInv, TypeOK
  <1>4. CASE ~(BoosterEnds(<<"exit", "1">>) /\ UNCHANGED <<taken, got>>)
    <2>1. /\ bpc' \in {"actions", "ack"} /\ UNCHANGED <<bend, bOpen, app>>
          /\ \E n \in {1, Extent(taken + 1)} : Here(n) /\ taken' = taken + n
          /\ got' \subseteq Actions
      BY <1>1, <1>4 DEF ReceiveAction, IInv, TypeOK
    <2>2. BoosterOK'
      BY <1>1, <2>1, Outcomes DEF IInv, BoosterOK
    <2>3. StreamOK'
      BY <1>1, <2>1, Silent DEF Written, invokerVars
    <2>4. taken' \in 0..sent
      <3>1. Extent(taken + 1) \in Nat
        BY DEF Extent
      <3> QED
        BY <2>1, <3>1 DEF IInv, TypeOK, Here
    <2> QED
      BY <1>1, <1>2, <2>1, <2>2, <2>3, <2>4, BoosterMoves, Outcomes DEF IInv, TypeOK
  <1> QED
    BY <1>3, <1>4

\* The booster acknowledges a request.
LEMMA SendAckStep == IInv /\ SendAck => IInv'
  <1> SUFFICES ASSUME IInv, SendAck PROVE IInv'
    OBVIOUS
  <1>1. /\ bpc = "ack"
        /\ UNCHANGED <<req, invokerVars, taken, m_sendPid, got, mapped, signals>>
    BY DEF SendAck, Reply
  <1>2. CASE ipc = "done"
    <2>1. BoosterEnds(<<"sig", "PIPE">>) /\ UNCHANGED toInvoker
      BY <1>2 DEF SendAck, Reply
    <2> QED
      BY <1>1, <2>1, Outcomes, BoosterDies DEF IInv, TypeOK
  <1>3. CASE ipc # "done"
    <2>1. /\ toInvoker' = Append(toInvoker, "ACK") /\ bpc' \in {"pid", "close"}
          /\ UNCHANGED <<bend, bOpen, app>>
      BY <1>3 DEF SendAck, Reply
    <2>2. ReadOK'
      BY <1>1, <2>1, ReadKept DEF IInv, Acknowledging
    <2>3. BoosterOK'
      <3>1. m_sendPid = req.wait /\ bpc' = IF m_sendPid THEN "pid" ELSE "close"
        BY <1>1, <1>3 DEF SendAck, Reply, IInv, BoosterOK
      <3> QED
        BY <1>1, <2>1, <3>1, Outcomes DEF IInv, BoosterOK
    <2>4. toInvoker' \in Seq(ReplyWords) /\ StreamOK'
      BY <1>1, <1>3, <2>1, Replied DEF Written, Script, ReplyWords, invokerVars
    <2>5. app' \in {None, Running} \cup Returned
      BY <1>1, <2>1 DEF IInv, BoosterOK
    <2> QED
      BY <1>1, <2>1, <2>2, <2>3, <2>4, <2>5, BoosterMoves DEF IInv, TypeOK
  <1> QED
    BY <1>2, <1>3

\* The booster announces its pid.
LEMMA SendPidMsgStep == IInv /\ SendPidMsg => IInv'
  <1> SUFFICES ASSUME IInv, SendPidMsg PROVE IInv'
    OBVIOUS
  <1>1. /\ bpc = "pid"
        /\ UNCHANGED <<req, invokerVars, taken, m_sendPid, got, mapped, signals>>
    BY DEF SendPidMsg, Reply
  <1>2. CASE ipc = "done"
    <2>1. BoosterEnds(<<"sig", "PIPE">>) /\ UNCHANGED toInvoker
      BY <1>2 DEF SendPidMsg, Reply
    <2> QED
      BY <1>1, <2>1, Outcomes, BoosterDies DEF IInv, TypeOK
  <1>3. CASE ipc # "done"
    <2>1. /\ toInvoker' = Append(toInvoker, "PID") /\ bpc' \in {"pidval"}
          /\ UNCHANGED <<bend, bOpen, app>>
      BY <1>3 DEF SendPidMsg, Reply
    <2>2. ReadOK'
      BY <1>1, <2>1, ReadKept DEF IInv, Acknowledging
    <2>3. BoosterOK'
      BY <1>1, <2>1, Outcomes DEF IInv, BoosterOK
    <2>4. toInvoker' \in Seq(ReplyWords) /\ StreamOK'
      BY <1>1, <1>3, <2>1, Replied DEF Written, Script, ReplyWords, invokerVars, IInv, BoosterOK
    <2>5. app' \in {None, Running} \cup Returned
      BY <1>1, <2>1 DEF IInv, BoosterOK
    <2> QED
      BY <1>1, <2>1, <2>2, <2>3, <2>4, <2>5, BoosterMoves DEF IInv, TypeOK
  <1> QED
    BY <1>2, <1>3

\* The booster sends its pid.
LEMMA SendPidValStep == IInv /\ SendPidVal => IInv'
  <1> SUFFICES ASSUME IInv, SendPidVal PROVE IInv'
    OBVIOUS
  <1>1. /\ bpc = "pidval"
        /\ UNCHANGED <<req, invokerVars, taken, m_sendPid, got, mapped, signals>>
    BY DEF SendPidVal, Reply
  <1>2. CASE ipc = "done"
    <2>1. BoosterEnds(<<"sig", "PIPE">>) /\ UNCHANGED toInvoker
      BY <1>2 DEF SendPidVal, Reply
    <2> QED
      BY <1>1, <2>1, Outcomes, BoosterDies DEF IInv, TypeOK
  <1>3. CASE ipc # "done"
    <2>1. /\ toInvoker' = Append(toInvoker, "pid") /\ bpc' \in {"single"}
          /\ UNCHANGED <<bend, bOpen, app>>
      BY <1>3 DEF SendPidVal, Reply
    <2>2. ReadOK'
      BY <1>1, <2>1, ReadKept DEF IInv, Acknowledging
    <2>3. BoosterOK'
      BY <1>1, <2>1, Outcomes DEF IInv, BoosterOK
    <2>4. toInvoker' \in Seq(ReplyWords) /\ StreamOK'
      BY <1>1, <1>3, <2>1, Replied DEF Written, Script, ReplyWords, invokerVars, IInv, BoosterOK
    <2>5. app' \in {None, Running} \cup Returned
      BY <1>1, <2>1 DEF IInv, BoosterOK
    <2> QED
      BY <1>1, <2>1, <2>2, <2>3, <2>4, <2>5, BoosterMoves DEF IInv, TypeOK
  <1> QED
    BY <1>2, <1>3

\* The booster announces the exit status.
LEMMA SendExitMsgStep == IInv /\ SendExitMsg => IInv'
  <1> SUFFICES ASSUME IInv, SendExitMsg PROVE IInv'
    OBVIOUS
  <1>1. /\ bpc = "exit"
        /\ UNCHANGED <<req, invokerVars, taken, m_sendPid, got, mapped, signals>>
    BY DEF SendExitMsg, Reply
  <1>2. CASE ipc = "done"
    <2>1. BoosterEnds(<<"sig", "PIPE">>) /\ UNCHANGED toInvoker
      BY <1>2 DEF SendExitMsg, Reply
    <2> QED
      BY <1>1, <2>1, Outcomes, BoosterDies DEF IInv, TypeOK
  <1>3. CASE ipc # "done"
    <2>1. /\ toInvoker' = Append(toInvoker, "EXIT") /\ bpc' \in {"status"}
          /\ UNCHANGED <<bend, bOpen, app>>
      BY <1>3 DEF SendExitMsg, Reply
    <2>2. ReadOK'
      BY <1>1, <2>1, ReadKept DEF IInv, Acknowledging
    <2>3. BoosterOK'
      BY <1>1, <2>1, Outcomes DEF IInv, BoosterOK
    <2>4. toInvoker' \in Seq(ReplyWords) /\ StreamOK'
      BY <1>1, <1>3, <2>1, Replied DEF Written, Script, ReplyWords, invokerVars, IInv, BoosterOK
    <2>5. app' \in {None, Running} \cup Returned
      BY <1>1, <2>1 DEF IInv, BoosterOK
    <2> QED
      BY <1>1, <2>1, <2>2, <2>3, <2>4, <2>5, BoosterMoves DEF IInv, TypeOK
  <1> QED
    BY <1>2, <1>3

\* The booster sends the exit status.
LEMMA SendStatusStep == IInv /\ SendStatus => IInv'
  <1> SUFFICES ASSUME IInv, SendStatus PROVE IInv'
    OBVIOUS
  <1>1. /\ bpc = "status"
        /\ UNCHANGED <<req, invokerVars, taken, m_sendPid, got, mapped, signals>>
    BY DEF SendStatus, Reply
  <1>2. CASE ipc = "done"
    <2>1. BoosterEnds(<<"sig", "PIPE">>) /\ UNCHANGED toInvoker
      BY <1>2 DEF SendStatus, Reply
    <2> QED
      BY <1>1, <2>1, Outcomes, BoosterDies DEF IInv, TypeOK
  <1>3. CASE ipc # "done"
    <2>1. /\ toInvoker' = Append(toInvoker, app[2]) /\ bpc' \in {"finish"}
          /\ UNCHANGED <<bend, bOpen, app>>
      BY <1>3 DEF SendStatus, Reply
    <2>2. ReadOK'
      BY <1>1, <2>1, ReadKept DEF IInv, Acknowledging
    <2>3. BoosterOK'
      BY <1>1, <2>1, Outcomes DEF IInv, BoosterOK
    <2>4. toInvoker' \in Seq(ReplyWords) /\ StreamOK'
      <3>1. app \in Returned /\ app[2] \in ReplyWords
        BY <1>1, Outcomes DEF IInv, BoosterOK, ReplyWords
      <3> QED
        BY <1>1, <1>3, <2>1, <3>1, Replied DEF Written, Script, invokerVars
    <2>5. app' \in {None, Running} \cup Returned
      BY <1>1, <2>1 DEF IInv, BoosterOK
    <2> QED
      BY <1>1, <2>1, <2>2, <2>3, <2>4, <2>5, BoosterMoves DEF IInv, TypeOK
  <1> QED
    BY <1>2, <1>3


\* The booster closes the connection of an invoker that does not wait.
LEMMA CloseEarlyStep == IInv /\ CloseEarly => IInv'
  <1> SUFFICES ASSUME IInv, CloseEarly PROVE IInv'
    OBVIOUS
  <1>1. /\ bpc = "close" /\ bpc' = "single" /\ bOpen' = FALSE
        /\ UNCHANGED <<req, invokerVars, taken, m_sendPid, got, bend, app, mapped,
                       toInvoker, signals>>
    BY DEF CloseEarly
  <1>2. ReadOK'
    BY <1>1, ReadKept DEF IInv, Acknowledging
  <1>3. BoosterOK'
    BY <1>1, Outcomes DEF IInv, BoosterOK
  <1>4. StreamOK'
    <2>1. ~req.wait
      BY <1>1 DEF IInv, BoosterOK
    <2> QED
      BY <1>1, <2>1, Silent DEF Written, invokerVars
  <1>5. app' \in {None, Running} \cup Returned
    BY <1>1 DEF IInv, BoosterOK
  <1> QED
    BY <1>1, <1>2, <1>3, <1>4, <1>5, BoosterMoves DEF IInv, TypeOK

\* A second launch of a single-instance application raises the first.
LEMMA ActivateStep == IInv /\ Activate => IInv'
  <1> SUFFICES ASSUME IInv, Activate PROVE IInv'
    OBVIOUS
  <1>1. PICK v \in {"0", "1"} : BoosterEnds(<<"exit", v>>)
    BY DEF Activate
  <1>2. <<"exit", v>> \in Ends
    BY Outcomes
  <1> QED
    BY <1>1, <1>2, BoosterDies DEF Activate, IInv, TypeOK

\* The booster reports to the daemon.
LEMMA ReportStep == IInv /\ Report => IInv'
  <1> SUFFICES ASSUME IInv, Report PROVE IInv'
    OBVIOUS
  <1>1. /\ bpc = "single" /\ bpc' = "load" /\ mapped' = m_sendPid
        /\ UNCHANGED <<req, invokerVars, taken, m_sendPid, got, bOpen, bend, app,
                       toInvoker, signals>>
    BY DEF Report
  <1>2. ReadOK'
    BY <1>1, ReadKept DEF IInv, Acknowledging
  <1>3. BoosterOK'
    BY <1>1, Outcomes DEF IInv, BoosterOK
  <1>4. StreamOK'
    BY <1>1, Silent DEF Written, invokerVars
  <1>5. app' \in {None, Running} \cup Returned
    BY <1>1 DEF IInv, BoosterOK
  <1> QED
    BY <1>1, <1>2, <1>3, <1>4, <1>5, BoosterMoves DEF IInv, TypeOK

\* The booster loads the program, or fails to.
LEMMA LoadStep == IInv /\ Load => IInv'
  <1> SUFFICES ASSUME IInv, Load PROVE IInv'
    OBVIOUS
  <1>1. /\ bpc = "load" /\ app = None
        /\ UNCHANGED <<req, invokerVars, taken, m_sendPid, got, mapped, toInvoker, signals>>
    BY DEF Load, IInv, BoosterOK
  <1>2. CASE bpc' = "app" /\ app' = Running /\ UNCHANGED <<bend, bOpen>>
    <2>1. ReadOK'
      BY <1>1, <1>2, ReadKept DEF IInv, Acknowledging
    <2>2. BoosterOK'
      BY <1>1, <1>2, Outcomes DEF IInv, BoosterOK
    <2>3. StreamOK'
      BY <1>1, <1>2, Silent DEF Written, invokerVars
    <2> QED
      BY <1>1, <1>2, <2>1, <2>2, <2>3, BoosterMoves, Outcomes DEF IInv, TypeOK
  <1>3. CASE BoosterEnds(<<"exit", "1">>)
    BY <1>1, <1>3, Outcomes, BoosterDies DEF IInv, TypeOK
  <1> QED
    BY <1>2, <1>3 DEF Load

\* main() returns.
LEMMA AppReturnsStep == IInv /\ AppReturns => IInv'
  <1> SUFFICES ASSUME IInv, AppReturns PROVE IInv'
    OBVIOUS
  <1>1. /\ bpc = "app" /\ app = Running /\ app' \in Returned /\ m_sendPid = req.wait
        /\ UNCHANGED <<req, invokerVars, taken, m_sendPid, got, mapped, toInvoker, signals>>
    BY DEF AppReturns, IInv, BoosterOK, Returned
  <1>2. CASE m_sendPid
    <2>1. bpc' = "exit" /\ UNCHANGED <<bend, bOpen>>
      BY <1>2 DEF AppReturns
    <2>2. ReadOK'
      BY <1>1, <2>1, ReadKept DEF IInv, Acknowledging
    <2>3. BoosterOK'
      BY <1>1, <1>2, <2>1, Outcomes DEF IInv, BoosterOK
    <2>4. StreamOK'
      BY <1>1, <1>2, <2>1, Silent DEF Written, invokerVars
    <2> QED
      BY <1>1, <2>1, <2>2, <2>3, <2>4, BoosterMoves, Outcomes DEF IInv, TypeOK
  <1>3. CASE ~m_sendPid
    <2>1. bpc' = "dead" /\ bend' = <<"exit", "0">> /\ bOpen' = FALSE
      BY <1>3 DEF AppReturns
    <2>2. Words' = Words
      BY <1>1, SameWords
    <2>3. TypeOK'
      BY <1>1, <2>1, <2>2, Outcomes DEF IInv, TypeOK, invokerVars, Returned
    <2>4. ReadOK'
      BY <1>1, <2>1, ReadKept DEF IInv
    <2>5. BoosterOK'
      BY <1>1, <2>1, Outcomes DEF IInv, BoosterOK
    <2>6. InvokerOK'
      BY <1>1, <2>1 DEF IInv, InvokerOK, invokerVars
    <2>7. StreamOK'
      <3> SUFFICES ASSUME ipc \notin {"sleep", "done"} PROVE InScript'
        BY <1>1 DEF StreamOK, invokerVars
      <3>1. ipc # "done" /\ bpc # "dead" /\ ~req.wait /\ ~req.wait'
        BY <1>1, <1>3
      <3>2. Written(bpc) = 1
        BY <1>1, <3>1 DEF Written
      <3>3. InScript /\ Total = 1
        BY <3>1, <3>2, InScriptAlive
      <3>4. Total' = 1 /\ Len(toInvoker) \in Nat /\ Read(ipc) \in Nat
        BY <1>1, <3>3 DEF Total, Read, invokerVars, IInv, TypeOK
      <3>5. \A j \in 1..Len(toInvoker) : Script(Read(ipc) + j)' = Script(Read(ipc) + j)
        <4>1. \A j \in 1..Len(toInvoker) : Read(ipc) + j = 1
          BY <3>3, <3>4 DEF Total
        <4>2. Read(ipc)' = Read(ipc)
          BY <1>1 DEF Read, invokerVars
        <4> QED
          BY <4>1, <4>2 DEF Script
      <3> QED
        BY <1>1, <2>1, <3>1, <3>3, <3>4, <3>5 DEF InScript, Read, invokerVars
    <2> QED
      BY <2>3, <2>4, <2>5, <2>6, <2>7 DEF IInv
  <1> QED
    BY <1>2, <1>3

\* The application ends by exit().
LEMMA AppExitsStep == IInv /\ AppExits => IInv'
  <1> SUFFICES ASSUME IInv, AppExits PROVE IInv'
    OBVIOUS
  <1>1. PICK v \in Statuses : BoosterEnds(<<"exit", v>>)
    BY DEF AppExits
  <1>2. <<"exit", v>> \in Ends
    BY Outcomes
  <1> QED
    BY <1>1, <1>2, BoosterDies DEF AppExits, IInv, TypeOK

\* The booster ends, with the exit status sent.
LEMMA FinishStep == IInv /\ Finish => IInv'
  BY Outcomes, BoosterDies DEF Finish, IInv, TypeOK


-----------------------------------------------------------------------------
(* Signals                                                                 *)

\* The booster is killed at any point.
LEMMA KillBoosterStep == IInv /\ KillBooster => IInv'
  <1> SUFFICES ASSUME IInv, KillBooster PROVE IInv'
    OBVIOUS
  <1>1. PICK s \in Signals : BoosterEnds(<<"sig", s>>)
    BY DEF KillBooster
  <1>2. <<"sig", s>> \in Ends
    BY Outcomes
  <1>3. signals' \in 0..MaxSignals
    BY InvocationAssumption DEF KillBooster, IInv, TypeOK
  <1> QED
    BY <1>1, <1>2, <1>3, BoosterDies DEF KillBooster

\* A signal to the invoker: it ends, with or without the booster, or the
\* handler has no pid to send it to and nothing happens.
LEMMA KillInvokerStep == IInv /\ KillInvoker => IInv'
  <1> SUFFICES ASSUME IInv, KillInvoker PROVE IInv'
    OBVIOUS
  <1>1. PICK s \in Signals : SignalsInvoker(s)
    BY DEF KillInvoker
  <1> DEFINE h == <<"sig", s>>
  <1>2. h \in Ends /\ h \notin {<<"exit", "1">>, <<"exit", "250">>, <<"exit", "junk">>}
    BY Outcomes
  <1>3. /\ signals' \in 0..MaxSignals
        /\ UNCHANGED <<req, sent, g_invoked_pid, handlers, taken, m_sendPid, got,
                       mapped, toInvoker>>
    BY <1>1, InvocationAssumption DEF KillInvoker, SignalsInvoker, IInv, TypeOK
  <1> HIDE DEF h
  <1>4. CASE InvokerEnds(h) /\ UNCHANGED <<bpc, bend, bOpen, app>>
    BY <1>2, <1>3, <1>4, InvokerDone DEF IInv, TypeOK
  <1>5. CASE InvokerEnds(h) /\ BoosterEnds(h)
    <2>1. Words' = Words
      BY <1>3, SameWords
    <2>2. TypeOK'
      BY <1>2, <1>3, <1>5, <2>1 DEF IInv, TypeOK, InvokerEnds, BoosterEnds
    <2>3. ReadOK'
      BY <1>3, <1>5, ReadKept DEF IInv, BoosterEnds
    <2>4. BoosterOK'
      BY <1>2, <1>3, <1>5, Outcomes DEF IInv, BoosterOK, BoosterEnds
    <2>5. InvokerOK'
      BY <1>2, <1>3, <1>5, Outcomes DEF IInv, InvokerOK, InvokerEnds, BoosterEnds
    <2>6. StreamOK'
      BY <1>5 DEF StreamOK, InvokerEnds
    <2> QED
      BY <2>2, <2>3, <2>4, <2>5, <2>6 DEF IInv
  <1>6. CASE UNCHANGED <<ipc, told, bpc, bend, bOpen, app>>
    <2>1. Words' = Words
      BY <1>3, SameWords
    <2>2. TypeOK'
      BY <1>3, <1>6, <2>1 DEF IInv, TypeOK
    <2>3. ReadOK'
      BY <1>3, <1>6, ReadKept DEF IInv
    <2>4. BoosterOK' /\ InvokerOK'
      BY <1>3, <1>6 DEF IInv, BoosterOK, InvokerOK
    <2>5. StreamOK'
      BY <1>3, <1>6 DEF IInv, StreamOK, Refused, InScript, Total, Script, Read, Written
    <2> QED
      BY <2>2, <2>3, <2>4, <2>5 DEF IInv
  <1> QED
    BY <1>1, <1>4, <1>5, <1>6 DEF SignalsInvoker, h

\* The daemon passes the application's signal on.
LEMMA DaemonForwardsStep == IInv /\ DaemonForwards => IInv'
  <1> SUFFICES ASSUME IInv, DaemonForwards PROVE IInv'
    OBVIOUS
  <1>1. /\ bpc = "dead" /\ bend[1] = "sig" /\ mapped' = FALSE
        /\ UNCHANGED <<req, sent, g_invoked_pid, handlers, bpc, taken, m_sendPid,
                       got, bOpen, bend, app, toInvoker, signals>>
    BY DEF DaemonForwards
  <1>2. bend \in Ends
    <2>1. None[1] # "sig"
      BY DEF None
    <2> QED
      BY <1>1, <2>1 DEF IInv, TypeOK
  <1>3. CASE InvokerEnds(<<"sig", bend[2]>>)
    <2>1. <<"sig", bend[2]>> \in Ends
      BY <1>1, <1>2, Outcomes
    <2> QED
      BY <1>1, <1>3, <2>1, InvokerDone DEF IInv, TypeOK
  <1>4. CASE UNCHANGED <<ipc, told>>
    <2>1. Words' = Words
      BY <1>1, SameWords
    <2>2. TypeOK'
      BY <1>1, <1>4, <2>1 DEF IInv, TypeOK
    <2>3. ReadOK'
      BY <1>1, <1>4, ReadKept DEF IInv
    <2>4. BoosterOK' /\ InvokerOK'
      BY <1>1, <1>4 DEF IInv, BoosterOK, InvokerOK
    <2>5. StreamOK'
      BY <1>1, <1>4 DEF IInv, StreamOK, Refused, InScript, Total, Script, Read, Written
    <2> QED
      BY <2>2, <2>3, <2>4, <2>5 DEF IInv
  <1> QED
    BY <1>3, <1>4 DEF DaemonForwards


-----------------------------------------------------------------------------
(* The theorems                                                            *)

\* The invariant holds at first.
LEMMA InitInv == Init => IInv
  <1> SUFFICES ASSUME Init PROVE IInv
    OBVIOUS
  <1>1. req \in Requests /\ Len(Words) \in Nat
    BY WordTable DEF Init
  <1>2. TypeOK
    <2>1. sent \in 0..Len(Words) /\ taken \in 0..sent /\ signals \in 0..MaxSignals
      BY <1>1, InvocationAssumption DEF Init
    <2>2. toInvoker \in Seq(ReplyWords) /\ got \subseteq Actions
      BY DEF Init
    <2>3. m_sendPid \in BOOLEAN /\ bOpen \in BOOLEAN /\ mapped \in BOOLEAN
      BY DEF Init
    <2> QED
      BY <1>1, <2>1, <2>2, <2>3 DEF Init, TypeOK
  <1>3. ReadOK
    BY DEF Init, ReadOK, AckMeansComplete
  <1>4. BoosterOK
    BY Outcomes DEF Init, BoosterOK
  <1>5. StreamOK
    BY Outcomes DEF Init, StreamOK, InScript, Total, Read, Written
  <1>6. InvokerOK
    BY Outcomes DEF Init, InvokerOK
  <1> QED
    BY <1>2, <1>3, <1>4, <1>5, <1>6 DEF IInv

\* Every step keeps the invariant.
LEMMA StepInv == IInv /\ [Next]_vars => IInv'
  <1> SUFFICES ASSUME IInv, [Next]_vars PROVE IInv'
    OBVIOUS
  <1>1. CASE Invoker
    BY <1>1, SendWordStep, RecvAckStep, RecvPidStep, SigsInitStep, RecvExitStep,
       SleepOverStep DEF Invoker
  <1>2. CASE Booster
    BY <1>2, AcceptStep, ReceiveHeadStep, ReceiveActionStep, SendAckStep,
       SendPidMsgStep, SendPidValStep, CloseEarlyStep, ActivateStep, ReportStep,
       LoadStep, SendExitMsgStep, SendStatusStep, FinishStep DEF Booster
  <1>3. CASE Application
    BY <1>3, AppReturnsStep, AppExitsStep DEF Application
  <1>4. CASE DaemonForwards \/ KillInvoker \/ KillBooster
    BY <1>4, DaemonForwardsStep, KillInvokerStep, KillBoosterStep
  <1>5. CASE UNCHANGED vars
    <2>1. UNCHANGED <<req, ipc, sent, g_invoked_pid, handlers, told, bpc, taken, m_sendPid,
                      got, bOpen, bend, app, mapped, toInvoker, signals>>
      BY <1>5 DEF vars, invokerVars, boosterVars
    <2>2. Words' = Words
      BY <2>1, SameWords
    <2>3. TypeOK'
      BY <2>1, <2>2 DEF IInv, TypeOK
    <2>4. ReadOK'
      BY <2>1, ReadKept DEF IInv
    <2>5. BoosterOK' /\ InvokerOK'
      BY <2>1 DEF IInv, BoosterOK, InvokerOK
    <2>6. StreamOK'
      BY <2>1 DEF IInv, StreamOK, Refused, InScript, Total, Script, Read, Written
    <2> QED
      BY <2>3, <2>4, <2>5, <2>6 DEF IInv
  <1> QED
    BY <1>1, <1>2, <1>3, <1>4, <1>5 DEF Next

\* The inductive invariant holds in every state of every launch.
THEOREM Invariance == Spec => []IInv
  BY InitInv, StepInv, PTL DEF Spec

\* Every variable of a launch keeps its type; in particular an invoker ends
\* with a status only if the application returned it.
THEOREM Typing == Spec => []TypeOK
  <1>1. IInv => TypeOK
    BY DEF IInv
  <1> QED
    BY <1>1, Invariance, PTL

\* receiveActions never acknowledges a request that it did not read as it was
\* sent, although it ignores what its handlers return.
THEOREM CompleteBeforeAck == Spec => []AckMeansComplete
  <1>1. IInv => AckMeansComplete
    BY DEF IInv, ReadOK
  <1> QED
    BY <1>1, Invariance, PTL

\* sig_forwarder has the booster's pid, or there is no booster any more.
THEOREM ForwardsRight == Spec => []ForwardsToTheApp
  <1>1. IInv => ForwardsToTheApp
    BY DEF IInv, InvokerOK, ForwardsToTheApp
  <1> QED
    BY <1>1, Invariance, PTL


-----------------------------------------------------------------------------
(* How the process ends                                                    *)

Exited == {<<"exit", v>> : v \in Statuses}

\* main() returned and the process went on to its regular end.
Reported == req.wait /\ app \in Returned /\ bend[1] = "exit"

\* What the verdicts of the invoker rest on besides: a process that went to
\* its regular end has written the whole status, and nothing is launched
\* before the request is complete.  An application that did not return from
\* main() ended with its process.
EndOK ==
    /\ bend = None <=> bpc # "dead"
    /\ app \in {None, Running} \cup Returned \/ (bend = app /\ app \in Exited \cup Killed)
    /\ mapped => req.wait
    /\ ipc = "send" => sent < Len(Words) /\ app = None
    /\ Reported => ipc # "sleep" /\ (ipc # "done" => Total = 5)

\* The invoker does not meet the end of the stream before the status then.
LEMMA AllWritten ==
    ASSUME IInv, EndOK, Reported,
           NEW pc \in {"ack", "pid", "pidval", "exit", "status"}, NEW w, Recv(pc, w)
    PROVE  /\ w = Script(Read(pc) + 1)
           /\ toInvoker \in Seq(ReplyWords) /\ toInvoker # <<>>
           /\ toInvoker' = Tail(toInvoker)
  <1>1. ipc = pc /\ toInvoker \in Seq(ReplyWords)
    BY DEF IInv, TypeOK, Recv
  <1>2. app # None
    BY Outcomes DEF Reported
  <1>3. Len(toInvoker) + Read(pc) = 5 /\ Read(pc) <= 4 /\ Read(pc) \in Nat
    BY <1>1 DEF EndOK, Total, Read
  <1>4. toInvoker # <<>>
    BY <1>1, <1>3
  <1> QED
    BY <1>1, <1>2, <1>4, Received DEF Refused

\* A read that does not end the invoker leaves the total of words.
LEMMA TotalKept ==
    ASSUME IInv, EndOK, Reported,
           NEW pc \in {"ack", "pid", "pidval", "exit", "status"}, NEW w, Recv(pc, w),
           Read(ipc') = Read(pc) + 1
    PROVE  Total' = 5
  <1>1. /\ toInvoker \in Seq(ReplyWords) /\ toInvoker # <<>>
        /\ toInvoker' = Tail(toInvoker)
    BY AllWritten
  <1>2. Len(toInvoker') = Len(toInvoker) - 1 /\ Len(toInvoker) \in Nat
    BY <1>1
  <1>3. ipc = pc /\ Read(pc) \in Nat
    BY DEF Recv, Read
  <1>4. Total = 5
    BY <1>3 DEF EndOK
  <1> QED
    BY <1>2, <1>3, <1>4 DEF Total

\* The steps of the invoker keep that.
LEMMA InvokerEndOK == IInv /\ EndOK /\ Invoker => EndOK'
  <1> SUFFICES ASSUME IInv, EndOK, Invoker PROVE EndOK'
    OBVIOUS
  <1>1. UNCHANGED <<req, app, bend, bpc, mapped>>
    BY DEF Invoker, SendWord, RecvAck, RecvPid, SigsInit, RecvExit, SleepOver, boosterVars
  <1>2. Words' = Words
    BY <1>1, SameWords
  <1>3. Reported' = Reported
    BY <1>1 DEF Reported
  <1>4. ipc' = "send" => sent' < Len(Words') /\ app' = None
    <2> SUFFICES ASSUME ipc' = "send" PROVE sent' < Len(Words) /\ app = None
      BY <1>1, <1>2
    <2>1. SendWord
      BY DEF Invoker, RecvAck, RecvPid, SigsInit, RecvExit, SleepOver, InvokerEnds
    <2>2. ipc = "send" /\ sent' = sent + 1 /\ sent' # Len(Words) /\ sent < Len(Words)
      BY <2>1 DEF SendWord, InvokerEnds
    <2>3. sent \in Nat /\ Len(Words) \in Nat
      BY WordTable DEF IInv, TypeOK
    <2> QED
      BY <2>2, <2>3 DEF EndOK
  <1>5. Reported => ipc' # "sleep" /\ (ipc' # "done" => Total' = 5)
    <2> SUFFICES ASSUME Reported PROVE ipc' # "sleep" /\ (ipc' # "done" => Total' = 5)
      OBVIOUS
    <2>1. CASE SendWord
      BY <2>1, Outcomes DEF SendWord, EndOK, Reported
    <2>2. CASE RecvAck
      <3>1. PICK w \in ReplyWords :
              Recv("ack", w) /\ (ipc' = "done" \/ ipc' = "pid")
        BY <2>2 DEF RecvAck, InvokerEnds
      <3>2. ipc' = "pid" => Total' = 5
        BY <3>1, TotalKept DEF Read
      <3> QED
        BY <3>1, <3>2
    <2>3. CASE RecvPid
      <3>1. PICK w \in ReplyWords :
              \/ Recv("pid", w) /\ (ipc' = "done" \/ ipc' = "pidval")
              \/ Recv("pidval", w) /\ ipc' = "sigs_init"
        BY <2>3 DEF RecvPid, InvokerEnds
      <3>2. ipc' # "done" => Total' = 5
        BY <3>1, TotalKept DEF Read
      <3> QED
        BY <3>1, <3>2
    <2>4. CASE SigsInit
      <3>1. ipc = "sigs_init" /\ ipc' = "exit" /\ UNCHANGED toInvoker
        BY <2>4 DEF SigsInit
      <3> QED
        BY <3>1 DEF EndOK, Total, Read
    <2>5. CASE RecvExit
      <3>1. PICK w \in ReplyWords :
              \/ Recv("exit", w) /\ ipc' = IF w = "EXIT" THEN "status" ELSE "sleep"
              \/ ipc' = "done"
        BY <2>5 DEF RecvExit, InvokerEnds
      <3>2. CASE Recv("exit", w) /\ ipc' = IF w = "EXIT" THEN "status" ELSE "sleep"
        <4>1. w = "EXIT"
          BY <3>2, AllWritten DEF Read, Script
        <4> QED
          BY <3>2, <4>1, TotalKept DEF Read
      <3> QED
        BY <3>1, <3>2
    <2>6. CASE SleepOver
      BY <2>6 DEF SleepOver, InvokerEnds
    <2> QED
      BY <2>1, <2>2, <2>3, <2>4, <2>5, <2>6 DEF Invoker
  <1> QED
    BY <1>1, <1>3, <1>4, <1>5 DEF EndOK

\* A step of the booster keeps it if it only goes to its regular end after the
\* status was written.
LEMMA ProcessEndOK ==
    ASSUME IInv, EndOK, bpc # "dead", UNCHANGED <<req, ipc, sent>>,
           \/ bend' = bend /\ bpc' # "dead"
           \/ /\ bpc' = "dead" /\ bend' \in Ends
              /\ Reported' => bpc = "finish" /\ UNCHANGED toInvoker,
           mapped' => req.wait, ipc = "send" => app' = None,
           \/ app' \in {None, Running} \cup Returned
           \/ bend' = app' /\ app' \in Exited \cup Killed
    PROVE  EndOK'
  <1>1. Words' = Words
    BY SameWords
  <1>2. bend = None /\ None[1] # "exit"
    BY DEF EndOK, None
  <1>3. bend' = None <=> bpc' # "dead"
    BY <1>2, Outcomes
  <1>4. ASSUME Reported' PROVE ipc # "sleep" /\ (ipc # "done" => Total' = 5)
    <2>1. bpc = "finish" /\ UNCHANGED toInvoker
      BY <1>2, <1>4 DEF Reported
    <2>2. ipc # "sleep"
      BY <2>1 DEF IInv, InvokerOK
    <2>3. ipc # "done" => Total = 5
      BY <2>1, InScriptAlive DEF Written
    <2> QED
      BY <2>1, <2>2, <2>3 DEF Total
  <1> QED
    BY <1>1, <1>3, <1>4 DEF EndOK

\* The steps of the booster and the application keep it.
LEMMA BoosterEndOK == IInv /\ EndOK /\ (Booster \/ Application) => EndOK'
  <1> SUFFICES ASSUME IInv, EndOK, Booster \/ Application PROVE EndOK'
    OBVIOUS
  <1>1. /\ UNCHANGED <<req, ipc, sent>>
        /\ bpc # "dead"
    BY DEF Booster, Application, Accept, ReceiveHead, ReceiveAction, SendAck, SendPidMsg,
           SendPidVal, CloseEarly, Activate, Report, Load, AppReturns, AppExits,
           SendExitMsg, SendStatus, Finish, Reply, invokerVars
  <1>2. mapped' => req.wait
    <2>1. CASE Report
      BY <2>1 DEF Report, IInv, BoosterOK
    <2>2. CASE ~Report
      <3>1. UNCHANGED mapped
        BY <2>2 DEF Booster, Application, Accept, ReceiveHead, ReceiveAction, SendAck,
           SendPidMsg, SendPidVal, CloseEarly, Activate, Load, AppReturns, AppExits,
           SendExitMsg, SendStatus, Finish, Reply
      <3> QED
        BY <3>1 DEF EndOK
    <2> QED
      BY <2>1, <2>2
  <1>3. ASSUME ipc = "send" PROVE app' = None
    <2>1. app = None /\ app # Running /\ sent < Len(Words)
      BY <1>3, Outcomes DEF EndOK
    <2>2. bpc \notin {"load", "app"}
      <3>1. bpc # "app"
        BY <2>1 DEF IInv, BoosterOK
      <3>2. bpc = "load" => taken = Len(Words)
        BY DEF IInv, ReadOK, AckMeansComplete
      <3>3. taken \in 0..sent /\ sent \in Nat /\ Len(Words) \in Nat
        BY WordTable DEF IInv, TypeOK
      <3> QED
        BY <2>1, <3>1, <3>2, <3>3
    <2> QED
      BY <2>1, <2>2
      DEF Booster, Application, Accept, ReceiveHead, ReceiveAction, SendAck, SendPidMsg,
          SendPidVal, CloseEarly, Activate, Report, Load, AppReturns, AppExits,
          SendExitMsg, SendStatus, Finish, Reply, BoosterEnds
  <1>0. bend = None /\ app \in {None, Running} \cup Returned
    <2>1. None[1] = "none" /\ \A h \in Exited \cup Killed : h[1] \in {"exit", "sig"}
      BY DEF None, Exited, Killed
    <2> QED
      BY <1>1, <2>1 DEF EndOK
  <1>4. ASSUME NEW h \in Ends, BoosterEnds(h), h[1] = "exit" => app \notin Returned,
               app = Running => h \in Exited
        PROVE  EndOK'
    <2>1. /\ bpc' = "dead" /\ bend' = h
          /\ app' \in {None, Running} \cup Returned \/ (app' = h /\ h \in Exited)
      BY <1>0, <1>4 DEF BoosterEnds
    <2>2. ~Reported'
      BY <1>4, Outcomes DEF BoosterEnds, Reported
    <2> QED
      BY <1>1, <1>2, <1>3, <1>4, <2>1, <2>2, ProcessEndOK
  <1>5. ASSUME bend' = bend, bpc' # "dead", app' \in {app, Running} \cup Returned
        PROVE  EndOK'
    BY <1>0, <1>1, <1>2, <1>3, <1>5, ProcessEndOK
  <1>6. <<"sig", "PIPE">> \in Ends /\ <<"exit", "0">> \in Ends /\ <<"exit", "1">> \in Ends
    BY Outcomes
  <1>7. CASE Accept \/ ReceiveHead \/ ReceiveAction \/ Activate \/ Load
    <2>1. app = None /\ app \notin Returned \cup {Running}
      BY <1>7, Outcomes
      DEF Accept, ReceiveHead, ReceiveAction, Activate, Load, IInv, BoosterOK
    <2>2. \/ bend' = bend /\ bpc' # "dead" /\ app' \in {app, Running}
          \/ BoosterEnds(<<"sig", "PIPE">>)
          \/ BoosterEnds(<<"exit", "0">>)
          \/ BoosterEnds(<<"exit", "1">>)
      <3>1. CASE Accept
        BY <3>1 DEF Accept
      <3>2. CASE ReceiveHead
        BY <3>2 DEF ReceiveHead
      <3>3. CASE ReceiveAction
        BY <3>3 DEF ReceiveAction
      <3>4. CASE Activate \/ Load
        BY <3>4 DEF Activate, Load
      <3> QED
        BY <1>7, <3>1, <3>2, <3>3, <3>4
    <2> QED
      BY <1>4, <1>5, <1>6, <2>1, <2>2
  <1>8. CASE SendAck \/ SendPidMsg \/ SendPidVal \/ SendExitMsg \/ SendStatus
    <2>1. \/ bend' = bend /\ bpc' # "dead" /\ app' = app
          \/ BoosterEnds(<<"sig", "PIPE">>)
      BY <1>8 DEF SendAck, SendPidMsg, SendPidVal, SendExitMsg, SendStatus, Reply
    <2>2. app # Running
      BY <1>8 DEF SendAck, SendPidMsg, SendPidVal, SendExitMsg, SendStatus, Reply, IInv,
                  BoosterOK
    <2> QED
      BY <1>4, <1>5, <1>6, <2>1, <2>2
  <1>9. CASE CloseEarly \/ Report
    BY <1>5, <1>9 DEF CloseEarly, Report
  <1>10. CASE AppReturns
    <2>1. m_sendPid = req.wait /\ app' \in Returned
      BY <1>10 DEF AppReturns, IInv, BoosterOK, Returned
    <2>2. CASE m_sendPid
      BY <1>5, <1>10, <2>1, <2>2 DEF AppReturns
    <2>3. CASE ~m_sendPid
      <3>1. bpc' = "dead" /\ bend' = <<"exit", "0">> /\ ~Reported'
        BY <1>1, <1>10, <2>1, <2>3 DEF AppReturns, Reported
      <3> QED
        BY <1>1, <1>2, <1>3, <1>6, <2>1, <3>1, ProcessEndOK
    <2> QED
      BY <2>2, <2>3
  <1>11. CASE AppExits
    <2>1. PICK v \in Statuses : BoosterEnds(<<"exit", v>>)
      BY <1>11 DEF AppExits
    <2>2. app \notin Returned /\ <<"exit", v>> \in Ends /\ <<"exit", v>> \in Exited
      BY <1>11, Outcomes DEF AppExits, IInv, BoosterOK, Exited
    <2> QED
      BY <1>4, <2>1, <2>2
  <1>12. CASE Finish
    <2>1. /\ bpc = "finish" /\ bpc' = "dead" /\ bend' = <<"exit", "0">>
          /\ UNCHANGED <<app, toInvoker>>
      BY <1>12, Outcomes DEF Finish, BoosterEnds, IInv, BoosterOK
    <2> QED
      BY <1>0, <1>1, <1>2, <1>3, <1>6, <2>1, ProcessEndOK
  <1> QED
    BY <1>7, <1>8, <1>9, <1>10, <1>11, <1>12 DEF Booster, Application

\* So do signals.
LEMMA SignalEndOK ==
    IInv /\ EndOK /\ (DaemonForwards \/ KillInvoker \/ KillBooster) => EndOK'
  <1> SUFFICES ASSUME IInv, EndOK, DaemonForwards \/ KillInvoker \/ KillBooster
               PROVE  EndOK'
    OBVIOUS
  <1>1. UNCHANGED <<req, sent, toInvoker>>
    BY DEF DaemonForwards, KillInvoker, KillBooster, SignalsInvoker, invokerVars
  <1>2. mapped' => req'.wait
    <2>1. CASE DaemonForwards
      BY <2>1 DEF DaemonForwards
    <2>2. CASE KillInvoker
      BY <1>1, <2>2 DEF KillInvoker, SignalsInvoker, EndOK
    <2>3. CASE KillBooster
      BY <1>1, <2>3 DEF KillBooster, EndOK
    <2> QED
      BY <2>1, <2>2, <2>3
  <1>2a. Words' = Words
    BY <1>1, SameWords
  <1>3. ASSUME UNCHANGED <<bpc, bend, app>>, ipc' \in {ipc, "done"} PROVE EndOK'
    <2>1. ipc' = "send" => sent' < Len(Words') /\ app' = None
      BY <1>1, <1>2a, <1>3 DEF EndOK
    <2>2. Reported' => ipc' # "sleep" /\ (ipc' # "done" => Total' = 5)
      <3>1. Reported' => Reported
        BY <1>1, <1>3 DEF Reported
      <3>2. ipc' # "done" => ipc' = ipc /\ Total' = Total
        BY <1>1, <1>3 DEF Total
      <3> QED
        BY <1>3, <3>1, <3>2 DEF EndOK
    <2>3. bend' = None <=> bpc' # "dead"
      BY <1>3 DEF EndOK
    <2>4. \/ app' \in {None, Running} \cup Returned
          \/ bend' = app' /\ app' \in Exited \cup Killed
      BY <1>3 DEF EndOK
    <2> QED
      BY <1>2, <2>1, <2>2, <2>3, <2>4 DEF EndOK
  <1>4. ASSUME NEW s \in Signals, BoosterEnds(<<"sig", s>>), bpc # "dead",
               ipc' \in {ipc, "done"}
        PROVE  EndOK'
    <2>1. <<"sig", s>> # None /\ bpc' = "dead" /\ bend' = <<"sig", s>> /\ ~Reported'
      BY <1>4, Outcomes DEF BoosterEnds, Reported
    <2>2. ipc' = "send" => app' = None
      BY <1>4, Outcomes DEF EndOK, BoosterEnds
    <2>3. app \in {None, Running} \cup Returned
      <3>1. None[1] = "none" /\ \A h \in Exited \cup Killed : h[1] \in {"exit", "sig"}
        BY DEF None, Exited, Killed
      <3> QED
        BY <1>4, <3>1 DEF EndOK
    <2>4. \/ app' \in {None, Running} \cup Returned
          \/ app' = <<"sig", s>> /\ <<"sig", s>> \in Killed
      BY <1>4, <2>3 DEF BoosterEnds, Killed
    <2> QED
      BY <1>1, <1>2, <1>2a, <1>4, <2>1, <2>2, <2>4 DEF EndOK
  <1>5. CASE DaemonForwards
    <2>1. ipc' \in {ipc, "done"} /\ UNCHANGED <<bpc, bend, app>>
      BY <1>5 DEF DaemonForwards, InvokerEnds
    <2> QED
      BY <1>3, <2>1
  <1>6. CASE KillInvoker
    <2>1. PICK s \in Signals : SignalsInvoker(s)
      BY <1>6 DEF KillInvoker
    <2>2. /\ ipc' \in {ipc, "done"}
          /\ UNCHANGED <<bpc, bend, app>> \/ (bpc # "dead" /\ BoosterEnds(<<"sig", s>>))
      BY <2>1 DEF SignalsInvoker, InvokerEnds
    <2> QED
      BY <1>3, <1>4, <2>2
  <1>7. CASE KillBooster
    <2>1. PICK s \in Signals : BoosterEnds(<<"sig", s>>)
      BY <1>7 DEF KillBooster
    <2> QED
      BY <1>4, <1>7, <2>1 DEF KillBooster, invokerVars
  <1> QED
    BY <1>5, <1>6, <1>7

\* A regular end of the application's process is always reported first.
LEMMA EndsReported == Spec => [](IInv /\ EndOK)
  <1>1. Init => IInv /\ EndOK
    <2> SUFFICES ASSUME Init PROVE IInv /\ EndOK
      OBVIOUS
    <2>1. bend = None /\ None[1] # "exit" /\ bpc = "accept" /\ ~mapped /\ sent = 0
          /\ app = None /\ req \in Requests
      BY DEF Init, None
    <2>2. 0 < Len(Words)
      BY <2>1, WordTable
    <2> QED
      BY <2>1, <2>2, InitInv DEF EndOK, Reported
  <1>2. IInv /\ EndOK /\ [Next]_vars => (IInv /\ EndOK)'
    <2> SUFFICES ASSUME IInv, EndOK, [Next]_vars PROVE EndOK'
      BY StepInv
    <2>1. CASE UNCHANGED vars
      <3>1. Words' = Words /\ Reported' = Reported /\ Total' = Total
        BY <2>1, SameWords
        DEF vars, invokerVars, boosterVars, Reported, Total
      <3> QED
        BY <2>1, <3>1 DEF EndOK, vars, invokerVars, boosterVars
    <2> QED
      BY <2>1, InvokerEndOK, BoosterEndOK, SignalEndOK DEF Next
  <1> QED
    BY <1>1, <1>2, PTL DEF Spec

-----------------------------------------------------------------------------
(* One run of the invoker keeps its promise                                *)

PromiseStep == [Promise!Next]_(Promise!vars)

\* A step that the promise does not see.
LEMMA Stutters ==
    ASSUME UNCHANGED <<req, app, bend, handlers, told>>
    PROVE  PromiseStep
  BY DEF PromiseStep, Promise!vars

\* What both modules call the same.
LEMMA Names ==
    /\ None = Promise!None /\ Running = Promise!Running
    /\ Returned = Promise!Returned /\ Killed = Promise!Killed
    /\ Promise!Failure = <<"exit", "1">> /\ Promise!Lost = <<"exit", "250">>
    /\ Promise!Unknown = <<"exit", "junk">> /\ Promise!Done = <<"exit", "0">>
  BY DEF None, Running, Returned, Killed, Promise!None, Promise!Running,
         Promise!Returned, Promise!Killed, Promise!Failure, Promise!Lost,
         Promise!Unknown, Promise!Done

\* The invoker gives a verdict.
LEMMA Tells ==
    ASSUME IInv, ipc # "done", NEW h, InvokerEnds(h),
           UNCHANGED <<req, app, bend, handlers>>,
           \/ h = <<"exit", "1">> /\ app = None /\ bend # None
           \/ h = <<"exit", "0">> /\ ~req.wait
           \/ h = <<"sig", "PIPE">> /\ app = None /\ bend # None
           \/ req.wait /\ h = bend /\ bend \in Killed
           \/ /\ h = <<"exit", "250">> /\ req.wait
              /\ \/ app = None /\ bend # None
                 \/ bend \in Killed
                 \/ app \in Exited
           \/ /\ h = <<"exit", "junk">> /\ req.wait
              /\ app \in Returned /\ bend \in Killed
           \/ \E v \in Statuses : h = <<"exit", v>> /\ app = <<"ret", v>> /\ req.wait
    PROVE  PromiseStep
  <1>1. told = Promise!None /\ told' = h
    BY Names DEF IInv, InvokerOK, InvokerEnds
  <1>2. req.wait \in BOOLEAN
    BY DEF IInv, TypeOK, Requests
  <1>3. \/ req.wait /\ h \in Promise!Verdicts
        \/ ~req.wait /\ h \in {Promise!Done} \cup
                              (IF Promise!NeverRan THEN {Promise!Failure} ELSE {})
        \/ Promise!NeverRan /\ h = <<"sig", "PIPE">>
    <2>1. CASE h = <<"exit", "1">> /\ app = None /\ bend # None
      BY <1>2, <2>1, Names DEF Promise!Verdicts, Promise!NeverRan
    <2>2. CASE h = <<"exit", "0">> /\ ~req.wait
      BY <2>2, Names
    <2>3. CASE h = <<"sig", "PIPE">> /\ app = None /\ bend # None
      BY <2>3, Names DEF Promise!NeverRan
    <2>4. CASE req.wait /\ h = bend /\ bend \in Killed
      BY <2>4, Names DEF Promise!Verdicts
    <2>5. CASE /\ h = <<"exit", "250">> /\ req.wait
               /\ \/ app = None /\ bend # None
                  \/ bend \in Killed
                  \/ app \in Exited
      BY <2>5, Names DEF Promise!Verdicts, Promise!NeverRan, Promise!Exited, Exited
    <2>6. CASE /\ h = <<"exit", "junk">> /\ req.wait
               /\ app \in Returned /\ bend \in Killed
      BY <2>6, Names DEF Promise!Verdicts
    <2>7. CASE \E v \in Statuses : h = <<"exit", v>> /\ app = <<"ret", v>> /\ req.wait
      BY <2>7 DEF Promise!Verdicts
    <2> QED
      BY <2>1, <2>2, <2>3, <2>4, <2>5, <2>6, <2>7
  <1>4. Promise!Tell
    BY <1>1, <1>3 DEF Promise!Tell
  <1> QED
    BY <1>4 DEF PromiseStep, Promise!Next

\* What has ended the process, once it has ended; without an application
\* nobody has seen it run, and with one that ended by itself it did so after
\* the status was written, or called exit().
LEMMA DeadProcess ==
    ASSUME IInv, EndOK, bpc = "dead", req.wait, ~Reported
    PROVE  \/ app = None /\ bend # None
           \/ bend \in Killed
           \/ app \in Exited
  <1>1. bend # None /\ app # Running
    BY DEF EndOK, IInv, BoosterOK
  <1>2. CASE app \in Returned
    <2>1. bend \in Ends /\ bend[1] # "exit"
      BY <1>1, <1>2 DEF Reported, IInv, TypeOK
    <2>2. bend \in Killed
      BY <2>1 DEF Ends, Killed
    <2> QED
      BY <2>2
  <1>3. CASE app \notin Returned
    BY <1>1, <1>3 DEF EndOK
  <1> QED
    BY <1>2, <1>3

\* The invoker's steps are verdicts, forwarding, or invisible.
LEMMA InvokerPromise == IInv /\ EndOK /\ Invoker => PromiseStep
  <1> SUFFICES ASSUME IInv, EndOK, Invoker PROVE PromiseStep
    OBVIOUS
  <1>0. UNCHANGED <<req, app, bend>>
    BY DEF Invoker, SendWord, RecvAck, RecvPid, SigsInit, RecvExit, SleepOver, boosterVars
  <1>1. CASE SendWord
    <2>1. ipc = "send" /\ UNCHANGED handlers
      BY <1>1 DEF SendWord
    <2>2. CASE bOpen
      <3>1. UNCHANGED told
        BY <1>1, <2>2 DEF SendWord
      <3> QED
        BY <1>0, <2>1, <3>1, Stutters
    <2>3. CASE ~bOpen
      <3>1. InvokerEnds(<<"sig", "PIPE">>)
        BY <1>1, <2>3 DEF SendWord
      <3>2. bpc = "dead"
        <4>1. bpc \in {"single", "load", "app"} => taken = Len(Words)
          BY DEF IInv, ReadOK, AckMeansComplete
        <4>2. taken \in 0..sent /\ sent \in Nat /\ Len(Words) \in Nat /\ sent < Len(Words)
          BY <2>1, WordTable DEF IInv, TypeOK, EndOK
        <4> QED
          BY <2>3, <4>1, <4>2 DEF IInv, BoosterOK
      <3>3. app = None /\ bend # None
        BY <2>1, <3>2 DEF EndOK
      <3> QED
        BY <1>0, <2>1, <3>1, <3>3, Tells
    <2> QED
      BY <2>2, <2>3
  <1>2. CASE RecvAck
    <2>1. PICK w \in ReplyWords :
            /\ Recv("ack", w)
            /\ IF w # "ACK" THEN InvokerEnds(<<"exit", "1">>)
               ELSE IF req.wait THEN ipc' = "pid" /\ UNCHANGED told
               ELSE InvokerEnds(<<"exit", "0">>)
      BY <1>2 DEF RecvAck
    <2>2. ipc = "ack" /\ UNCHANGED handlers
      BY <1>2, <2>1 DEF RecvAck, Recv
    <2>3. CASE w # "ACK"
      <3>1. bpc = "dead" /\ (Refused \/ toInvoker = <<>>)
        BY <2>1, <2>3, Received DEF Script, Read, Refused
      <3>2. app = None
        <4>1. CASE Refused
          BY <4>1 DEF Refused
        <4>2. CASE ~Refused
          <5>1. InScript /\ Total = 0
            BY <2>2, <3>1, <4>2 DEF IInv, StreamOK, Total, Read
          <5> QED
            BY <5>1 DEF InScript
        <4> QED
          BY <4>1, <4>2
      <3>3. bend # None
        BY <3>1 DEF EndOK
      <3> QED
        BY <1>0, <2>1, <2>2, <2>3, <3>2, <3>3, Tells
    <2>4. CASE w = "ACK" /\ req.wait
      BY <1>0, <2>1, <2>2, <2>4, Stutters
    <2>5. CASE w = "ACK" /\ ~req.wait
      BY <1>0, <2>1, <2>2, <2>5, Tells
    <2> QED
      BY <2>3, <2>4, <2>5
  <1>3. CASE RecvPid
    <2>1. UNCHANGED handlers
      BY <1>3 DEF RecvPid
    <2>2. CASE UNCHANGED told
      BY <1>0, <2>1, <2>2, Stutters
    <2>3. CASE ~UNCHANGED told
      <3>1. PICK w \in ReplyWords :
              Recv("pid", w) /\ w # "PID" /\ InvokerEnds(<<"exit", "1">>)
        BY <1>3, <2>3 DEF RecvPid
      <3>2. ipc = "pid" /\ toInvoker = <<>> /\ bpc = "dead"
        <4>1. ipc = "pid"
          BY <3>1 DEF Recv
        <4> QED
          BY <3>1, <4>1, Received DEF Script, Read
      <3>3. InScript /\ req.wait
        BY <3>2 DEF IInv, StreamOK, Refused, InvokerOK
      <3>4. Total = 1
        BY <3>2 DEF Total, Read
      <3>5. app = None /\ bend # None
        BY <3>2, <3>3, <3>4 DEF InScript, EndOK
      <3> QED
        BY <1>0, <2>1, <3>1, <3>2, <3>5, Tells
    <2> QED
      BY <2>2, <2>3
  <1>4. CASE SigsInit
    <2>1. handlers' = "forward" /\ UNCHANGED told /\ req.wait /\ told = Promise!None
      BY <1>4, Names DEF SigsInit, IInv, InvokerOK
    <2>2. Promise!Watch
      BY <1>0, <2>1 DEF Promise!Watch
    <2> QED
      BY <2>2 DEF PromiseStep, Promise!Next
  <1>5. CASE RecvExit
    <2>1. UNCHANGED handlers
      BY <1>5 DEF RecvExit
    <2>2. CASE UNCHANGED told
      BY <1>0, <2>1, <2>2, Stutters
    <2>3. CASE ~UNCHANGED told
      <3>1. PICK w \in ReplyWords : Recv("status", w) /\ InvokerEnds(<<"exit", w>>)
        BY <1>5, <2>3 DEF RecvExit
      <3>2. ipc = "status" /\ InScript /\ req.wait
        BY <3>1 DEF Recv, IInv, StreamOK, Refused, InvokerOK
      <3>3. app \in Returned
        <4>1. Len(toInvoker) \in Nat
          BY DEF IInv, TypeOK
        <4>2. Total >= 4
          BY <3>2, <4>1 DEF Total, Read
        <4> QED
          BY <3>2, <4>2 DEF InScript
      <3>4. CASE toInvoker = <<>>
        <4>1. bpc = "dead" /\ w = "junk"
          BY <3>1, <3>4, Received DEF Refused
        <4>2. Total = 4
          BY <3>2, <3>4 DEF Total, Read
        <4>3. ~Reported
          BY <3>2, <4>2 DEF EndOK
        <4>4. bend \in Killed
          <5>1. \A h \in Exited : h[1] = "exit"
            BY DEF Exited
          <5>2. \A h \in Returned : h[1] = "ret"
            BY DEF Returned
          <5> QED
            BY <3>2, <3>3, <4>1, <4>3, <5>1, <5>2, DeadProcess, Outcomes
        <4> QED
          BY <1>0, <2>1, <3>1, <3>2, <3>3, <4>1, <4>4, Tells
      <3>5. CASE toInvoker # <<>>
        <4>1. w = app[2]
          BY <3>1, <3>2, <3>5, Received DEF Script, Read
        <4>2. PICK v \in Statuses : app = <<"ret", v>>
          BY <3>3 DEF Returned
        <4>3. w = v
          BY <4>1, <4>2
        <4> QED
          BY <1>0, <2>1, <3>1, <3>2, <4>2, <4>3, Tells
      <3> QED
        BY <3>4, <3>5
    <2> QED
      BY <2>2, <2>3
  <1>6. CASE SleepOver
    <2>1. ipc = "sleep" /\ InvokerEnds(<<"exit", "250">>) /\ UNCHANGED handlers
      BY <1>6 DEF SleepOver
    <2>2. bpc = "dead" /\ req.wait /\ ~Reported
      BY <2>1 DEF IInv, InvokerOK, EndOK
    <2> QED
      BY <1>0, <2>1, <2>2, DeadProcess, Tells
  <1> QED
    BY <1>1, <1>2, <1>3, <1>4, <1>5, <1>6 DEF Invoker

\* A process that is not the application yet ends without it.
LEMMA Refuses ==
    ASSUME NEW h \in {<<"exit", "0">>, <<"exit", "1">>}, BoosterEnds(h),
           app = None, bend = None, UNCHANGED <<req, handlers, told>>
    PROVE  PromiseStep
  <1>1. app' = app /\ bend' = h
    BY Outcomes DEF BoosterEnds
  <1>2. Promise!Refuse
    BY <1>1, Names DEF Promise!Refuse
  <1> QED
    BY <1>2 DEF PromiseStep, Promise!Next

\* A signal ends the process, and the application if it is that.
LEMMA Dies ==
    ASSUME NEW s \in Signals \cup {"PIPE"}, BoosterEnds(<<"sig", s>>), bend = None,
           s = "PIPE" => told # None, UNCHANGED <<req, handlers, told>>
    PROVE  PromiseStep
  <1> DEFINE h == <<"sig", s>>
  <1>1. h \in Promise!Killed /\ h[2] = s
    BY DEF Promise!Killed
  <1>2. bend' = h /\ app' = IF app = Running THEN h ELSE app
    BY DEF BoosterEnds
  <1> HIDE DEF h
  <1>3. Promise!Die
    BY <1>1, <1>2, Names DEF Promise!Die, Promise!DiesOf
  <1> QED
    BY <1>3 DEF PromiseStep, Promise!Next

\* The steps of the booster start the application, end the process before it
\* or after the status was reported, or are invisible.
LEMMA BoosterPromise == IInv /\ EndOK /\ Booster => PromiseStep
  <1> SUFFICES ASSUME IInv, EndOK, Booster PROVE PromiseStep
    OBVIOUS
  <1>1. UNCHANGED <<req, handlers, told, ipc>>
    BY DEF Booster, Accept, ReceiveHead, ReceiveAction, SendAck, SendPidMsg, SendPidVal,
           CloseEarly, Activate, Report, Load, SendExitMsg, SendStatus, Finish, Reply,
           invokerVars
  <1>2. bend = None
    BY DEF Booster, Accept, ReceiveHead, ReceiveAction, SendAck, SendPidMsg, SendPidVal,
           CloseEarly, Activate, Report, Load, SendExitMsg, SendStatus, Finish, Reply,
           EndOK
  <1>3. CASE UNCHANGED <<app, bend>>
    BY <1>1, <1>3, Stutters
  <1>4. ASSUME BoosterEnds(<<"sig", "PIPE">>), ipc = "done" PROVE PromiseStep
    <2>1. told # None
      BY <1>4 DEF IInv, InvokerOK
    <2> QED
      BY <1>1, <1>2, <1>4, <2>1, Dies
  <1>5. CASE Accept \/ ReceiveHead \/ ReceiveAction \/ Activate \/ Load
    <2>1. app = None
      BY <1>5 DEF Accept, ReceiveHead, ReceiveAction, Activate, Load, IInv, BoosterOK
    <2>2. \/ UNCHANGED <<app, bend>>
          \/ Load /\ UNCHANGED bend /\ app' = Running
          \/ BoosterEnds(<<"sig", "PIPE">>) /\ ipc = "done"
          \/ BoosterEnds(<<"exit", "0">>)
          \/ BoosterEnds(<<"exit", "1">>)
      <3>1. CASE Accept
        BY <3>1 DEF Accept
      <3>2. CASE ReceiveHead
        BY <3>2 DEF ReceiveHead
      <3>3. CASE ReceiveAction
        BY <3>3 DEF ReceiveAction
      <3>4. CASE Activate \/ Load
        BY <3>4 DEF Activate, Load
      <3> QED
        BY <1>5, <3>1, <3>2, <3>3, <3>4
    <2>3. CASE Load /\ UNCHANGED bend /\ app' = Running
      <3>1. Promise!Start
        BY <1>1, <1>2, <2>1, <2>3, Names DEF Promise!Start
      <3> QED
        BY <3>1 DEF PromiseStep, Promise!Next
    <2> QED
      BY <1>1, <1>2, <1>3, <1>4, <2>1, <2>2, <2>3, Refuses
  <1>6. CASE SendAck \/ SendPidMsg \/ SendPidVal \/ SendExitMsg \/ SendStatus
    <2>1. UNCHANGED <<app, bend>> \/ (BoosterEnds(<<"sig", "PIPE">>) /\ ipc = "done")
      BY <1>6 DEF SendAck, SendPidMsg, SendPidVal, SendExitMsg, SendStatus, Reply
    <2> QED
      BY <1>3, <1>4, <2>1
  <1>7. CASE CloseEarly \/ Report
    BY <1>3, <1>7 DEF CloseEarly, Report
  <1>8. CASE Finish
    <2>1. app \in Returned /\ bend' = <<"exit", "0">> /\ UNCHANGED app
      BY <1>8, Outcomes DEF Finish, BoosterEnds, IInv, BoosterOK
    <2>2. Promise!Finish
      BY <1>1, <1>2, <2>1, Names DEF Promise!Finish
    <2> QED
      BY <2>2 DEF PromiseStep, Promise!Next
  <1> QED
    BY <1>5, <1>6, <1>7, <1>8 DEF Booster

\* The steps of the application map to its steps in the promise.
LEMMA ApplicationPromise == IInv /\ EndOK /\ Application => PromiseStep
  <1> SUFFICES ASSUME IInv, EndOK, Application PROVE PromiseStep
    OBVIOUS
  <1>1. UNCHANGED <<req, handlers, told>> /\ app = Running /\ bend = None
    BY DEF Application, AppReturns, AppExits, invokerVars, IInv, BoosterOK, EndOK
  <1>2. CASE AppReturns
    <2>1. m_sendPid = req.wait /\ app' \in Returned
      BY <1>2 DEF AppReturns, IInv, BoosterOK, Returned
    <2>2. bend' = IF req.wait THEN None ELSE <<"exit", "0">>
      BY <1>1, <1>2, <2>1 DEF AppReturns
    <2>3. Promise!Return
      BY <1>1, <2>1, <2>2, Names DEF Promise!Return
    <2> QED
      BY <2>3 DEF PromiseStep, Promise!Next
  <1>3. CASE AppExits
    <2>1. PICK v \in Statuses : BoosterEnds(<<"exit", v>>)
      BY <1>3 DEF AppExits
    <2>2. Promise!Exit
      BY <1>1, <2>1, Names DEF BoosterEnds, Promise!Exit, Promise!Exited
    <2> QED
      BY <2>2 DEF PromiseStep, Promise!Next
  <1> QED
    BY <1>2, <1>3 DEF Application

\* A signal to the invoker ends the application too once it is forwarded.
LEMMA HitPromise ==
    ASSUME IInv, EndOK, NEW s \in Signals, SignalsInvoker(s)
    PROVE  PromiseStep
  <1>1. ipc # "done" /\ UNCHANGED <<req, handlers>>
    BY DEF SignalsInvoker
  <1>2. CASE UNCHANGED <<ipc, told, bpc, bend, bOpen, app>>
    BY <1>1, <1>2, Stutters
  <1>3. CASE /\ InvokerEnds(<<"sig", s>>)
             /\ IF handlers = "forward" /\ s # "KILL" /\ g_invoked_pid = "pid"
                   /\ bpc # "dead"
                THEN BoosterEnds(<<"sig", s>>)
                ELSE UNCHANGED <<bpc, bend, bOpen, app>>
    <2>1. told = Promise!None /\ told' = <<"sig", s>>
      BY <1>1, <1>3, Names DEF IInv, InvokerOK, InvokerEnds
    <2>2. CASE handlers = "forward" /\ s # "KILL"
      <3>1. g_invoked_pid = "pid" \/ bpc = "dead"
        BY <2>2 DEF IInv, InvokerOK
      <3>2. bend = Promise!None <=> bpc # "dead"
        BY Names DEF EndOK
      <3>3. CASE bpc = "dead"
        <4>1. UNCHANGED <<app, bend>>
          BY <1>3, <3>3
        <4>2. Promise!HitForwarding(s)
          BY <2>2, <3>2, <3>3, <4>1 DEF Promise!HitForwarding
        <4> QED
          BY <1>1, <2>1, <4>2 DEF PromiseStep, Promise!Next, Promise!Hit
      <3>4. CASE bpc # "dead"
        <4>1. BoosterEnds(<<"sig", s>>)
          BY <1>3, <2>2, <3>1, <3>4
        <4>2. Promise!HitForwarding(s)
          BY <2>2, <3>2, <3>4, <4>1, Names
          DEF Promise!HitForwarding, Promise!DiesOf, BoosterEnds
        <4> QED
          BY <1>1, <2>1, <4>2 DEF PromiseStep, Promise!Next, Promise!Hit
      <3> QED
        BY <3>3, <3>4
    <2>3. CASE ~(handlers = "forward" /\ s # "KILL")
      <3>1. UNCHANGED <<app, bend>>
        BY <1>3, <2>3
      <3>2. Promise!HitAlone(s)
        BY <2>3, <3>1 DEF Promise!HitAlone
      <3> QED
        BY <1>1, <2>1, <3>2 DEF PromiseStep, Promise!Next, Promise!Hit
    <2> QED
      BY <2>2, <2>3
  <1> QED
    BY <1>2, <1>3 DEF SignalsInvoker

\* The daemon passes on the signal that ended the process.
LEMMA SignalPromise ==
    IInv /\ EndOK /\ (DaemonForwards \/ KillInvoker \/ KillBooster) => PromiseStep
  <1> SUFFICES ASSUME IInv, EndOK, DaemonForwards \/ KillInvoker \/ KillBooster
               PROVE  PromiseStep
    OBVIOUS
  <1>1. CASE DaemonForwards
    <2>1. /\ UNCHANGED <<req, app, bend, handlers>> /\ mapped /\ bend[1] = "sig"
          /\ bpc = "dead"
      BY <1>1 DEF DaemonForwards
    <2>2. CASE ipc # "done"
      <3>1. InvokerEnds(<<"sig", bend[2]>>)
        BY <1>1, <2>2 DEF DaemonForwards
      <3>2. bend \in Killed /\ bend = <<"sig", bend[2]>>
        <4>1. bend \in Ends
          BY <2>1 DEF IInv, TypeOK, EndOK
        <4>2. \A h \in Ends : h[1] = "sig" => h \in Killed /\ h = <<"sig", h[2]>>
          BY DEF Ends, Killed
        <4> QED
          BY <2>1, <4>1, <4>2
      <3>3. req.wait
        BY <2>1 DEF EndOK
      <3> QED
        BY <2>1, <2>2, <3>1, <3>2, <3>3, Tells
    <2>3. CASE ipc = "done"
      <3>1. UNCHANGED told
        BY <1>1, <2>3 DEF DaemonForwards
      <3> QED
        BY <2>1, <3>1, Stutters
    <2> QED
      BY <2>2, <2>3
  <1>2. CASE KillInvoker
    BY <1>2, HitPromise DEF KillInvoker
  <1>3. CASE KillBooster
    <2>1. PICK s \in Signals : BoosterEnds(<<"sig", s>>)
      BY <1>3 DEF KillBooster
    <2>2. bend = None /\ UNCHANGED <<req, handlers, told>>
      BY <1>3 DEF KillBooster, invokerVars, EndOK
    <2>3. s = "PIPE" => told # None
      BY <2>1, InvocationAssumption
    <2> QED
      BY <2>1, <2>2, <2>3, Dies
  <1> QED
    BY <1>1, <1>2, <1>3

\* A launch as invoker.c, connection.cpp and booster.cpp carry it out is one
\* that LaunchPromise allows: the invoker's status is the one main() returned,
\* a signal that is forwarded ends both, and the exceptions are those that
\* LaunchPromise names.
THEOREM PromiseKept == Spec => KeepsPromise
  <1>1. Init => Promise!Init
    BY DEF Init, Requests, Promise!Init, Promise!None, None
  <1>2. IInv /\ EndOK /\ [Next]_vars => [Promise!Next]_(Promise!vars)
    <2> SUFFICES ASSUME IInv, EndOK, [Next]_vars PROVE PromiseStep
      BY DEF PromiseStep
    <2>1. CASE UNCHANGED vars
      BY <2>1, Stutters DEF vars, invokerVars, boosterVars
    <2> QED
      BY <2>1, InvokerPromise, BoosterPromise, ApplicationPromise, SignalPromise DEF Next
  <1> QED
    BY <1>1, <1>2, EndsReported, PTL DEF Spec, KeepsPromise, Promise!Spec

=============================================================================

--------------------------- MODULE LauncherProofs ---------------------------
(***************************************************************************)
(* Proofs about module Launcher, for every set of booster types and        *)
(* invokers, every word size and every process limit.                      *)
(***************************************************************************)
EXTENDS Launcher, TLAPS

\* A descriptor of the snapshot has something to read until it is handled:
\* nobody but the daemon reads from its pipes.
SnapOK ==
    /\ "booster" \in snap => boosterPipe # <<>>
    /\ "chld" \in snap => chldBytes > 0
    /\ "usr1" \in snap => usr1Bytes > 0
    /\ dpc \in {"readPid", "readDelay", "reap"} => "booster" \notin snap
    /\ dpc = "reap" => "chld" \notin snap

\* Typing, with the fact that makes the decrements of the byte counters and
\* the Head of the pipe meaningful.
TypeInv == TypeOK /\ SnapOK

-----------------------------------------------------------------------------
(* What the helpers preserve                                               *)

\* A word has the type of a piece of pipe.
LEMMA WordType ==
    ASSUME NEW k \in {"pid", "delay"}, NEW v \in PidWords
    PROVE  WordOf(k, v) \in Seq(Bytes) /\ Len(WordOf(k, v)) = WordBytes
  <1>1. WordBytes \in Nat
    BY LauncherAssumption
  <1>2. WordOf(k, v) \in [1..WordBytes -> Bytes]
    BY <1>1 DEF WordOf, Bytes
  <1> QED
    BY <1>1, <1>2

\* The end of the daemon leaves the process states well typed.
LEMMA AfterDaemonEndType ==
    ASSUME NEW st \in [Pids -> ProcStates]
    PROVE  AfterDaemonEnd(st) \in [Pids -> ProcStates]
  BY DEF AfterDaemonEnd, ProcStates, DiesWithDaemon

\* forkBooster leaves the daemon's tables and the process table well typed,
\* whether fork() succeeds or not.
LEMMA ForkBoosterType ==
    ASSUME TypeOK,
           NEW c \in Chars, NEW st \in [Pids -> ProcStates],
           NEW kids \in SUBSET Pids, NEW pc \in DaemonPCs,
           ForkBooster(c, st, kids, pc)
    PROVE  /\ m_children' \subseteq Pids
           /\ m_boosterTypeToPid' \in [Chars -> 0..MaxPid]
           /\ nextPid' \in 1..(MaxPid + 1)
           /\ pst' \in [Pids -> ProcStates]
           /\ ptype' \in [Pids -> Chars]
           /\ pboot' \in [Pids -> BOOLEAN]
           /\ dpc' \in {pc, "exited"}
  <1>1. MaxPid \in Nat
    BY LauncherAssumption
  <1>2. CASE nextPid <= MaxPid
    <2>1. nextPid \in Pids /\ nextPid + 1 \in 1..(MaxPid + 1)
      BY <1>1, <1>2 DEF TypeOK, Pids
    <2>2. /\ m_children' = kids \cup {nextPid}
          /\ m_boosterTypeToPid' = [m_boosterTypeToPid EXCEPT ![c] = nextPid]
          /\ pst'   = [st EXCEPT ![nextPid] = "forked"]
          /\ ptype' = [ptype EXCEPT ![nextPid] = c]
          /\ pboot' = [pboot EXCEPT ![nextPid] = m_bootMode]
          /\ nextPid' = nextPid + 1
          /\ dpc' = pc
      BY <1>1, <1>2 DEF ForkBooster, TypeOK
    <2>3. "forked" \in ProcStates
      BY DEF ProcStates, Alive, Unreported
    <2>4. m_boosterTypeToPid' \in [Chars -> 0..MaxPid]
      BY <1>1, <2>1, <2>2 DEF TypeOK, Pids
    <2> QED
      BY <2>1, <2>2, <2>3, <2>4 DEF TypeOK
  <1>3. CASE ~(nextPid <= MaxPid)
    <2>1. /\ m_children' = kids
          /\ m_boosterTypeToPid' = [m_boosterTypeToPid EXCEPT ![c] = 0]
          /\ pst' = AfterDaemonEnd(st)
          /\ dpc' = "exited"
          /\ UNCHANGED <<ptype, pboot, nextPid>>
      BY <1>3 DEF ForkBooster
    <2>2. m_boosterTypeToPid' \in [Chars -> 0..MaxPid]
      BY <1>1, <2>1 DEF TypeOK
    <2> QED
      BY <2>1, <2>2, AfterDaemonEndType DEF TypeOK
  <1> QED
    BY <1>2, <1>3

-----------------------------------------------------------------------------
(* Typing                                                                  *)

\* The daemon's actions preserve TypeInv.
LEMMA DaemonTyping == TypeInv /\ (Daemon \/ SigChldHandler) => TypeInv'
  <1> SUFFICES ASSUME TypeInv, Daemon \/ SigChldHandler PROVE TypeInv'
    OBVIOUS
  <1>0. /\ MaxPid \in Nat /\ WordBytes \in Nat /\ WordBytes > 1
        /\ "TERM" \in Signals
    BY LauncherAssumption
  <1>1. CASE ForkBoosters
    <2>1. CASE \A t \in Types : m_boosterTypeToPid[t] # 0
      BY <1>1, <2>1 DEF ForkBoosters, TypeInv, TypeOK, SnapOK, DaemonPCs,
                        procVars, pipeVars, envVars
    <2>2. CASE \E t \in Types : m_boosterTypeToPid[t] = 0
      <3>1. PICK t \in Types : ForkBooster(t, pst, m_children, "start")
        BY <1>1, <2>2 DEF ForkBoosters
      <3>2. t \in Chars /\ "start" \in DaemonPCs
        BY DEF Chars, DaemonPCs
      <3>3. /\ m_children' \subseteq Pids
            /\ m_boosterTypeToPid' \in [Chars -> 0..MaxPid]
            /\ nextPid' \in 1..(MaxPid + 1)
            /\ pst' \in [Pids -> ProcStates]
            /\ ptype' \in [Pids -> Chars]
            /\ pboot' \in [Pids -> BOOLEAN]
            /\ dpc' \in {"start", "exited"}
        BY <3>1, <3>2, ForkBoosterType DEF TypeInv, TypeOK
      <3> QED
        BY <1>1, <2>2, <3>3 DEF ForkBoosters, TypeInv, TypeOK, SnapOK,
                                DaemonPCs, pipeVars, envVars
    <2> QED
      BY <2>1, <2>2
  <1>2. CASE Select
    BY <1>2 DEF Select, Readable, Fds, TypeInv, TypeOK, SnapOK, DaemonPCs,
                procVars, pipeVars, envVars
  <1>3. CASE ReadType
    <2>1. boosterPipe # <<>> /\ boosterPipe \in Seq(Bytes)
      BY <1>3 DEF ReadType, TypeInv, TypeOK, SnapOK
    <2>2. Head(boosterPipe) \in Bytes /\ Tail(boosterPipe) \in Seq(Bytes)
      BY <2>1
    <2>3. msgType' \in Chars
      BY <1>3, <2>2 DEF ReadType, CharRead, Bytes
    <2>4. boosterPipe' \in Seq(Bytes)
      BY <1>3, <2>2 DEF ReadType
    <2>5. TypeOK'
      BY <1>3, <2>3, <2>4 DEF ReadType, TypeInv, TypeOK, DaemonPCs, procVars,
                              envVars
    <2>6. SnapOK'
      BY <1>3 DEF ReadType, TypeInv, SnapOK
    <2> QED
      BY <2>5, <2>6 DEF TypeInv
  <1>4. CASE ShortRead
    <2>1. <<>> \in Seq(Bytes)
      OBVIOUS
    <2>2. pst' \in [Pids -> ProcStates]
      BY <1>4, AfterDaemonEndType DEF ShortRead, DaemonEnds, TypeInv, TypeOK
    <2> QED
      BY <1>4, <2>1, <2>2 DEF ShortRead, DaemonEnds, TypeInv, TypeOK, SnapOK,
                              DaemonPCs, envVars
  <1>5. CASE ReadPid
    <2>1. DropWord \in Seq(Bytes)
      BY <1>0, <1>5 DEF ReadPid, DropWord, TypeInv, TypeOK
    <2>2. msgPid' \in PidWords
      BY <1>5 DEF ReadPid, PidRead, PidWords
    <2>3. m_boosterTypeToPid[msgType] \in 0..MaxPid
      BY DEF TypeInv, TypeOK
    <2>4. m_boosterPidToInvokerPid' \in [Pids -> PidWords]
      BY <1>5, <2>2, <2>3 DEF ReadPid, TypeInv, TypeOK
    <2> QED
      BY <1>5, <2>1, <2>2, <2>4 DEF ReadPid, TypeInv, TypeOK, SnapOK,
                                    DaemonPCs, procVars, envVars
  <1>6. CASE ReadDelayAndFork
    <2>1. DropWord \in Seq(Bytes)
      BY <1>0, <1>6 DEF ReadDelayAndFork, DropWord, TypeInv, TypeOK
    <2>2. /\ m_children' \subseteq Pids
          /\ m_boosterTypeToPid' \in [Chars -> 0..MaxPid]
          /\ nextPid' \in 1..(MaxPid + 1)
          /\ pst' \in [Pids -> ProcStates]
          /\ ptype' \in [Pids -> Chars]
          /\ pboot' \in [Pids -> BOOLEAN]
          /\ dpc' \in {"loop", "exited"}
      BY <1>6, ForkBoosterType DEF ReadDelayAndFork, DaemonPCs, TypeInv, TypeOK
    <2> QED
      BY <1>6, <2>1, <2>2 DEF ReadDelayAndFork, TypeInv, TypeOK, SnapOK,
                              DaemonPCs, envVars
  <1>7. CASE ReadSigChld
    BY <1>0, <1>7 DEF ReadSigChld, TypeInv, TypeOK, SnapOK, DaemonPCs,
                      procVars, envVars
  <1>8. CASE ReapStep
    <2>1. PICK p \in Unvisited : cursor' = p /\ (ReapSkip(p) \/ ReapZombie(p))
      BY <1>8 DEF ReapStep
    <2>2. p \in Pids /\ p \in 0..MaxPid
      BY <1>0, <2>1 DEF Unvisited, TypeInv, TypeOK, Pids
    <2>3. CASE ReapSkip(p)
      BY <1>8, <2>1, <2>2, <2>3 DEF ReapStep, ReapSkip, TypeInv, TypeOK,
                                    SnapOK, pipeVars, envVars
    <2>4. CASE ReapZombie(p)
      <3>1. killed' \in [Invokers -> {"none"} \cup Signals]
        BY <2>4 DEF ReapZombie, ForwardSignal, TypeInv, TypeOK
      <3>2. m_boosterPidToInvokerPid' \in [Pids -> PidWords]
        BY <2>4 DEF ReapZombie, PidWords, TypeInv, TypeOK
      <3>3. [pst EXCEPT ![p] = "gone"] \in [Pids -> ProcStates]
        BY DEF TypeInv, TypeOK, ProcStates
      <3>4. m_children \ {p} \in SUBSET Pids
        BY DEF TypeInv, TypeOK
      <3>5. "reap" \in DaemonPCs
        BY DEF DaemonPCs
      <3>6. /\ m_children' \subseteq Pids
            /\ m_boosterTypeToPid' \in [Chars -> 0..MaxPid]
            /\ nextPid' \in 1..(MaxPid + 1)
            /\ pst' \in [Pids -> ProcStates]
            /\ ptype' \in [Pids -> Chars]
            /\ pboot' \in [Pids -> BOOLEAN]
            /\ dpc' \in {"reap", "exited"}
        <4>1. CASE \E c \in Chars \ {Nul} : m_boosterTypeToPid[c] = p
          <5>1. PICK c \in Chars :
                  ForkBooster(c, [pst EXCEPT ![p] = "gone"], m_children \ {p}, "reap")
            BY <2>4, <4>1 DEF ReapZombie
          <5> QED
            BY <5>1, <3>3, <3>4, <3>5, ForkBoosterType DEF TypeInv
        <4>2. CASE \A c \in Chars \ {Nul} : m_boosterTypeToPid[c] # p
          BY <1>8, <2>4, <4>2, <3>3 DEF ReapStep, ReapZombie, TypeInv, TypeOK
        <4> QED
          BY <4>1, <4>2
      <3> QED
        BY <1>8, <2>1, <2>2, <3>1, <3>2, <3>6
        DEF ReapStep, TypeInv, TypeOK, SnapOK, DaemonPCs, pipeVars, envVars
    <2> QED
      BY <2>1, <2>3, <2>4
  <1>9. CASE ReapDone
    BY <1>9 DEF ReapDone, TypeInv, TypeOK, SnapOK, DaemonPCs, procVars,
                pipeVars, envVars
  <1>10. CASE HandleSigTerm
    <2>1. pst' \in [Pids -> ProcStates]
      BY <1>10, AfterDaemonEndType DEF HandleSigTerm, DaemonEnds, TypeInv, TypeOK
    <2> QED
      BY <1>10, <2>1 DEF HandleSigTerm, DaemonEnds, TypeInv, TypeOK, SnapOK,
                         DaemonPCs, envVars
  <1>11. CASE HandleSigUsr1
    <2>1. /\ dpc = "loop" /\ snap = {"usr1"} /\ snap' = {}
          /\ usr1Bytes' = usr1Bytes - 1
          /\ KillBoosters \/ UNCHANGED <<pst, how, chldPending, termByte>>
          /\ UNCHANGED <<dpc, msgType, msgPid, cursor, m_children,
                   m_boosterTypeToPid, m_boosterPidToInvokerPid, killed, nextPid,
                   ptype, pboot, pinv, boosterPipe, chldBytes, kills, usr1Sent>>
      BY <1>11, Zenon DEF HandleSigUsr1, envVars
    <2>2. /\ m_bootMode' \in BOOLEAN /\ chldPending' \in BOOLEAN
          /\ termByte' \in BOOLEAN
      BY <1>11, <2>1, Zenon DEF HandleSigUsr1, KillBoosters, TypeInv, TypeOK
    <2>3. pst' \in [Pids -> ProcStates]
      BY <2>1 DEF KillBoosters, TypeInv, TypeOK, ProcStates
    <2>4. how' \in [Pids -> {"none", "exit"} \cup Signals]
      BY <1>0, <2>1 DEF KillBoosters, TypeInv, TypeOK
    <2>5. usr1Bytes' \in Nat
      BY <2>1 DEF TypeInv, TypeOK, SnapOK
    <2>6. TypeOK'
      BY <2>1, <2>2, <2>3, <2>4, <2>5 DEF TypeInv, TypeOK
    <2>7. SnapOK'
      BY <2>1 DEF TypeInv, SnapOK
    <2> QED
      BY <2>6, <2>7 DEF TypeInv
  <1>12. CASE SigChldHandler
    <2>1. /\ chldBytes' = chldBytes + 1
          /\ UNCHANGED <<daemonVars, procVars, boosterPipe, termByte, usr1Bytes,
                         envVars>>
      BY <1>12, Zenon DEF SigChldHandler
    <2>2. chldPending' \in BOOLEAN
      BY <1>12, Zenon DEF SigChldHandler
    <2>3. TypeOK'
      BY <2>1, <2>2 DEF TypeInv, TypeOK, daemonVars, procVars, envVars
    <2>4. SnapOK'
      BY <2>1 DEF TypeInv, TypeOK, SnapOK, daemonVars
    <2> QED
      BY <2>3, <2>4 DEF TypeInv
  <1> QED
    BY <1>1, <1>2, <1>3, <1>4, <1>5, <1>6, <1>7, <1>8, <1>9, <1>10, <1>11, <1>12
    DEF Daemon

\* The end of a child leaves the process table well typed.
LEMMA EndType ==
    ASSUME TypeOK, NEW p \in Pids, NEW h \in {"exit"} \cup Signals, End(p, h)
    PROVE  /\ pst' \in [Pids -> ProcStates]
           /\ how' \in [Pids -> {"none", "exit"} \cup Signals]
           /\ chldPending' \in BOOLEAN
  <1>1. how' \in [Pids -> {"none", "exit"} \cup Signals]
    BY DEF End, TypeOK
  <1>2. pst' \in [Pids -> ProcStates]
    BY DEF End, TypeOK, ProcStates
  <1>3. chldPending' \in BOOLEAN
    BY Zenon DEF End, TypeOK
  <1> QED
    BY <1>1, <1>2, <1>3

\* A process that only moves on from one state to another keeps TypeInv.
LEMMA GotoType ==
    ASSUME TypeInv, NEW p \in Pids, NEW from, NEW to \in ProcStates,
           Goto(p, from, to),
           UNCHANGED <<daemonVars, nextPid, ptype, pboot, pinv, how, pipeVars, envVars>>
    PROVE  TypeInv'
  <1>1. pst' \in [Pids -> ProcStates]
    BY DEF Goto, TypeInv, TypeOK
  <1>2. TypeOK'
    BY <1>1 DEF TypeInv, TypeOK, daemonVars, pipeVars, envVars
  <1>3. SnapOK'
    BY DEF TypeInv, SnapOK, daemonVars, pipeVars
  <1> QED
    BY <1>2, <1>3 DEF TypeInv

\* A process that ends by itself keeps TypeInv.
LEMMA ExitType ==
    ASSUME TypeInv, NEW p \in Pids, End(p, "exit"),
           UNCHANGED <<daemonVars, nextPid, ptype, pboot, pinv, boosterPipe,
                       chldBytes, termByte, usr1Bytes, envVars>>
    PROVE  TypeInv'
  <1>1. /\ pst' \in [Pids -> ProcStates]
        /\ how' \in [Pids -> {"none", "exit"} \cup Signals]
        /\ chldPending' \in BOOLEAN
    BY EndType DEF TypeInv
  <1>2. TypeOK'
    BY <1>1 DEF TypeInv, TypeOK, daemonVars, envVars
  <1>3. SnapOK'
    BY DEF TypeInv, SnapOK, daemonVars
  <1> QED
    BY <1>2, <1>3 DEF TypeInv

\* One write of sendDataToParent keeps TypeInv.
LEMMA WriteType ==
    ASSUME TypeInv, NEW p \in Pids, NEW from, NEW to \in ProcStates,
           NEW bytes \in Seq(Bytes), Write(p, from, to, bytes)
    PROVE  TypeInv'
  <1>1. pst' \in [Pids -> ProcStates]
    BY DEF Write, TypeInv, TypeOK, ProcStates
  <1>2. boosterPipe' \in Seq(Bytes)
    <2>1. boosterPipe' = boosterPipe \/ boosterPipe' = boosterPipe \o bytes
      BY DEF Write
    <2>2. boosterPipe \in Seq(Bytes)
      BY DEF TypeInv, TypeOK
    <2>3. boosterPipe \o bytes \in Seq(Bytes)
      BY <2>2
    <2> QED
      BY <2>1, <2>2, <2>3
  <1>3. boosterPipe # <<>> => boosterPipe' # <<>>
    <2>1. boosterPipe' = boosterPipe \/ boosterPipe' = boosterPipe \o bytes
      BY DEF Write
    <2>2. boosterPipe \in Seq(Bytes)
      BY DEF TypeInv, TypeOK
    <2>3. boosterPipe # <<>> => Len(boosterPipe) > 0
      BY <2>2
    <2>4. Len(boosterPipe \o bytes) = Len(boosterPipe) + Len(bytes)
      BY <2>2
    <2> QED
      BY <2>1, <2>2, <2>3, <2>4
  <1>4. TypeOK'
    BY <1>1, <1>2 DEF Write, TypeInv, TypeOK, daemonVars, envVars
  <1>5. SnapOK'
    BY <1>3 DEF Write, TypeInv, SnapOK, daemonVars
  <1> QED
    BY <1>4, <1>5 DEF TypeInv

\* The steps of a booster preserve TypeInv.
LEMMA BoosterTyping == ASSUME TypeInv, NEW p \in Pids, Booster(p) PROVE TypeInv'
  <1>0. /\ Alive \subseteq ProcStates
        /\ {"default", "init", "waiting", "sendType", "sendPid", "sendDelay",
            "sent", "app"} \subseteq Alive
    BY DEF ProcStates, Alive, Unreported, Reporting
  <1>1. CASE ResetHandlers(p)
    BY <1>0, <1>1, GotoType DEF ResetHandlers
  <1>2. CASE SetPdeathsig(p)
    BY <1>0, <1>2, GotoType DEF SetPdeathsig
  <1>3. CASE StartWaiting(p)
    BY <1>0, <1>3, GotoType DEF StartWaiting
  <1>4. CASE UnknownType(p)
    BY <1>4, ExitType DEF UnknownType
  <1>5. CASE Served(p)
    BY <1>0, <1>5, GotoType DEF Served
  <1>6. CASE SendType(p)
    <2>1. <<[kind |-> "type", val |-> ptype[p], idx |-> 1]>> \in Seq(Bytes)
      BY DEF Bytes, TypeInv, TypeOK
    <2> QED
      BY <1>0, <1>6, <2>1, WriteType DEF SendType
  <1>7. CASE SendPid(p)
    <2>1. InvokersPid(p) \in PidWords
      BY DEF InvokersPid, PidWords, TypeInv, TypeOK
    <2> QED
      BY <1>0, <1>7, <2>1, WordType, WriteType DEF SendPid
  <1>8. CASE SendDelay(p)
    <2>1. NoInvoker \in PidWords
      BY DEF PidWords
    <2> QED
      BY <1>0, <1>8, <2>1, WordType, WriteType DEF SendDelay
  <1>9. CASE BecomeApp(p)
    BY <1>0, <1>9, GotoType DEF BecomeApp
  <1> QED
    BY <1>1, <1>2, <1>3, <1>4, <1>5, <1>6, <1>7, <1>8, <1>9 DEF Booster

\* The environment's steps preserve TypeInv.
LEMMA EnvironmentTyping == TypeInv /\ Environment => TypeInv'
  <1> SUFFICES ASSUME TypeInv, Environment PROVE TypeInv'
    OBVIOUS
  <1>1. CASE SendUsr1
    <2>1. TypeOK'
      BY <1>1 DEF SendUsr1, TypeInv, TypeOK, daemonVars, procVars
    <2>2. SnapOK'
      BY <1>1 DEF SendUsr1, TypeInv, TypeOK, SnapOK, daemonVars
    <2> QED
      BY <2>1, <2>2 DEF TypeInv
  <1>2. CASE SendTerm
    <2>1. UNCHANGED <<daemonVars, procVars, boosterPipe, chldPending, chldBytes,
                      usr1Bytes, envVars>>
      BY <1>2, Zenon DEF SendTerm
    <2>2. termByte' \in BOOLEAN
      BY <1>2, Zenon DEF SendTerm
    <2>3. TypeOK'
      BY <2>1, <2>2 DEF TypeInv, TypeOK, daemonVars, procVars, envVars
    <2>4. SnapOK'
      BY <2>1 DEF TypeInv, SnapOK, daemonVars
    <2> QED
      BY <2>3, <2>4 DEF TypeInv
  <1>3. ASSUME NEW p \in Pids, ServeFails(p) PROVE TypeInv'
    BY <1>3, ExitType DEF ServeFails
  <1>4. ASSUME NEW p \in Pids, AppExits(p) PROVE TypeInv'
    BY <1>4, ExitType DEF AppExits
  <1>5. ASSUME NEW p \in Pids, NEW i \in Invokers, Accept(p, i) PROVE TypeInv'
    <2>1. pst' \in [Pids -> ProcStates]
      BY <1>5 DEF Accept, Goto, TypeInv, TypeOK, ProcStates, Alive, Unreported
    <2>2. TypeOK'
      BY <1>5, <2>1 DEF Accept, TypeInv, TypeOK, daemonVars, pipeVars, envVars
    <2>3. SnapOK'
      BY <1>5 DEF Accept, TypeInv, SnapOK, daemonVars, pipeVars
    <2> QED
      BY <2>2, <2>3 DEF TypeInv
  <1>6. ASSUME NEW p \in Pids, NEW s \in Signals, SignalChild(p, s) PROVE TypeInv'
    <2>1. /\ kills' = kills + 1
          /\ UNCHANGED <<daemonVars, nextPid, ptype, pboot, pinv, boosterPipe,
                         chldBytes, usr1Bytes, usr1Sent>>
          /\ \/ termByte' = TRUE /\ UNCHANGED <<pst, how, chldPending>>
             \/ End(p, s) /\ UNCHANGED termByte
      BY <1>6, Zenon DEF SignalChild
    <2>2. /\ pst' \in [Pids -> ProcStates]
          /\ how' \in [Pids -> {"none", "exit"} \cup Signals]
      BY <2>1, EndType DEF TypeInv, TypeOK
    <2>3. chldPending' \in BOOLEAN /\ termByte' \in BOOLEAN
      <3>1. CASE termByte' = TRUE /\ UNCHANGED <<pst, how, chldPending>>
        BY <3>1, Zenon DEF TypeInv, TypeOK
      <3>2. CASE End(p, s) /\ UNCHANGED termByte
        BY <3>2, EndType DEF TypeInv, TypeOK
      <3> QED
        BY <2>1, <3>1, <3>2
    <2>4. TypeOK'
      BY <2>1, <2>2, <2>3 DEF TypeInv, TypeOK, daemonVars
    <2>5. SnapOK'
      BY <2>1 DEF TypeInv, SnapOK, daemonVars
    <2> QED
      BY <2>4, <2>5 DEF TypeInv
  <1> QED
    BY <1>1, <1>2, <1>3, <1>4, <1>5, <1>6 DEF Environment

\* The initial state is well typed and has an empty snapshot.
LEMMA TypingInit == Init => TypeInv
  <1> SUFFICES ASSUME Init PROVE TypeInv
    OBVIOUS
  <1>0. MaxPid \in Nat /\ BootMode \in BOOLEAN
    BY LauncherAssumption
  <1>1. /\ chldPending \in BOOLEAN /\ termByte \in BOOLEAN
        /\ m_bootMode \in BOOLEAN /\ pboot \in [Pids -> BOOLEAN]
    BY <1>0, Zenon DEF Init
  <1>2. <<>> \in Seq(Bytes)
    OBVIOUS
  <1>3. TypeOK
    BY <1>0, <1>1, <1>2 DEF Init, TypeOK, DaemonPCs, Chars, PidWords, ProcStates
  <1>4. SnapOK
    BY DEF Init, SnapOK
  <1> QED
    BY <1>3, <1>4 DEF TypeInv

\* Every step of daemon, processes and environment preserves TypeInv.
LEMMA TypingStep == TypeInv /\ [Next]_vars => TypeInv'
  <1> SUFFICES ASSUME TypeInv, [Next]_vars PROVE TypeInv'
    OBVIOUS
  <1>1. CASE UNCHANGED vars
    <2>1. TypeOK'
      BY <1>1 DEF TypeInv, TypeOK, vars, daemonVars, procVars, pipeVars, envVars
    <2>2. SnapOK'
      BY <1>1 DEF TypeInv, SnapOK, vars, daemonVars, pipeVars
    <2> QED
      BY <2>1, <2>2 DEF TypeInv
  <1>2. CASE Next
    BY <1>2, DaemonTyping, BoosterTyping, EnvironmentTyping DEF Next
  <1> QED
    BY <1>1, <1>2

\* Every reachable state is well typed: in particular the counters of the
\* signal pipes never go below zero and a word read out of step never puts a
\* value into a table that has no place for it.
THEOREM Typing == Spec => []TypeOK
  <1>1. TypeInv => TypeOK
    BY DEF TypeInv
  <1> QED
    BY <1>1, TypingInit, TypingStep, PTL DEF Spec

-----------------------------------------------------------------------------
(* The daemon's tables                                                     *)

\* Pids are given out in increasing order.
PidOK == \A p \in Pids : p >= nextPid <=> pst[p] = "none"

\* m_children holds exactly the children waitpid() has not returned yet.
ChildrenOK ==
    dpc # "exited" =>
        \A p \in Pids : p \in m_children <=> pst[p] \notin {"none", "gone"}

\* An entry of m_boosterTypeToPid is a process forked for that letter and,
\* unless the letter is NUL, one that has not been reaped.
SlotOK ==
    \A c \in Chars : m_boosterTypeToPid[c] # 0 =>
        /\ m_boosterTypeToPid[c] < nextPid
        /\ ptype[m_boosterTypeToPid[c]] = c
        /\ c # Nul /\ dpc # "exited" => m_boosterTypeToPid[c] \in m_children

\* Once the daemon is in its main loop every plugin's letter has an entry.
FilledOK ==
    dpc \notin {"start", "exited"} =>
        \A t \in Types : m_boosterTypeToPid[t] # 0

Book == PidOK /\ ChildrenOK /\ SlotOK /\ FilledOK /\ NoStalePair

\* forkBooster keeps the tables in order, given that they are in order apart
\* from the entry of the letter that is forked for.
LEMMA ForkBook ==
    ASSUME TypeInv, Book,
           NEW c \in Chars, NEW st \in [Pids -> ProcStates],
           NEW kids \in SUBSET Pids, NEW pc \in {"start", "loop", "reap"},
           \A p \in Pids : p >= nextPid <=> st[p] = "none",
           \A p \in Pids : p \in kids <=> st[p] \notin {"none", "gone"},
           \A d \in Chars \ {Nul, c} :
               m_boosterTypeToPid[d] # 0 => m_boosterTypeToPid[d] \in kids,
           \A p \in Pids : m_boosterPidToInvokerPid'[p] # NoInvoker =>
               p \in kids \/ ptype[p] = Nul,
           pc = "start" \/ \A t \in Types : m_boosterTypeToPid[t] # 0,
           ForkBooster(c, st, kids, pc)
    PROVE  Book'
  <1>0. /\ MaxPid \in Nat /\ Types \subseteq Chars /\ Nul \notin Types
        /\ nextPid \in 1..(MaxPid + 1)
        /\ m_boosterTypeToPid \in [Chars -> 0..MaxPid]
        /\ ptype \in [Pids -> Chars]
    BY LauncherAssumption DEF Chars, TypeInv, TypeOK
  <1>1. CASE nextPid <= MaxPid
    <2>1. /\ m_children' = kids \cup {nextPid}
          /\ m_boosterTypeToPid' = [m_boosterTypeToPid EXCEPT ![c] = nextPid]
          /\ pst'   = [st EXCEPT ![nextPid] = "forked"]
          /\ ptype' = [ptype EXCEPT ![nextPid] = c]
          /\ nextPid' = nextPid + 1
          /\ dpc' = pc
          /\ nextPid \in Pids
      BY <1>0, <1>1 DEF ForkBooster, Pids
    <2>2. PidOK'
      BY <1>0, <2>1 DEF PidOK, Pids
    <2>3. ChildrenOK'
      BY <1>0, <2>1 DEF ChildrenOK, Pids
    <2>4. SlotOK'
      <3> SUFFICES ASSUME NEW d \in Chars, m_boosterTypeToPid'[d] # 0
                   PROVE  /\ m_boosterTypeToPid'[d] < nextPid'
                          /\ ptype'[m_boosterTypeToPid'[d]] = d
                          /\ d # Nul => m_boosterTypeToPid'[d] \in m_children'
        BY DEF SlotOK
      <3>1. CASE d = c
        BY <1>0, <2>1, <3>1
      <3>2. CASE d # c
        <4>1. m_boosterTypeToPid'[d] = m_boosterTypeToPid[d]
          BY <1>0, <2>1, <3>2
        <4>2. /\ m_boosterTypeToPid[d] < nextPid
              /\ ptype[m_boosterTypeToPid[d]] = d
              /\ m_boosterTypeToPid[d] \in Pids
          BY <1>0, <4>1 DEF Book, SlotOK, Pids
        <4> QED
          BY <1>0, <2>1, <3>2, <4>1, <4>2 DEF Pids
      <3> QED
        BY <3>1, <3>2
    <2>5. FilledOK'
      BY <1>0, <2>1 DEF FilledOK, Pids
    <2>6. NoStalePair'
      BY <1>0, <2>1 DEF NoStalePair, Pids
    <2> QED
      BY <2>2, <2>3, <2>4, <2>5, <2>6 DEF Book
  <1>2. CASE ~(nextPid <= MaxPid)
    <2>1. /\ m_children' = kids
          /\ m_boosterTypeToPid' = [m_boosterTypeToPid EXCEPT ![c] = 0]
          /\ pst' = AfterDaemonEnd(st)
          /\ dpc' = "exited"
          /\ UNCHANGED <<ptype, nextPid>>
      BY <1>2 DEF ForkBooster
    <2>2. PidOK'
      BY <2>1 DEF PidOK, AfterDaemonEnd, DiesWithDaemon
    <2>3. SlotOK'
      BY <1>0, <2>1 DEF Book, SlotOK
    <2>4. ChildrenOK' /\ FilledOK'
      BY <2>1 DEF ChildrenOK, FilledOK
    <2>5. NoStalePair'
      BY <2>1 DEF NoStalePair
    <2> QED
      BY <2>2, <2>3, <2>4, <2>5 DEF Book
  <1> QED
    BY <1>1, <1>2

\* What a step does that moves processes between live states, or ends them,
\* without touching the daemon's tables.
TablesKept ==
    /\ UNCHANGED <<m_children, m_boosterTypeToPid, m_boosterPidToInvokerPid,
                   nextPid, ptype>>
    /\ \/ dpc' = dpc
       \/ dpc' = "exited"
       \/ dpc \notin {"start", "exited"} /\ dpc' \notin {"start", "exited"}
    /\ \A p \in Pids : pst'[p] = "none" <=> pst[p] = "none"
    /\ dpc' # "exited" => \A p \in Pids : pst'[p] = "gone" <=> pst[p] = "gone"

\* A step that leaves the daemon's tables alone and reaps nobody keeps them in
\* order.
LEMMA MoveBook == Book /\ TablesKept => Book'
  <1> SUFFICES ASSUME Book, TablesKept PROVE Book'
    OBVIOUS
  <1>1. PidOK'
    BY DEF Book, PidOK, TablesKept
  <1>2. ChildrenOK'
    BY DEF Book, ChildrenOK, TablesKept
  <1>3. SlotOK'
    BY DEF Book, SlotOK, TablesKept
  <1>4. FilledOK'
    BY DEF Book, FilledOK, TablesKept
  <1>5. NoStalePair'
    BY DEF Book, NoStalePair, TablesKept
  <1> QED
    BY <1>1, <1>2, <1>3, <1>4, <1>5 DEF Book

\* Before forkBoosters() the tables are empty, hence in order.
LEMMA BookInit == Init => Book
  BY LauncherAssumption
  DEF Init, Book, PidOK, ChildrenOK, SlotOK, FilledOK, NoStalePair, Pids

\* Every daemon action keeps the tables in order.
LEMMA DaemonBook == TypeInv /\ TypeInv' /\ Book /\ (Daemon \/ SigChldHandler) => Book'
  <1> SUFFICES ASSUME TypeInv, TypeInv', Book, Daemon \/ SigChldHandler
               PROVE  Book'
    OBVIOUS
  <1>0. /\ MaxPid \in Nat /\ Types \subseteq Chars /\ Nul \notin Types
        /\ pst \in [Pids -> ProcStates] /\ pst' \in [Pids -> ProcStates]
        /\ m_boosterTypeToPid \in [Chars -> 0..MaxPid]
        /\ m_children \in SUBSET Pids
    BY LauncherAssumption DEF Chars, TypeInv, TypeOK
  <1>1. CASE ForkBoosters
    <2>1. CASE \A t \in Types : m_boosterTypeToPid[t] # 0
      <3>1. /\ dpc = "start" /\ dpc' = "loop"
            /\ UNCHANGED <<m_children, m_boosterTypeToPid,
                           m_boosterPidToInvokerPid, nextPid, pst, ptype>>
        BY <1>1, <2>1 DEF ForkBoosters, procVars
      <3> QED
        BY <2>1, <3>1 DEF Book, PidOK, ChildrenOK, SlotOK, FilledOK, NoStalePair
    <2>2. CASE \E t \in Types : m_boosterTypeToPid[t] = 0
      <3>1. PICK t \in Types : ForkBooster(t, pst, m_children, "start")
        BY <1>1, <2>2 DEF ForkBoosters
      <3>2. /\ dpc = "start"
            /\ UNCHANGED m_boosterPidToInvokerPid
        BY <1>1, <2>2 DEF ForkBoosters
      <3> QED
        BY <1>0, <3>1, <3>2, ForkBook
        DEF Book, PidOK, ChildrenOK, SlotOK, NoStalePair
    <2> QED
      BY <2>1, <2>2
  <1>2. CASE Select
    BY <1>2, MoveBook DEF Select, procVars, TablesKept
  <1>3. CASE ReadType
    BY <1>3, MoveBook DEF ReadType, procVars, TablesKept
  <1>4. CASE ShortRead
    <2>1. \A p \in Pids : pst'[p] = "none" <=> pst[p] = "none"
      BY <1>4 DEF ShortRead, DaemonEnds, AfterDaemonEnd, DiesWithDaemon
    <2> QED
      BY <1>4, <2>1, MoveBook DEF ShortRead, DaemonEnds, TablesKept
  <1>5. CASE ReadPid
    <2>1. /\ dpc = "readPid" /\ dpc' = "readDelay"
          /\ UNCHANGED <<m_children, m_boosterTypeToPid, nextPid, pst, ptype>>
      BY <1>5 DEF ReadPid, procVars
    <2>2. PidOK' /\ ChildrenOK' /\ SlotOK' /\ FilledOK'
      BY <2>1 DEF Book, PidOK, ChildrenOK, SlotOK, FilledOK
    <2>3. NoStalePair'
      <3>1. CASE UNCHANGED m_boosterPidToInvokerPid
        BY <2>1, <3>1 DEF Book, NoStalePair
      <3>2. CASE /\ m_boosterTypeToPid[msgType] # 0
                 /\ m_boosterPidToInvokerPid' =
                      [m_boosterPidToInvokerPid EXCEPT
                         ![m_boosterTypeToPid[msgType]] = msgPid']
        <4>1. \/ m_boosterTypeToPid[msgType] \in m_children
              \/ ptype[m_boosterTypeToPid[msgType]] = Nul
          BY <2>1, <3>2 DEF Book, SlotOK, TypeInv, TypeOK
        <4> QED
          BY <2>1, <3>2, <4>1 DEF Book, NoStalePair, TypeInv, TypeOK
      <3> QED
        BY <1>5, <3>1, <3>2 DEF ReadPid
    <2> QED
      BY <2>2, <2>3 DEF Book
  <1>6. CASE ReadDelayAndFork
    <2>1. /\ ForkBooster(msgType, pst, m_children, "loop")
          /\ dpc = "readDelay"
          /\ UNCHANGED m_boosterPidToInvokerPid
          /\ msgType \in Chars
      BY <1>6 DEF ReadDelayAndFork, TypeInv, TypeOK
    <2> QED
      BY <1>0, <2>1, ForkBook DEF Book, PidOK, ChildrenOK, SlotOK, FilledOK, NoStalePair
  <1>7. CASE ReadSigChld
    BY <1>7, MoveBook DEF ReadSigChld, procVars, TablesKept
  <1>8. CASE ReapStep
    <2>1. PICK p \in Unvisited : cursor' = p /\ (ReapSkip(p) \/ ReapZombie(p))
      BY <1>8 DEF ReapStep
    <2>2. p \in Pids /\ p \in m_children /\ dpc = "reap"
      BY <1>8, <2>1 DEF ReapStep, Unvisited, TypeInv, TypeOK
    <2>3. CASE ReapSkip(p)
      BY <2>3, MoveBook DEF ReapSkip, TablesKept
    <2>4. CASE ReapZombie(p)
      <3> DEFINE st   == [pst EXCEPT ![p] = "gone"]
                 kids == m_children \ {p}
      <3>1. /\ st \in [Pids -> ProcStates] /\ kids \in SUBSET Pids
            /\ pst[p] = "zombie"
            /\ m_boosterPidToInvokerPid' =
                 [m_boosterPidToInvokerPid EXCEPT ![p] = NoInvoker]
        BY <1>0, <2>4 DEF ReapZombie, ProcStates
      <3>2. \A q \in Pids : q >= nextPid <=> st[q] = "none"
        BY <1>0, <2>2, <3>1 DEF Book, PidOK
      <3>3. \A q \in Pids : q \in kids <=> st[q] \notin {"none", "gone"}
        BY <1>0, <2>2, <3>1 DEF Book, ChildrenOK
      <3>4. \A q \in Pids : m_boosterPidToInvokerPid'[q] # NoInvoker =>
               q \in kids \/ ptype[q] = Nul
        BY <2>2, <3>1 DEF Book, NoStalePair, TypeInv, TypeOK
      <3>5. \A t \in Types : m_boosterTypeToPid[t] # 0
        BY <2>2 DEF Book, FilledOK
      <3>6. CASE \E c \in Chars \ {Nul} : m_boosterTypeToPid[c] = p
        <4>1. PICK c \in Chars \ {Nul} :
                 m_boosterTypeToPid[c] = p /\ ForkBooster(c, st, kids, "reap")
          BY <2>4, <3>6 DEF ReapZombie
        <4>2. \A d \in Chars \ {Nul, c} :
                 m_boosterTypeToPid[d] # 0 => m_boosterTypeToPid[d] \in kids
          BY <2>2, <4>1 DEF Book, SlotOK
        <4> HIDE DEF st, kids
        <4> QED
          BY <3>1, <3>2, <3>3, <3>4, <3>5, <4>1, <4>2, ForkBook
      <3>7. CASE \A c \in Chars \ {Nul} : m_boosterTypeToPid[c] # p
        <4>1. /\ m_children' = kids /\ pst' = st
              /\ UNCHANGED <<dpc, m_boosterTypeToPid, nextPid, ptype>>
          BY <2>4, <3>7 DEF ReapZombie
        <4>2. PidOK' /\ ChildrenOK' /\ NoStalePair'
          BY <3>2, <3>3, <3>4, <4>1 DEF PidOK, ChildrenOK, NoStalePair
        <4>3. SlotOK'
          BY <3>7, <4>1 DEF Book, SlotOK
        <4>4. FilledOK'
          BY <3>5, <4>1 DEF FilledOK
        <4> QED
          BY <4>2, <4>3, <4>4 DEF Book
      <3> QED
        BY <3>6, <3>7
    <2> QED
      BY <2>1, <2>3, <2>4
  <1>9. CASE ReapDone
    BY <1>9, MoveBook DEF ReapDone, procVars, TablesKept
  <1>10. CASE HandleSigTerm
    <2>1. \A p \in Pids : pst'[p] = "none" <=> pst[p] = "none"
      BY <1>10 DEF HandleSigTerm, DaemonEnds, AfterDaemonEnd, DiesWithDaemon
    <2> QED
      BY <1>10, <2>1, MoveBook DEF HandleSigTerm, DaemonEnds, TablesKept
  <1>11. CASE HandleSigUsr1
    <2>1. /\ KillBoosters \/ UNCHANGED pst
          /\ UNCHANGED <<dpc, m_children, m_boosterTypeToPid,
                         m_boosterPidToInvokerPid, nextPid, ptype>>
      BY <1>11, Zenon DEF HandleSigUsr1
    <2>2. \A p \in Pids : pst'[p] # pst[p] =>
             pst'[p] = "zombie" /\ pst[p] \in Alive
      BY <2>1 DEF KillBoosters
    <2>3. "none" \notin Alive /\ "gone" \notin Alive
      BY DEF Alive, Unreported, Reporting
    <2> QED
      BY <2>1, <2>2, <2>3, MoveBook DEF TablesKept
  <1>12. CASE SigChldHandler
    <2>1. UNCHANGED <<daemonVars, procVars>>
      BY <1>12, Zenon DEF SigChldHandler
    <2> QED
      BY <2>1, MoveBook DEF daemonVars, procVars, TablesKept
  <1> QED
    BY <1>1, <1>2, <1>3, <1>4, <1>5, <1>6, <1>7, <1>8, <1>9, <1>10, <1>11, <1>12
    DEF Daemon

\* No step of a process touches the daemon's tables.
LEMMA ProcessKeepsTables ==
    ASSUME TypeInv, NEW p \in Pids,
           \/ Booster(p) \/ ServeFails(p) \/ AppExits(p)
           \/ \E i \in Invokers : Accept(p, i)
           \/ \E s \in Signals : SignalChild(p, s)
    PROVE  TablesKept
  <1>0. /\ pst \in [Pids -> ProcStates]
        /\ KillAt \subseteq Alive
        /\ "none" \notin Alive /\ "gone" \notin Alive
    BY LauncherAssumption DEF TypeInv, TypeOK, Alive, Unreported, Reporting
  <1>1. ASSUME NEW h, End(p, h), pst[p] \in Alive,
               UNCHANGED <<daemonVars, nextPid, ptype>>
        PROVE  TablesKept
    BY <1>0, <1>1 DEF End, TablesKept, daemonVars
  <1>2. ASSUME NEW from \in Alive, NEW to \in Alive, Goto(p, from, to),
               UNCHANGED <<daemonVars, nextPid, ptype>>
        PROVE  TablesKept
    BY <1>0, <1>2 DEF Goto, TablesKept, daemonVars
  <1>3. ASSUME NEW from \in Alive, NEW to \in Alive, NEW b, Write(p, from, to, b)
        PROVE  TablesKept
    BY <1>0, <1>3 DEF Write, TablesKept, daemonVars
  <1>4. {"forked", "default", "init", "waiting", "serving", "sendType", "sendPid",
         "sendDelay", "sent", "app"} \subseteq Alive
    BY DEF Alive, Unreported, Reporting
  <1>5. CASE ResetHandlers(p)
    BY <1>2, <1>4, <1>5 DEF ResetHandlers
  <1>6. CASE SetPdeathsig(p)
    BY <1>2, <1>4, <1>6 DEF SetPdeathsig
  <1>7. CASE StartWaiting(p)
    BY <1>2, <1>4, <1>7 DEF StartWaiting
  <1>8. CASE UnknownType(p)
    BY <1>1, <1>4, <1>8 DEF UnknownType
  <1>9. CASE Served(p)
    BY <1>2, <1>4, <1>9 DEF Served
  <1>10. CASE SendType(p) \/ SendPid(p) \/ SendDelay(p)
    BY <1>3, <1>4, <1>10 DEF SendType, SendPid, SendDelay
  <1>11. CASE BecomeApp(p)
    BY <1>2, <1>4, <1>11 DEF BecomeApp
  <1>12. CASE ServeFails(p)
    BY <1>1, <1>4, <1>12 DEF ServeFails
  <1>13. CASE AppExits(p)
    BY <1>1, <1>4, <1>13 DEF AppExits
  <1>14. CASE \E i \in Invokers : Accept(p, i)
    BY <1>2, <1>4, <1>14 DEF Accept
  <1>15. CASE \E s \in Signals : SignalChild(p, s)
    <2>1. PICK s \in Signals : SignalChild(p, s)
      BY <1>15
    <2>2. /\ pst[p] \in Alive
          /\ UNCHANGED <<daemonVars, nextPid, ptype>>
          /\ UNCHANGED pst \/ End(p, s)
      BY <1>0, <2>1, Zenon DEF SignalChild
    <2>3. CASE UNCHANGED pst
      BY <2>2, <2>3 DEF TablesKept, daemonVars
    <2> QED
      BY <1>1, <2>2, <2>3
  <1> QED
    BY <1>5, <1>6, <1>7, <1>8, <1>9, <1>10, <1>11, <1>12, <1>13, <1>14, <1>15
    DEF Booster

\* Every step keeps the daemon's tables in order.
LEMMA BookStep == TypeInv /\ TypeInv' /\ Book /\ [Next]_vars => Book'
  <1> SUFFICES ASSUME TypeInv, TypeInv', Book, [Next]_vars PROVE Book'
    OBVIOUS
  <1>1. CASE Daemon \/ SigChldHandler
    BY <1>1, DaemonBook
  <1>2. CASE \E p \in Pids : Booster(p)
    BY <1>2, ProcessKeepsTables, MoveBook
  <1>3. CASE Environment
    <2>1. CASE SendUsr1 \/ SendTerm
      <3>1. UNCHANGED <<daemonVars, procVars>>
        BY <2>1, Zenon DEF SendUsr1, SendTerm
      <3> QED
        BY <3>1, MoveBook DEF daemonVars, procVars, TablesKept
    <2> QED
      BY <1>3, <2>1, ProcessKeepsTables, MoveBook DEF Environment
  <1>4. CASE UNCHANGED vars
    <2>1. UNCHANGED <<daemonVars, procVars>>
      BY <1>4 DEF vars
    <2> QED
      BY <2>1, MoveBook DEF daemonVars, procVars, TablesKept
  <1> QED
    BY <1>1, <1>2, <1>3, <1>4 DEF Next

\* In every reachable state of the main loop each booster type has a current
\* process that the daemon forked for it and has not reaped.
THEOREM NoTypeIsLost == Spec => []BoosterOfEveryType
  <1>1. TypeInv /\ Book => BoosterOfEveryType
    BY LauncherAssumption
    DEF TypeInv, TypeOK, Book, SlotOK, FilledOK, BoosterOfEveryType, Chars
  <1> QED
    BY <1>1, TypingInit, TypingStep, BookInit, BookStep, PTL DEF Spec

\* In every reachable state the pairs kept for forwarding signals belong to
\* children that have not been reaped.
THEOREM PairsAreFresh == Spec => []NoStalePair
  <1>1. Book => NoStalePair
    BY DEF Book
  <1> QED
    BY <1>1, TypingInit, TypingStep, BookInit, BookStep, PTL DEF Spec

-----------------------------------------------------------------------------
(* No wake-up is lost                                                      *)

\* The daemon's attention is called to an ended child p.
Announced(p) == chldPending \/ chldBytes > 0 \/ (dpc = "reap" /\ p > cursor)

\* What a step does that neither ends a child nor consumes an announcement.
NoNewZombie ==
    /\ UNCHANGED <<chldPending, chldBytes>>
    /\ dpc = "reap" => dpc' = "exited" \/ UNCHANGED <<dpc, cursor>>
    /\ dpc = "exited" => dpc' = "exited"
    /\ dpc' # "exited" =>
         \A p \in Pids : pst'[p] = "zombie" => pst[p] = "zombie"

\* A step that makes no zombie and consumes no announcement overlooks none.
LEMMA QuietStep == NoForgottenZombie /\ NoNewZombie => NoForgottenZombie'
  <1> SUFFICES ASSUME NoForgottenZombie, NoNewZombie, dpc' # "exited",
                      NEW p \in Pids, pst'[p] = "zombie"
               PROVE  Announced(p)'
    BY Zenon DEF NoForgottenZombie, Announced
  <1>1. dpc # "exited" /\ pst[p] = "zombie"
    BY Zenon DEF NoNewZombie
  <1>2. Announced(p)
    BY <1>1, Zenon DEF NoForgottenZombie, Announced
  <1>3. /\ chldPending' = chldPending /\ chldBytes' = chldBytes
        /\ dpc = "reap" => dpc' = dpc /\ cursor' = cursor
    BY DEF NoNewZombie
  <1> QED
    BY <1>2, <1>3, Zenon DEF Announced

\* A fork makes no zombie.
LEMMA ForkMakesNoZombie ==
    ASSUME TypeInv, NEW c \in Chars, NEW st \in [Pids -> ProcStates], NEW kids,
           NEW pc, ForkBooster(c, st, kids, pc)
    PROVE  /\ dpc' \in {pc, "exited"}
           /\ dpc' # "exited" =>
                \A p \in Pids : pst'[p] = "zombie" => st[p] = "zombie"
  BY DEF ForkBooster

\* A child that ends is announced by SIGCHLD.
LEMMA EndAnnounced ==
    ASSUME NoForgottenZombie, NEW p \in Pids, NEW h, End(p, h), UNCHANGED dpc
    PROVE  NoForgottenZombie'
  BY Zenon DEF End, NoForgottenZombie

\* No step of the daemon, and no run of its SIGCHLD handler, overlooks a child
\* that ended: the byte is read before the pass over m_children, not after it.
LEMMA DaemonAnnounces ==
    TypeInv /\ Book /\ NoForgottenZombie /\ (Daemon \/ SigChldHandler)
      => NoForgottenZombie'
  <1> SUFFICES ASSUME TypeInv, Book, NoForgottenZombie, Daemon \/ SigChldHandler
               PROVE  NoForgottenZombie'
    OBVIOUS
  <1>0. /\ pst \in [Pids -> ProcStates] /\ Types \subseteq Chars
        /\ \A p \in Pids : p \in Nat /\ p > 0
        /\ m_children \subseteq Pids /\ cursor \in Nat /\ chldBytes \in Nat
    BY DEF TypeInv, TypeOK, Chars, Pids
  <1>1. CASE ForkBoosters
    <2>1. CASE \A t \in Types : m_boosterTypeToPid[t] # 0
      BY <1>1, <2>1, QuietStep DEF ForkBoosters, NoNewZombie, procVars, pipeVars
    <2>2. CASE \E t \in Types : m_boosterTypeToPid[t] = 0
      <3>1. PICK t \in Types : ForkBooster(t, pst, m_children, "start")
        BY <1>1, <2>2 DEF ForkBoosters
      <3>2. dpc = "start" /\ UNCHANGED <<chldPending, chldBytes>>
        BY <1>1 DEF ForkBoosters, pipeVars
      <3> QED
        BY <1>0, <3>1, <3>2, ForkMakesNoZombie, QuietStep DEF NoNewZombie
    <2> QED
      BY <2>1, <2>2
  <1>2. CASE Select
    BY <1>2, QuietStep DEF Select, NoNewZombie, procVars, pipeVars
  <1>3. CASE ReadType
    BY <1>3, QuietStep DEF ReadType, NoNewZombie, procVars
  <1>4. CASE ShortRead
    BY <1>4 DEF ShortRead, DaemonEnds, NoForgottenZombie
  <1>5. CASE ReadPid
    BY <1>5, QuietStep DEF ReadPid, NoNewZombie, procVars
  <1>6. CASE ReadDelayAndFork
    <2>1. /\ ForkBooster(msgType, pst, m_children, "loop") /\ dpc = "readDelay"
          /\ UNCHANGED <<chldPending, chldBytes>> /\ msgType \in Chars
      BY <1>6 DEF ReadDelayAndFork, TypeInv, TypeOK
    <2> QED
      BY <1>0, <2>1, ForkMakesNoZombie, QuietStep DEF NoNewZombie
  <1>7. CASE ReadSigChld
    <2>1. dpc' = "reap" /\ cursor' = 0
      BY <1>7 DEF ReadSigChld
    <2> QED
      BY <1>0, <2>1 DEF NoForgottenZombie
  <1>8. CASE ReapStep
    <2>1. PICK p \in Unvisited : /\ \A q \in Unvisited : p <= q
                                 /\ cursor' = p
                                 /\ ReapSkip(p) \/ ReapZombie(p)
      BY <1>8 DEF ReapStep
    <2>2. p \in Pids /\ dpc = "reap"
      BY <1>0, <1>8, <2>1 DEF ReapStep, Unvisited
    <2>3. /\ dpc' \in {"reap", "exited"}
          /\ dpc' # "exited" => \A q \in Pids :
               pst'[q] = "zombie" => pst[q] = "zombie" /\ q # p
      <3>1. CASE ReapSkip(p)
        BY <2>2, <3>1 DEF ReapSkip
      <3>2. CASE ReapZombie(p)
        <4>1. CASE \E c \in Chars \ {Nul} : m_boosterTypeToPid[c] = p
          <5>1. PICK c \in Chars :
                 ForkBooster(c, [pst EXCEPT ![p] = "gone"], m_children \ {p}, "reap")
            BY <3>2, <4>1 DEF ReapZombie
          <5>2. [pst EXCEPT ![p] = "gone"] \in [Pids -> ProcStates]
            BY <1>0 DEF ProcStates
          <5> QED
            BY <1>0, <2>2, <5>1, <5>2, ForkMakesNoZombie
        <4>2. CASE \A c \in Chars \ {Nul} : m_boosterTypeToPid[c] # p
          BY <1>0, <2>2, <3>2, <4>2 DEF ReapZombie
        <4> QED
          BY <4>1, <4>2
      <3> QED
        BY <2>1, <3>1, <3>2
    <2>4. UNCHANGED <<chldPending, chldBytes>>
      BY <1>8 DEF ReapStep, pipeVars
    <2>5. ASSUME NEW q \in Pids, dpc' # "exited", pst'[q] = "zombie"
          PROVE  Announced(q)'
      <3>1. pst[q] = "zombie" /\ q # p
        BY <2>3, <2>5
      <3>2. Announced(q)
        BY <2>2, <3>1 DEF NoForgottenZombie, Announced
      <3>3. CASE chldPending \/ chldBytes > 0
        BY <2>4, <3>3, Zenon DEF Announced
      <3>4. CASE q > cursor
        <4>1. q \in Unvisited
          BY <2>2, <3>1, <3>4 DEF Unvisited, Book, ChildrenOK
        <4>2. q > p
          BY <1>0, <2>1, <2>2, <3>1, <4>1
        <4> QED
          BY <2>1, <2>3, <2>5, <4>2 DEF Announced
      <3> QED
        BY <3>2, <3>3, <3>4 DEF Announced
    <2> QED
      BY <2>5, Zenon DEF NoForgottenZombie, Announced
  <1>9. CASE ReapDone
    <2>1. /\ dpc = "reap" /\ Unvisited = {}
          /\ UNCHANGED <<chldPending, chldBytes, pst>>
      BY <1>9 DEF ReapDone, procVars, pipeVars
    <2>2. ASSUME NEW q \in Pids, pst[q] = "zombie"
          PROVE  chldPending \/ chldBytes > 0
      <3>1. q \in m_children
        BY <2>1, <2>2 DEF Book, ChildrenOK
      <3>2. ~(q > cursor)
        BY <2>1, <3>1 DEF Unvisited
      <3> QED
        BY <2>1, <2>2, <3>2, Zenon DEF NoForgottenZombie
    <2> QED
      BY <2>1, <2>2, Zenon DEF NoForgottenZombie
  <1>10. CASE HandleSigTerm
    BY <1>10 DEF HandleSigTerm, DaemonEnds, NoForgottenZombie
  <1>11. CASE HandleSigUsr1
    <2>1. /\ KillBoosters \/ UNCHANGED <<pst, chldPending>>
          /\ UNCHANGED <<dpc, cursor, chldBytes>> /\ dpc = "loop"
      BY <1>11, Zenon DEF HandleSigUsr1
    <2>2. CASE UNCHANGED <<pst, chldPending>>
      BY <2>1, <2>2, QuietStep DEF NoNewZombie
    <2>3. CASE KillBoosters
      <3>1. ASSUME NEW p \in Pids, pst'[p] = "zombie", pst[p] # "zombie"
            PROVE  chldPending'
        BY <2>3, <3>1 DEF KillBoosters
      <3>2. chldPending => chldPending'
        BY <2>3, Zenon DEF KillBoosters
      <3> QED
        BY <2>1, <3>1, <3>2, Zenon DEF NoForgottenZombie
    <2> QED
      BY <2>1, <2>2, <2>3
  <1>12. CASE SigChldHandler
    <2>1. chldBytes' = chldBytes + 1
      BY <1>12, Zenon DEF SigChldHandler
    <2>2. chldBytes' > 0
      BY <1>0, <2>1
    <2> QED
      BY <2>2 DEF NoForgottenZombie
  <1> QED
    BY <1>1, <1>2, <1>3, <1>4, <1>5, <1>6, <1>7, <1>8, <1>9, <1>10, <1>11, <1>12
    DEF Daemon

\* No step at all overlooks a child that ended.
LEMMA AnnounceStep ==
    TypeInv /\ Book /\ NoForgottenZombie /\ [Next]_vars => NoForgottenZombie'
  <1> SUFFICES ASSUME TypeInv, Book, NoForgottenZombie, [Next]_vars
               PROVE  NoForgottenZombie'
    OBVIOUS
  <1>0. pst \in [Pids -> ProcStates]
    BY DEF TypeInv, TypeOK
  <1>1. CASE Daemon \/ SigChldHandler
    BY <1>1, DaemonAnnounces
  <1>2. ASSUME NEW p \in Pids, NEW from, NEW to \in ProcStates \ {"zombie"},
               Goto(p, from, to) \/ (\E b : Write(p, from, to, b)),
               UNCHANGED <<daemonVars, chldPending, chldBytes>>
        PROVE  NoForgottenZombie'
    <2>1. \A q \in Pids : pst'[q] = "zombie" => pst[q] = "zombie"
      BY <1>0, <1>2 DEF Goto, Write
    <2> QED
      BY <1>2, <2>1, QuietStep DEF NoNewZombie, daemonVars
  <1>3. ASSUME NEW p \in Pids, NEW h, End(p, h), UNCHANGED daemonVars
        PROVE  NoForgottenZombie'
    BY <1>3, EndAnnounced DEF daemonVars
  <1>4. CASE \E p \in Pids : Booster(p)
    <2>1. PICK p \in Pids : Booster(p)
      BY <1>4
    <2>2. {"default", "init", "waiting", "sendType", "sendPid", "sendDelay",
           "sent", "app"} \subseteq ProcStates \ {"zombie"}
      BY DEF ProcStates, Alive, Unreported, Reporting
    <2>3. CASE UnknownType(p)
      BY <1>3, <2>3 DEF UnknownType
    <2>4. CASE SendType(p) \/ SendPid(p) \/ SendDelay(p)
      <3>1. UNCHANGED <<daemonVars, chldPending, chldBytes>>
        BY <2>4 DEF SendType, SendPid, SendDelay, Write
      <3> QED
        BY <1>2, <2>2, <2>4, <3>1 DEF SendType, SendPid, SendDelay
    <2>5. CASE ResetHandlers(p) \/ SetPdeathsig(p) \/ StartWaiting(p) \/ Served(p)
                 \/ BecomeApp(p)
      <3>1. UNCHANGED <<daemonVars, chldPending, chldBytes>>
        BY <2>5 DEF ResetHandlers, SetPdeathsig, StartWaiting, Served, BecomeApp,
                    pipeVars
      <3>2. \E from, to : to \in ProcStates \ {"zombie"} /\ Goto(p, from, to)
        BY <2>2, <2>5 DEF ResetHandlers, SetPdeathsig, StartWaiting, Served, BecomeApp
      <3> QED
        BY <1>2, <3>1, <3>2
    <2> QED
      BY <2>1, <2>3, <2>4, <2>5 DEF Booster
  <1>5. CASE Environment
    <2>1. CASE SendUsr1 \/ SendTerm
      <3>1. UNCHANGED <<daemonVars, procVars, chldPending, chldBytes>>
        BY <2>1, Zenon DEF SendUsr1, SendTerm
      <3> QED
        BY <3>1, QuietStep DEF NoNewZombie, daemonVars, procVars
    <2>2. ASSUME NEW p \in Pids, ServeFails(p) \/ AppExits(p)
          PROVE  NoForgottenZombie'
      BY <1>3, <2>2 DEF ServeFails, AppExits
    <2>3. ASSUME NEW p \in Pids, NEW i \in Invokers, Accept(p, i)
          PROVE  NoForgottenZombie'
      <3>1. "serving" \in ProcStates \ {"zombie"}
        BY DEF ProcStates, Alive, Unreported
      <3> QED
        BY <1>2, <2>3, <3>1 DEF Accept, pipeVars
    <2>4. ASSUME NEW p \in Pids, NEW s \in Signals, SignalChild(p, s)
          PROVE  NoForgottenZombie'
      <3>1. /\ UNCHANGED <<daemonVars, chldBytes>>
            /\ UNCHANGED <<pst, chldPending>> \/ End(p, s)
        BY <2>4, Zenon DEF SignalChild
      <3>2. CASE UNCHANGED <<pst, chldPending>>
        BY <3>1, <3>2, QuietStep DEF NoNewZombie, daemonVars
      <3> QED
        BY <1>3, <3>1, <3>2
    <2> QED
      BY <1>5, <2>1, <2>2, <2>3, <2>4 DEF Environment
  <1>6. CASE UNCHANGED vars
    BY <1>6, QuietStep DEF vars, daemonVars, procVars, pipeVars, NoNewZombie
  <1> QED
    BY <1>1, <1>4, <1>5, <1>6 DEF Next

\* The death of a child is never overlooked, although SIGCHLD is not queued,
\* only one byte is read per iteration and children die during the pass.
THEOREM NoWakeupIsLost == Spec => []NoForgottenZombie
  <1>1. Init => NoForgottenZombie
    BY DEF Init, NoForgottenZombie
  <1> QED
    BY <1>1, TypingInit, TypingStep, BookInit, BookStep, AnnounceStep, PTL DEF Spec

-----------------------------------------------------------------------------
(* The end of the boot mode                                                *)

\* What a step does that neither changes the mode, nor forks, nor reaps, nor
\* takes the SIGTERM byte out of its pipe.
ModeKept ==
    /\ dpc' # "exited" => dpc # "exited"
    /\ UNCHANGED <<m_bootMode, m_boosterTypeToPid, pboot>>
    /\ termByte => termByte'
    /\ \A p \in Pids : pst[p] = "zombie" => pst'[p] = "zombie"

\* Such a step brings no booster of the boot mode back.
LEMMA ModeStep ==
    TypeInv /\ BootBoosterReplaced /\ ModeKept => BootBoosterReplaced'
  <1> SUFFICES ASSUME TypeInv, BootBoosterReplaced, ModeKept, dpc' # "exited",
                      ~m_bootMode', NEW t \in Types,
                      m_boosterTypeToPid'[t] # 0, pboot'[m_boosterTypeToPid'[t]]
               PROVE  pst'[m_boosterTypeToPid'[t]] = "zombie" \/ termByte'
    BY Zenon DEF BootBoosterReplaced
  <1>1. /\ m_bootMode' = m_bootMode /\ pboot' = pboot
        /\ m_boosterTypeToPid' = m_boosterTypeToPid
    BY DEF ModeKept
  <1>2. m_boosterTypeToPid[t] \in Pids
    BY <1>1 DEF TypeInv, TypeOK, Chars, Pids
  <1>3. pst[m_boosterTypeToPid[t]] = "zombie" \/ termByte
    <2>1. /\ dpc # "exited" /\ ~m_bootMode /\ m_boosterTypeToPid[t] # 0
          /\ pboot[m_boosterTypeToPid[t]]
      BY <1>1 DEF ModeKept
    <2> QED
      BY <2>1, Zenon DEF BootBoosterReplaced
  <1> QED
    BY <1>1, <1>2, <1>3, Zenon DEF ModeKept

\* forkBooster called after the boot mode forks with the caches; the other
\* types keep their boosters.
LEMMA ForkMode ==
    ASSUME TypeInv, Book, BootBoosterReplaced, dpc # "exited",
           NEW c \in Chars, NEW st \in [Pids -> ProcStates], NEW kids, NEW pc,
           \A d \in Types \ {c} : m_boosterTypeToPid[d] # 0 =>
               st[m_boosterTypeToPid[d]] = pst[m_boosterTypeToPid[d]],
           UNCHANGED <<m_bootMode, termByte>>,
           ForkBooster(c, st, kids, pc)
    PROVE  BootBoosterReplaced'
  <1>0. /\ MaxPid \in Nat /\ Types \subseteq Chars
        /\ nextPid \in 1..(MaxPid + 1)
        /\ m_boosterTypeToPid \in [Chars -> 0..MaxPid]
        /\ pboot \in [Pids -> BOOLEAN]
    BY LauncherAssumption DEF Chars, TypeInv, TypeOK
  <1>1. CASE nextPid <= MaxPid
    <2>1. /\ m_boosterTypeToPid' = [m_boosterTypeToPid EXCEPT ![c] = nextPid]
          /\ pst'   = [st EXCEPT ![nextPid] = "forked"]
          /\ pboot' = [pboot EXCEPT ![nextPid] = m_bootMode]
          /\ nextPid \in Pids
      BY <1>0, <1>1 DEF ForkBooster, Pids
    <2> SUFFICES ASSUME ~m_bootMode', NEW t \in Types,
                        m_boosterTypeToPid'[t] # 0, pboot'[m_boosterTypeToPid'[t]]
                 PROVE  pst'[m_boosterTypeToPid'[t]] = "zombie" \/ termByte'
      BY Zenon DEF BootBoosterReplaced
    <2>2. t # c
      <3>1. SUFFICES ASSUME t = c PROVE FALSE
        OBVIOUS
      <3>2. m_boosterTypeToPid'[t] = nextPid
        BY <1>0, <2>1, <3>1
      <3>3. pboot'[nextPid] = m_bootMode
        BY <1>0, <2>1
      <3> QED
        BY <3>2, <3>3, Zenon
    <2>3. /\ m_boosterTypeToPid'[t] = m_boosterTypeToPid[t]
          /\ m_boosterTypeToPid[t] \in Pids
      BY <1>0, <2>1, <2>2 DEF Pids
    <2>4. m_boosterTypeToPid[t] # nextPid
      BY <1>0, <2>3 DEF Book, SlotOK, Pids
    <2>5. /\ pboot'[m_boosterTypeToPid[t]] = pboot[m_boosterTypeToPid[t]]
          /\ pst'[m_boosterTypeToPid[t]] = st[m_boosterTypeToPid[t]]
      BY <1>0, <2>1, <2>3, <2>4
    <2>6. pst[m_boosterTypeToPid[t]] = "zombie" \/ termByte
      BY <2>3, <2>5, Zenon DEF BootBoosterReplaced
    <2>7. st[m_boosterTypeToPid[t]] = pst[m_boosterTypeToPid[t]]
      BY <2>2, <2>3
    <2> QED
      BY <2>3, <2>5, <2>6, <2>7, Zenon
  <1>2. CASE ~(nextPid <= MaxPid)
    BY <1>2 DEF ForkBooster, BootBoosterReplaced
  <1> QED
    BY <1>1, <1>2

\* No step of the daemon leaves a live booster of the boot mode in place: those
\* that killBoosters() cannot end turn its SIGTERM against the daemon.
LEMMA DaemonMode ==
    TypeInv /\ Book /\ BootBoosterReplaced /\ (Daemon \/ SigChldHandler)
      => BootBoosterReplaced'
  <1> SUFFICES ASSUME TypeInv, Book, BootBoosterReplaced, Daemon \/ SigChldHandler
               PROVE  BootBoosterReplaced'
    OBVIOUS
  <1>0. /\ pst \in [Pids -> ProcStates] /\ Types \subseteq Chars
        /\ m_boosterTypeToPid \in [Chars -> 0..MaxPid]
        /\ Nul \notin Types /\ m_children \subseteq Pids
    BY LauncherAssumption DEF TypeInv, TypeOK, Chars
  <1>1. CASE ForkBoosters
    <2>1. CASE \A t \in Types : m_boosterTypeToPid[t] # 0
      BY <1>1, <2>1, ModeStep DEF ForkBoosters, ModeKept, procVars, pipeVars
    <2>2. CASE \E t \in Types : m_boosterTypeToPid[t] = 0
      <3>1. PICK t \in Types : ForkBooster(t, pst, m_children, "start")
        BY <1>1, <2>2 DEF ForkBoosters
      <3>2. dpc = "start" /\ UNCHANGED <<m_bootMode, termByte>>
        BY <1>1, <2>2 DEF ForkBoosters, pipeVars
      <3> QED
        BY <1>0, <3>1, <3>2, ForkMode
    <2> QED
      BY <2>1, <2>2
  <1>2. CASE Select
    BY <1>2, ModeStep DEF Select, ModeKept, procVars, pipeVars
  <1>3. CASE ReadType
    BY <1>3, ModeStep DEF ReadType, ModeKept, procVars
  <1>4. CASE ShortRead \/ HandleSigTerm
    BY <1>4 DEF ShortRead, HandleSigTerm, DaemonEnds, BootBoosterReplaced
  <1>5. CASE ReadPid
    BY <1>5, ModeStep DEF ReadPid, ModeKept, procVars
  <1>6. CASE ReadDelayAndFork
    <2>1. /\ ForkBooster(msgType, pst, m_children, "loop") /\ dpc = "readDelay"
          /\ UNCHANGED <<m_bootMode, termByte>> /\ msgType \in Chars
      BY <1>6 DEF ReadDelayAndFork, TypeInv, TypeOK
    <2> QED
      BY <1>0, <2>1, ForkMode
  <1>7. CASE ReadSigChld
    BY <1>7, ModeStep DEF ReadSigChld, ModeKept, procVars
  <1>8. CASE ReapStep
    <2>1. PICK p \in Unvisited : ReapSkip(p) \/ ReapZombie(p)
      BY <1>8 DEF ReapStep
    <2>2. /\ p \in Pids /\ p \in m_children /\ dpc = "reap"
          /\ UNCHANGED <<m_bootMode, termByte>>
      BY <1>0, <1>8, <2>1 DEF ReapStep, Unvisited, pipeVars
    <2>3. CASE ReapSkip(p)
      BY <2>2, <2>3, ModeStep DEF ReapSkip, ModeKept
    <2>4. CASE ReapZombie(p)
      <3> DEFINE st == [pst EXCEPT ![p] = "gone"]
      <3>1. /\ st \in [Pids -> ProcStates]
            /\ \A q \in Pids \ {p} : st[q] = pst[q]
        BY <1>0 DEF ProcStates
      <3>2. CASE \E c \in Chars \ {Nul} : m_boosterTypeToPid[c] = p
        <4>1. PICK c \in Chars \ {Nul} :
                 /\ m_boosterTypeToPid[c] = p
                 /\ ForkBooster(c, st, m_children \ {p}, "reap")
          BY <2>4, <3>2 DEF ReapZombie
        <4>2. ASSUME NEW d \in Types \ {c}, m_boosterTypeToPid[d] # 0
              PROVE  m_boosterTypeToPid[d] \in Pids \ {p}
          BY <1>0, <2>2, <4>1, <4>2 DEF Book, SlotOK
        <4> HIDE DEF st
        <4> QED
          BY <2>2, <3>1, <4>1, <4>2, ForkMode
      <3>3. CASE \A c \in Chars \ {Nul} : m_boosterTypeToPid[c] # p
        <4>1. /\ pst' = st
              /\ UNCHANGED <<dpc, m_boosterTypeToPid, pboot>>
          BY <2>4, <3>3 DEF ReapZombie
        <4> SUFFICES ASSUME dpc' # "exited", ~m_bootMode', NEW t \in Types,
                            m_boosterTypeToPid'[t] # 0,
                            pboot'[m_boosterTypeToPid'[t]]
                     PROVE  pst'[m_boosterTypeToPid'[t]] = "zombie" \/ termByte'
          BY Zenon DEF BootBoosterReplaced
        <4>2. m_boosterTypeToPid[t] \in Pids \ {p}
          BY <1>0, <3>3, <4>1 DEF Book, SlotOK
        <4>3. pst[m_boosterTypeToPid[t]] = "zombie" \/ termByte
          BY <2>2, <4>1, Zenon DEF BootBoosterReplaced
        <4>4. pst'[m_boosterTypeToPid'[t]] = pst[m_boosterTypeToPid[t]]
          BY <3>1, <4>1, <4>2
        <4> QED
          BY <2>2, <4>3, <4>4, Zenon
      <3> QED
        BY <3>2, <3>3
    <2> QED
      BY <2>1, <2>3, <2>4
  <1>9. CASE ReapDone
    BY <1>9, ModeStep DEF ReapDone, ModeKept, procVars, pipeVars
  <1>10. CASE HandleSigUsr1
    <2>1. /\ dpc = "loop"
          /\ UNCHANGED <<dpc, m_boosterTypeToPid, pboot>>
          /\ m_bootMode => KillBoosters
          /\ ~m_bootMode => UNCHANGED <<pst, termByte>>
          /\ m_bootMode' = FALSE /\ m_bootMode \in BOOLEAN
      BY <1>10, Zenon DEF HandleSigUsr1, TypeInv, TypeOK
    <2>2. CASE m_bootMode
      <3> SUFFICES ASSUME NEW t \in Types, m_boosterTypeToPid'[t] # 0
                   PROVE  pst'[m_boosterTypeToPid'[t]] = "zombie" \/ termByte'
        BY Zenon DEF BootBoosterReplaced
      <3> DEFINE p == m_boosterTypeToPid[t]
      <3>1. p \in Pids /\ m_boosterTypeToPid'[t] = p /\ t \in Chars
        BY <1>0, <2>1 DEF Pids
      <3>2. pst[p] \in Alive \cup {"zombie"}
        BY <1>0, <2>1, <3>1 DEF Book, SlotOK, ChildrenOK, ProcStates
      <3> HIDE DEF p
      <3>3. CASE pst[p] = "forked"
        <4>1. \E c \in Chars : m_boosterTypeToPid[c] = p
          BY <3>1 DEF p
        <4>2. termByte'
          BY <2>1, <2>2, <3>1, <3>3, <4>1, Zenon DEF KillBoosters
        <4> QED
          BY <4>2, Zenon
      <3>4. CASE pst[p] # "forked"
        <4>1. \E c \in Chars : m_boosterTypeToPid[c] = p
          BY <3>1 DEF p
        <4>2. pst' = [q \in Pids |->
                        IF q \in {r \in {s \in Pids : \E c \in Chars :
                                              m_boosterTypeToPid[c] = s} :
                                    pst[r] \in Alive \ {"forked"}}
                        THEN "zombie" ELSE pst[q]]
          BY <2>1, <2>2, Zenon DEF KillBoosters
        <4>3. pst'[p] = "zombie"
          BY <3>1, <3>2, <3>4, <4>1, <4>2
        <4> QED
          BY <3>1, <4>3, Zenon
      <3> QED
        BY <3>3, <3>4
    <2>3. CASE ~m_bootMode
      <3>1. m_bootMode' = m_bootMode
        BY <2>1, <2>3, Zenon
      <3>2. dpc' # "exited" /\ dpc # "exited"
        BY <2>1
      <3>3. /\ pst' = pst /\ termByte' = termByte
            /\ UNCHANGED <<m_boosterTypeToPid, pboot>>
        BY <2>1, <2>3
      <3>4. ModeKept
        BY <3>1, <3>2, <3>3, Zenon DEF ModeKept
      <3> QED
        BY <3>4, ModeStep
    <2> QED
      BY <2>2, <2>3
  <1>11. CASE SigChldHandler
    <2>1. UNCHANGED <<daemonVars, procVars, termByte>>
      BY <1>11, Zenon DEF SigChldHandler
    <2> QED
      BY <2>1, ModeStep DEF ModeKept, daemonVars, procVars
  <1> QED
    BY <1>1, <1>2, <1>3, <1>4, <1>5, <1>6, <1>7, <1>8, <1>9, <1>10, <1>11
    DEF Daemon

\* No step of a process or of the environment brings a booster of the boot mode
\* back: only a process that lives takes one, and the byte in the daemon's
\* SIGTERM pipe is the daemon's to take.
LEMMA OthersKeepMode ==
    TypeInv /\ ((\E p \in Pids : Booster(p)) \/ Environment) => ModeKept
  <1> SUFFICES ASSUME TypeInv, (\E p \in Pids : Booster(p)) \/ Environment
               PROVE  ModeKept
    OBVIOUS
  <1>0. /\ pst \in [Pids -> ProcStates] /\ KillAt \subseteq Alive
        /\ "zombie" \notin Alive
        /\ {"forked", "default", "init", "waiting", "serving", "sendType",
            "sendPid", "sendDelay", "sent", "app"} \subseteq Alive
    BY LauncherAssumption DEF TypeInv, TypeOK, Alive, Unreported, Reporting
  <1>1. ASSUME NEW p \in Pids, pst[p] \in Alive,
               \/ \E to : pst' = [pst EXCEPT ![p] = to]
               \/ UNCHANGED pst,
               UNCHANGED <<daemonVars, pboot>>, termByte => termByte'
        PROVE  ModeKept
    <2>1. \A q \in Pids : pst[q] = "zombie" => pst'[q] = "zombie"
      BY <1>0, <1>1
    <2>2. dpc' = dpc /\ UNCHANGED <<m_bootMode, m_boosterTypeToPid>>
      BY <1>1 DEF daemonVars
    <2> QED
      BY <1>1, <2>1, <2>2, Zenon DEF ModeKept
  <1>2. ASSUME NEW p \in Pids, Booster(p) \/ ServeFails(p) \/ AppExits(p)
        PROVE  ModeKept
    <2>1. CASE UnknownType(p) \/ ServeFails(p) \/ AppExits(p)
      <3>1. UNCHANGED <<daemonVars, pboot, termByte>> /\ pst[p] \in Alive
        BY <1>0, <2>1 DEF UnknownType, ServeFails, AppExits
      <3>2. \E to : pst' = [pst EXCEPT ![p] = to]
        BY <2>1, Zenon DEF UnknownType, ServeFails, AppExits, End
      <3> QED
        BY <1>1, <3>1, <3>2
    <2>2. CASE SendType(p) \/ SendPid(p) \/ SendDelay(p)
      <3>1. UNCHANGED <<daemonVars, pboot, termByte>> /\ pst[p] \in Alive
        BY <1>0, <2>2 DEF SendType, SendPid, SendDelay, Write
      <3>2. \E to : pst' = [pst EXCEPT ![p] = to]
        BY <2>2 DEF SendType, SendPid, SendDelay, Write
      <3> QED
        BY <1>1, <3>1, <3>2
    <2>3. CASE ResetHandlers(p) \/ SetPdeathsig(p) \/ StartWaiting(p) \/ Served(p)
                 \/ BecomeApp(p)
      <3>1. UNCHANGED <<daemonVars, pboot, termByte>> /\ pst[p] \in Alive
        BY <1>0, <2>3 DEF ResetHandlers, SetPdeathsig, StartWaiting, Served,
                          BecomeApp, Goto, pipeVars
      <3>2. \E to : pst' = [pst EXCEPT ![p] = to]
        BY <2>3 DEF ResetHandlers, SetPdeathsig, StartWaiting, Served, BecomeApp, Goto
      <3> QED
        BY <1>1, <3>1, <3>2
    <2> QED
      BY <1>2, <2>1, <2>2, <2>3 DEF Booster
  <1>3. ASSUME NEW p \in Pids, NEW i \in Invokers, Accept(p, i) PROVE ModeKept
    BY <1>0, <1>1, <1>3 DEF Accept, Goto, pipeVars
  <1>4. ASSUME NEW p \in Pids, NEW s \in Signals, SignalChild(p, s) PROVE ModeKept
    <2>1. /\ UNCHANGED <<daemonVars, pboot>> /\ pst[p] \in KillAt
          /\ UNCHANGED pst \/ \E to : pst' = [pst EXCEPT ![p] = to]
          /\ termByte => termByte'
      BY <1>4, Zenon DEF SignalChild, End
    <2> QED
      BY <1>0, <1>1, <2>1
  <1>5. CASE SendUsr1 \/ SendTerm
    <2>1. UNCHANGED <<daemonVars, procVars>>
      BY <1>5, Zenon DEF SendUsr1, SendTerm
    <2>2. termByte => termByte'
      BY <1>5, Zenon DEF SendUsr1, SendTerm
    <2> QED
      BY <2>1, <2>2 DEF ModeKept, daemonVars, procVars
  <1> QED
    BY <1>2, <1>3, <1>4, <1>5 DEF Environment

\* Once SIGUSR1 has ended the boot mode, no live booster that was forked
\* without its caches stays the current one of its type, unless the SIGTERM
\* meant for it has reached the daemon.
THEOREM BootModeEnds == Spec => []BootBoosterReplaced
  <1>1. Init => BootBoosterReplaced
    BY DEF Init, BootBoosterReplaced, Chars
  <1>2. TypeInv /\ Book /\ BootBoosterReplaced /\ [Next]_vars
          => BootBoosterReplaced'
    <2> SUFFICES ASSUME TypeInv, Book, BootBoosterReplaced, [Next]_vars
                 PROVE  BootBoosterReplaced'
      OBVIOUS
    <2>1. CASE UNCHANGED vars
      BY <2>1, ModeStep DEF vars, daemonVars, procVars, pipeVars, ModeKept
    <2>2. CASE Next
      BY <2>2, DaemonMode, OthersKeepMode, ModeStep DEF Next
    <2> QED
      BY <2>1, <2>2
  <1> QED
    BY <1>1, <1>2, TypingInit, TypingStep, BookInit, BookStep, PTL DEF Spec
=============================================================================

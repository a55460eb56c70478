--------------------------- MODULE StartupProofs ---------------------------
(***************************************************************************)
(* Proofs about module Startup, for any number of instances, with and      *)
(* without --daemon, and any number of socket files.                       *)
(***************************************************************************)
EXTENDS Startup, FiniteSetTheorems, TLAPS

\* The types, the lock aside.
Types ==
    /\ pc \in [Instances -> Stages]
    /\ gen \in [Instances -> 0..2]
    /\ procs \subseteq Instances \X (0..2)
    /\ socket \in [Sockets -> Instances \cup {Nobody}]
    /\ todo \in [Instances -> SUBSET Sockets]
    /\ at \in [Instances -> Sockets]

\* The lock has one holder at most, and that exists.
OneHolder == lock \subseteq procs /\ (lock = {} \/ \E p \in procs : lock = {p})

\* How far the youngest process of an instance is tells how many forks are
\* behind it; only --daemon forks.
Forks ==
    \A i \in Instances :
        /\ pc[i] \in {"off", "main", "fork1"} => gen[i] = 0
        /\ pc[i] = "fork2" => gen[i] = 1
        /\ pc[i] \in {"fork1", "fork2"} \/ gen[i] # 0 => i \in Daemonized
        /\ pc[i] \notin {"off", "dead"} => Youngest(i) \in procs

\* An instance in the foreground keeps the lock it took.
KeepsLock ==
    \A i \in Instances \ Daemonized : PastLock(i) => Youngest(i) \in lock

\* The socket files an instance has set up are its own, unless one with
\* --daemon has been started.
OwnFiles ==
    /\ \A i \in Instances :
         /\ pc[i] \in {"off", "main", "fork1", "fork2"} => todo[i] = Sockets
         /\ pc[i] = "run" => todo[i] = {}
    /\ (\A i \in Daemonized : pc[i] = "off") =>
         \A i \in Instances : PastLock(i) =>
             \A s \in Sockets \ todo[i] : socket[s] = i

IInv == Types /\ OneHolder /\ Forks /\ KeepsLock /\ OwnFiles

\* The initial state satisfies IInv.
LEMMA InvInit == Init => IInv
  BY StartupAssumption
     DEF Init, IInv, Types, OneHolder, Forks, KeepsLock, OwnFiles, PastLock,
         Stages

\* The instances in the foreground that are past the lock are one and the same.
LEMMA Exclusion == IInv => OneForegroundDaemon
  <1> SUFFICES ASSUME IInv, NEW i \in Instances \ Daemonized,
                      NEW j \in Instances \ Daemonized,
                      PastLock(i), PastLock(j)
               PROVE  i = j
    BY DEF OneForegroundDaemon
  <1>1. Youngest(i) \in lock /\ Youngest(j) \in lock
    BY DEF IInv, KeepsLock
  <1>2. Youngest(i) = Youngest(j)
    BY <1>1 DEF IInv, OneHolder
  <1> QED
    BY <1>2 DEF Youngest

\* The end of the youngest process of an instance: what it held is gone, and
\* nobody else loses anything.
LEMMA YoungestGone ==
    ASSUME IInv, NEW i \in Instances,
           pc[i] \notin {"off", "dead"},
           pc' = [pc EXCEPT ![i] = "dead"],
           Gone(Youngest(i)),
           UNCHANGED <<gen, socket, todo, at>>
    PROVE  IInv'
  <1>1. Types'
    BY DEF IInv, Types, Gone, Stages
  <1>2. OneHolder'
    BY DEF IInv, OneHolder, Gone
  <1>3. \A j \in Instances : j # i => Youngest(j) # Youngest(i)
    BY DEF Youngest
  <1>4. Forks'
    BY <1>3 DEF IInv, Types, Forks, Gone, Youngest
  <1>5. KeepsLock'
    BY <1>3 DEF IInv, Types, KeepsLock, PastLock, Gone, Youngest
  <1>6. OwnFiles'
    BY DEF IInv, Types, OwnFiles, PastLock
  <1> QED
    BY <1>1, <1>2, <1>4, <1>5, <1>6 DEF IInv

\* The steps of one instance, and its death, preserve IInv.
LEMMA InstanceStep ==
    ASSUME IInv, NEW i \in Instances,
           \/ Start(i) \/ StartFails(i) \/ Instance(i) \/ ParentExits(i) \/ Die(i)
    PROVE  IInv'
  <1>0. Daemonized \subseteq Instances /\ Nobody \notin Instances
    BY StartupAssumption
  <1> USE <1>0 DEF IInv, Types
  <1>1. CASE Start(i)
    <2>1. Types' /\ OneHolder'
      BY <1>1 DEF Start, OneHolder, Stages, Youngest, Forks
    <2>2. Forks'
      BY <1>1 DEF Start, Forks, Youngest
    <2>3. KeepsLock'
      BY <1>1 DEF Start, KeepsLock, PastLock, Youngest
    <2>4. OwnFiles'
      BY <1>1 DEF Start, OwnFiles, PastLock
    <2> QED
      BY <2>1, <2>2, <2>3, <2>4
  <1>2. CASE StartFails(i)
    <2>1. Types' /\ OneHolder'
      BY <1>2 DEF StartFails, OneHolder, Stages
    <2>2. Forks' /\ KeepsLock'
      BY <1>2 DEF StartFails, Forks, KeepsLock, PastLock, Youngest
    <2>3. OwnFiles'
      BY <1>2 DEF StartFails, OwnFiles, PastLock
    <2> QED
      BY <2>1, <2>2, <2>3
  <1>3. CASE Lock(i)
    <2>1. CASE lock = {}
      <3>1. /\ pc[i] = "main" /\ lock' = {Youngest(i)}
            /\ pc' = [pc EXCEPT ![i] = IF i \in Daemonized THEN "fork1" ELSE "unlink"]
            /\ UNCHANGED <<procs, gen, socket, todo, at>>
        BY <1>3, <2>1 DEF Lock
      <3>2. Types' /\ OneHolder'
        BY <3>1 DEF OneHolder, Stages, Forks
      <3>3. Forks'
        BY <3>1 DEF Forks, Youngest
      <3>4. \A j \in Instances \ Daemonized : ~PastLock(j)
        BY <2>1 DEF KeepsLock
      <3>5. KeepsLock'
        BY <3>1, <3>4 DEF KeepsLock, PastLock, Youngest
      <3>6. OwnFiles'
        BY <3>1, <3>4 DEF OwnFiles, PastLock
      <3> QED
        BY <3>2, <3>3, <3>5, <3>6
    <2>2. CASE lock # {}
      BY <1>3, <2>2, YoungestGone DEF Lock
    <2> QED
      BY <2>1, <2>2
  <1>4. CASE Fork(i)
    <2>1. /\ pc[i] \in {"fork1", "fork2"} /\ i \in Daemonized
          /\ gen[i] \in {0, 1} /\ gen[i] + 1 \in 0..2
      BY <1>4 DEF Fork, Forks
    <2>2. Types' /\ OneHolder'
      BY <1>4, <2>1 DEF Fork, OneHolder, Stages
    <2>3. Forks'
      BY <1>4, <2>1 DEF Fork, Forks, Youngest
    <2>4. KeepsLock'
      BY <1>4, <2>1 DEF Fork, KeepsLock, PastLock, Youngest
    <2>5. OwnFiles'
      BY <1>4, <2>1 DEF Fork, OwnFiles, PastLock
    <2> QED
      BY <2>2, <2>3, <2>4, <2>5
  <1>5. CASE Unlink(i)
    <2>1. PICK s \in todo[i] :
            /\ socket' = [socket EXCEPT ![s] = Nobody]
            /\ pc' = [pc EXCEPT ![i] = "bind"]
            /\ at' = [at EXCEPT ![i] = s]
      BY <1>5 DEF Unlink
    <2>2. pc[i] = "unlink" /\ UNCHANGED <<gen, procs, lock, todo>>
      BY <1>5 DEF Unlink
    <2>3. Types' /\ OneHolder'
      BY <2>1, <2>2 DEF OneHolder, Stages
    <2>4. Forks' /\ KeepsLock'
      BY <2>1, <2>2 DEF Forks, KeepsLock, PastLock, Youngest
    <2>5. OwnFiles'
      BY <2>1, <2>2, Exclusion DEF OwnFiles, PastLock, OneForegroundDaemon
    <2> QED
      BY <2>3, <2>4, <2>5
  <1>6. CASE Bind(i)
    <2>1. CASE socket[at[i]] = Nobody
      <3>1. /\ pc[i] = "bind"
            /\ socket' = [socket EXCEPT ![at[i]] = i]
            /\ todo' = [todo EXCEPT ![i] = todo[i] \ {at[i]}]
            /\ pc' = [pc EXCEPT ![i] = "unlink"]
            /\ UNCHANGED <<procs, lock, gen, at>>
        BY <1>6, <2>1 DEF Bind
      <3>2. Types' /\ OneHolder'
        BY <3>1 DEF OneHolder, Stages
      <3>3. Forks' /\ KeepsLock'
        BY <3>1 DEF Forks, KeepsLock, PastLock, Youngest
      <3>4. OwnFiles'
        BY <3>1, Exclusion DEF OwnFiles, PastLock, OneForegroundDaemon
      <3> QED
        BY <3>2, <3>3, <3>4
    <2>2. CASE socket[at[i]] # Nobody
      BY <1>6, <2>2, YoungestGone DEF Bind
    <2> QED
      BY <2>1, <2>2
  <1>7. CASE Run(i)
    <2>1. Types' /\ OneHolder'
      BY <1>7 DEF Run, OneHolder, Stages
    <2>2. Forks' /\ KeepsLock'
      BY <1>7 DEF Run, Forks, KeepsLock, PastLock, Youngest
    <2>3. OwnFiles'
      BY <1>7 DEF Run, OwnFiles, PastLock
    <2> QED
      BY <2>1, <2>2, <2>3
  <1>8. CASE ParentExits(i)
    <2>1. PICK p \in procs : p[1] = i /\ p[2] < gen[i] /\ Gone(p)
      BY <1>8 DEF ParentExits
    <2>2. UNCHANGED <<pc, gen, socket, todo, at>>
      BY <1>8 DEF ParentExits
    <2>3. Types' /\ OneHolder'
      BY <2>1, <2>2 DEF Gone, OneHolder
    <2>4. i \in Daemonized /\ \A j \in Instances : p # Youngest(j)
      <3>1. p[2] \in 0..2 /\ gen[i] \in 0..2 /\ p[1] = i /\ p[2] < gen[i]
        BY <2>1
      <3>2. i \in Daemonized
        BY <3>1 DEF Forks
      <3>3. ASSUME NEW j \in Instances, p = Youngest(j) PROVE FALSE
        <4>1. p[1] = j /\ p[2] = gen[j]
          BY <3>3 DEF Youngest
        <4> QED
          BY <3>1, <4>1
      <3> QED
        BY <3>2, <3>3
    <2>5. Forks'
      BY <2>1, <2>2, <2>4 DEF Forks, Gone, Youngest
    <2>6. KeepsLock'
      BY <2>1, <2>2, <2>4 DEF KeepsLock, Gone, PastLock, Youngest
    <2>7. OwnFiles'
      BY <2>2 DEF OwnFiles, PastLock
    <2> QED
      BY <2>3, <2>5, <2>6, <2>7
  <1>9. CASE Die(i)
    BY <1>9, YoungestGone DEF Die
  <1> QED
    BY <1>1, <1>2, <1>3, <1>4, <1>5, <1>6, <1>7, <1>8, <1>9 DEF Instance

\* Every step preserves IInv.
LEMMA InvStep == IInv /\ [Next]_vars => IInv'
  <1> SUFFICES ASSUME IInv, [Next]_vars PROVE IInv'
    OBVIOUS
  <1>1. CASE Next
    BY <1>1, InstanceStep DEF Next
  <1>2. CASE UNCHANGED vars
    BY <1>2 DEF vars, IInv, Types, OneHolder, Forks, KeepsLock, OwnFiles,
                PastLock, Youngest
  <1> QED
    BY <1>1, <1>2

\* IInv holds throughout.
LEMMA Invariance == Spec => []IInv
  BY InvInit, InvStep, PTL DEF Spec

\* Every variable keeps its type; the record lock has one holder at most, a
\* process that exists.
THEOREM Typing == Spec => []TypeOK
  <1>1. IInv => TypeOK
    <2> SUFFICES ASSUME IInv PROVE TypeOK
      OBVIOUS
    <2>1. Cardinality(lock) <= 1
      <3>1. CASE lock = {}
        BY <3>1, FS_EmptySet
      <3>2. CASE lock # {}
        <4>1. PICK p \in procs : lock = {p}
          BY <3>2 DEF IInv, OneHolder
        <4>2. Cardinality({p}) = 1
          BY FS_Singleton
        <4> QED
          BY <4>1, <4>2
      <3> QED
        BY <3>1, <3>2
    <2> QED
      BY <2>1 DEF IInv, Types, OneHolder, TypeOK
  <1> QED
    BY <1>1, Invariance, PTL

\* Of the instances in the foreground one at most is past Daemon::lock().
THEOREM ForegroundExclusion == Spec => []OneForegroundDaemon
  BY Exclusion, Invariance, PTL

\* The socket files of a running instance are its own, as long as nobody
\* starts one with --daemon.
THEOREM FilesReachable == Spec => []Reachable
  <1>1. IInv => Reachable
    BY DEF IInv, OwnFiles, Reachable, PastLock
  <1> QED
    BY <1>1, Invariance, PTL
=============================================================================

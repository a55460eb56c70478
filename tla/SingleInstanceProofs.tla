------------------------ MODULE SingleInstanceProofs ------------------------
(***************************************************************************)
(* Proofs about module SingleInstance, for any number of launches, with    *)
(* and without the option and the plugin, and any number of mishaps.       *)
(***************************************************************************)
EXTENDS SingleInstance, FiniteSetTheorems, TLAPS

\* TypeOK in the terms of the lock: one holder at most, a guarded launch that
\* is, or is about to become, the application.
Locked ==
    /\ lock = {} \/ \E l \in Guarded : lock = {l}
    /\ \A l \in lock : Instance(l)
    /\ \A l \in Launches : pc[l] = "lock" => l \in Guarded
    /\ \A l \in Guarded : Instance(l) => l \in lock

\* The types, the lock aside.
Types ==
    /\ plugin \in BOOLEAN
    /\ pc \in [Launches -> Stages]
    /\ cmdline \subseteq {l \in Launches : Instance(l)}
    /\ target \in [Launches -> Launches]
    /\ mishaps \in 0..MaxMishaps

\* A launch stands back only for a lock that is held, unless something has
\* gone wrong.
StoodBack ==
    mishaps = 0 =>
        \A l \in Guarded :
            pc[l] \in {"search", "raise", "raised", "failed"} => lock # {}

IInv == Types /\ Locked /\ StoodBack /\ RaisesTheApplication

\* The initial state satisfies IInv.
LEMMA InvInit == Init => IInv
  <1> SUFFICES ASSUME Init PROVE IInv
    OBVIOUS
  <1>1. MaxMishaps \in Nat /\ Guarded \subseteq Launches
    BY SingleInstanceAssumption DEF Guarded
  <1>2. Types
    BY <1>1 DEF Init, Types, Stages
  <1>3. Locked /\ StoodBack
    BY <1>1 DEF Init, Locked, Instance, StoodBack
  <1>4. RaisesTheApplication
    BY DEF Init, RaisesTheApplication
  <1> QED
    BY <1>2, <1>3, <1>4 DEF IInv

\* The steps of one launch preserve IInv.  The choice of the plugin, and with
\* it who is guarded, is never changed.
LEMMA LaunchStep ==
    ASSUME IInv, UNCHANGED plugin, NEW l \in Launches,
           \/ Start(l) \/ Lock(l) \/ LockFileFails(l) \/ Begin(l)
           \/ ShowWindow(l) \/ Search(l) \/ NoDisplay(l) \/ Raise(l) \/ End(l)
    PROVE  IInv'
  <1>1. /\ MaxMishaps \in Nat /\ Guarded \subseteq Launches
        /\ Guarded' = Guarded
    BY SingleInstanceAssumption DEF Guarded
  <1> USE <1>1 DEF IInv, Types, Goto, Instance
  <1>2. CASE Start(l)
    <2>1. pc' = [pc EXCEPT ![l] = IF l \in Guarded THEN "lock" ELSE "begin"]
      BY <1>2 DEF Start
    <2>2. Types'
      BY <1>2, <2>1 DEF Start, Stages
    <2>3. Locked' /\ StoodBack'
      BY <1>2, <2>1 DEF Start, Locked, StoodBack
    <2>4. RaisesTheApplication'
      BY <1>2, <2>1 DEF Start, RaisesTheApplication
    <2> QED
      BY <2>2, <2>3, <2>4
  <1>3. CASE Lock(l)
    <2>1. Types'
      BY <1>3 DEF Lock, Stages
    <2>2. Locked'
      BY <1>3 DEF Lock, Locked
    <2>3. StoodBack'
      BY <1>3 DEF Lock, StoodBack
    <2>4. RaisesTheApplication'
      BY <1>3 DEF Lock, RaisesTheApplication
    <2> QED
      BY <2>1, <2>2, <2>3, <2>4
  <1>4. CASE LockFileFails(l) \/ NoDisplay(l)
    <2>1. Types' /\ mishaps' # 0
      BY <1>4 DEF LockFileFails, NoDisplay, Mishap, Stages
    <2>2. Locked'
      BY <1>4 DEF LockFileFails, NoDisplay, Locked
    <2>3. RaisesTheApplication'
      BY <1>4 DEF LockFileFails, NoDisplay, RaisesTheApplication
    <2> QED
      BY <2>1, <2>2, <2>3 DEF StoodBack
  <1>5. CASE Begin(l) \/ ShowWindow(l)
    <2>1. Types'
      BY <1>5 DEF Begin, ShowWindow, Stages
    <2>2. Locked' /\ StoodBack'
      BY <1>5 DEF Begin, ShowWindow, Locked, StoodBack
    <2>3. RaisesTheApplication'
      BY <1>5 DEF Begin, ShowWindow, RaisesTheApplication
    <2> QED
      BY <2>1, <2>2, <2>3
  <1>6. CASE Search(l)
    <2>1. Types'
      BY <1>6 DEF Search, Stages
    <2>2. Locked' /\ StoodBack'
      BY <1>6 DEF Search, Locked, StoodBack
    <2>3. RaisesTheApplication'
      BY <1>6 DEF Search, RaisesTheApplication
    <2> QED
      BY <2>1, <2>2, <2>3
  <1>7. CASE Raise(l)
    <2>1. Types'
      BY <1>7 DEF Raise, Stages
    <2>2. Locked' /\ StoodBack' /\ RaisesTheApplication'
      BY <1>7 DEF Raise, Locked, StoodBack, RaisesTheApplication
    <2> QED
      BY <2>1, <2>2
  <1>8. CASE End(l)
    <2>1. Types' /\ mishaps' # 0
      BY <1>8 DEF End, Mishap, Stages, Over
    <2>2. Locked'
      BY <1>8 DEF End, Locked, Over
    <2>3. RaisesTheApplication'
      BY <1>8 DEF End, RaisesTheApplication, Over
    <2> QED
      BY <2>1, <2>2, <2>3 DEF StoodBack
  <1> QED
    BY <1>2, <1>3, <1>4, <1>5, <1>6, <1>7, <1>8

\* Every step preserves IInv.
LEMMA InvStep == IInv /\ [Next]_vars => IInv'
  <1> SUFFICES ASSUME IInv, [Next]_vars PROVE IInv'
    OBVIOUS
  <1>1. CASE Next
    BY <1>1, LaunchStep DEF Next, Launch
  <1>2. CASE UNCHANGED vars
    BY <1>2 DEF vars, IInv, Types, Locked, StoodBack, RaisesTheApplication,
                Instance, Guarded
  <1> QED
    BY <1>1, <1>2

\* IInv holds throughout.
LEMMA Invariance == Spec => []IInv
  BY InvInit, InvStep, PTL DEF Spec

\* Every variable keeps its type; the record lock has one holder at most, a
\* living process.
THEOREM Typing == Spec => []TypeOK
  <1>1. IInv => TypeOK
    <2> SUFFICES ASSUME IInv PROVE TypeOK
      OBVIOUS
    <2>1. Cardinality(lock) <= 1
      <3>1. CASE lock = {}
        BY <3>1, FS_EmptySet
      <3>2. CASE lock # {}
        <4>1. PICK l \in Guarded : lock = {l}
          BY <3>2 DEF IInv, Locked
        <4> QED
          BY <4>1, FS_Singleton
      <3> QED
        BY <3>1, <3>2
    <2>2. lock \subseteq {l \in Launches : Instance(l)}
      BY DEF IInv, Locked, Guarded
    <2> QED
      BY <2>1, <2>2 DEF IInv, Types, TypeOK
  <1> QED
    BY <1>1, Invariance, PTL

\* At most one guarded launch is the application, or about to become it.
THEOREM AtMostOne == Spec => []OneInstance
  <1>1. IInv => OneInstance
    BY DEF IInv, Locked, OneInstance
  <1> QED
    BY <1>1, Invariance, PTL

\* As long as nothing has gone wrong, the guarded launches do not all stand
\* back for each other.
THEOREM AtLeastOne == Spec => []SomebodyRuns
  <1>1. IInv => SomebodyRuns
    <2> SUFFICES ASSUME IInv, mishaps = 0, Guarded # {},
                        \A l \in Launches : pc[l] \in {"raised", "failed", "app", "window"}
                 PROVE  \E l \in Guarded : Instance(l)
      BY DEF SomebodyRuns
    <2>1. PICK l \in Guarded : TRUE
      OBVIOUS
    <2>2. l \in Launches
      BY DEF Guarded
    <2>3. CASE pc[l] \in {"app", "window"}
      BY <2>3 DEF Instance
    <2>4. CASE pc[l] \in {"raised", "failed"}
      BY <2>4 DEF IInv, StoodBack, Locked
    <2> QED
      BY <2>2, <2>3, <2>4
  <1> QED
    BY <1>1, Invariance, PTL

\* The window that a launch raises is that of another launch, which shows it
\* still or has ended.
THEOREM RaisesAnother == Spec => []RaisesTheApplication
  <1>1. IInv => RaisesTheApplication
    BY DEF IInv
  <1> QED
    BY <1>1, Invariance, PTL
=============================================================================

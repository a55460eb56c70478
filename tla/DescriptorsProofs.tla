-------------------------- MODULE DescriptorsProofs --------------------------
(***************************************************************************)
(* What the system calls of module Descriptors do to a table, for every    *)
(* size of the table and every way to start the daemon: when there is room *)
(* for another descriptor, and which objects are open, each under the      *)
(* number that the code remembers for it.                                  *)
(***************************************************************************)
EXTENDS Descriptors, TLAPS, WellFoundedInduction

Values    == Objects \cup {"std", Closed}
Processes == [tab : [Fd -> Values], num : [Objects -> Fd \cup {-1}]]

\* Nothing is open from k on, not counting the connection to syslog.
Room(p, k) ==
    \A n \in Fd : n >= k /\ (p.num["log"] # -1 => n > k) => p.tab[n] = Closed

\* The syslog connection, if there is one.
Logged(p) == IF p.num["log"] = -1 THEN {} ELSE {"log"}

\* 0..2 are open; above them are exactly the objects of S, and perhaps the
\* syslog connection, each under its number.  A number that is remembered
\* otherwise is that of /dev/null, or of a descriptor that was moved.
Has(p, S) ==
    /\ \A i \in 0..2 : p.tab[i] # Closed
    /\ \A o \in S \cup Logged(p) : p.num[o] \in 3..MaxFd /\ p.tab[p.num[o]] = o
    /\ \A n \in 3..MaxFd : p.tab[n] # Closed =>
         p.tab[n] \in S \cup Logged(p) /\ p.num[p.tab[n]] = n
    /\ \A o \in Objects \ (S \cup Logged(p) \cup {"null"}) : p.num[o] = -1

-----------------------------------------------------------------------------
(* Open                                                                    *)

\* q is p after o was opened as n, the lowest free number.
Opened(p, o, n, q) ==
    /\ q \in Processes
    /\ n \in Fd /\ p.tab[n] = Closed /\ \A m \in 0..(n - 1) : p.tab[m] # Closed
    /\ q.tab[n] = o /\ \A m \in Fd \ {n} : q.tab[m] = p.tab[m]
    /\ q.num[o] = n /\ \A x \in Objects \ {o} : q.num[x] = p.num[x]

\* q is p after everything in os was closed.
ClosedAll(p, os, q) ==
    /\ q \in Processes
    /\ \A n \in Fd : q.tab[n] = IF \E o \in os : n = p.num[o] THEN Closed ELSE p.tab[n]
    /\ \A x \in Objects : q.num[x] = IF x \in os THEN -1 ELSE p.num[x]

\* q is p after n was moved to k.
Moved(p, n, k, q) ==
    /\ q \in Processes
    /\ q.num = p.num
    /\ \A m \in Fd :
         q.tab[m] = IF m = n THEN Closed ELSE IF m = k THEN p.tab[n] ELSE p.tab[m]

\* If some number is free, the lowest free one is found.
LEMMA LowestFree ==
    ASSUME NEW tab, NEW c \in Fd, tab[c] = Closed
    PROVE  /\ Lowest(tab) \in Fd /\ tab[Lowest(tab)] = Closed /\ Lowest(tab) <= c
           /\ \A m \in 0..(Lowest(tab) - 1) : tab[m] # Closed
  <1> DEFINE S == {n \in Fd : tab[n] = Closed}
             Less == OpToRel(<, Nat)
  <1>1. MaxFd \in Nat
    BY DescriptorsAssumption
  <1>2. S \subseteq Nat /\ c \in S
    BY <1>1 DEF Fd
  <1>3. IsWellFoundedOn(Less, Nat)
    BY NatLessThanWellFounded, Zenon
  <1>4. \A y, x \in Nat : y < x => <<y, x>> \in Less
    BY DEF OpToRel
  <1>5. \A n \in S : n \in Fd /\ tab[n] = Closed
    OBVIOUS
  <1>6. \A n \in Fd : tab[n] = Closed => n \in S
    OBVIOUS
  <1> HIDE DEF Less, S
  <1>7. PICK x \in S : \A y \in S : ~(<<y, x>> \in Less)
    BY <1>2, <1>3, WFMin, Zenon
  <1>8. \A m \in 0..(x - 1) : tab[m] # Closed
    <2> SUFFICES ASSUME NEW m \in 0..(x - 1), tab[m] = Closed PROVE FALSE
      OBVIOUS
    <2>1. x \in Nat /\ m \in Nat /\ m < x /\ m \in Fd
      BY <1>1, <1>2, <1>5 DEF Fd
    <2> QED
      BY <1>4, <1>6, <1>7, <2>1, Zenon
  <1>9. x \in Fd /\ tab[x] = Closed
    BY <1>5
  <1>10. /\ Lowest(tab) \in Fd /\ tab[Lowest(tab)] = Closed
         /\ \A m \in 0..(Lowest(tab) - 1) : tab[m] # Closed
    BY <1>8, <1>9 DEF Lowest
  <1>11. Lowest(tab) <= c
    BY <1>1, <1>10 DEF Fd
  <1> QED
    BY <1>10, <1>11

\* What open() does: the lowest free number is taken and remembered.
LEMMA Opens ==
    ASSUME NEW p \in Processes, NEW o \in Objects, NEW c \in Fd, p.tab[c] = Closed
    PROVE  \E n \in 0..c : Opened(p, o, n, Open(p, o))
  <1> DEFINE n == Lowest(p.tab)
  <1>1. /\ n \in Fd /\ p.tab[n] = Closed /\ n <= c
        /\ \A m \in 0..(n - 1) : p.tab[m] # Closed
    BY LowestFree
  <1>2. n \in 0..c
    BY <1>1, DescriptorsAssumption DEF Fd
  <1>3. Open(p, o) = [tab |-> [p.tab EXCEPT ![n] = o], num |-> [p.num EXCEPT ![o] = n]]
    BY DEF Open
  <1> HIDE DEF n
  <1>4. Open(p, o) \in Processes
    BY <1>1, <1>3 DEF Processes, Values
  <1>5. /\ Open(p, o).tab[n] = o /\ \A m \in Fd \ {n} : Open(p, o).tab[m] = p.tab[m]
        /\ Open(p, o).num[o] = n /\ \A x \in Objects \ {o} : Open(p, o).num[x] = p.num[x]
    BY <1>1, <1>3 DEF Processes
  <1>6. Opened(p, o, n, Open(p, o))
    BY <1>1, <1>4, <1>5 DEF Opened
  <1> QED
    BY <1>2, <1>6

\* Room for one less.
LEMMA OpenRoom ==
    ASSUME NEW p \in Processes, NEW o \in Objects \ {"log"}, NEW k \in Nat, k < MaxFd,
           Room(p, k)
    PROVE  Open(p, o) \in Processes /\ Room(Open(p, o), k + 1)
  <1> DEFINE c == IF p.num["log"] = -1 THEN k ELSE k + 1
             q == Open(p, o)
  <1>1. c \in Fd /\ p.tab[c] = Closed
    BY DescriptorsAssumption DEF Fd, Room
  <1>2. PICK n \in 0..c : Opened(p, o, n, q)
    BY <1>1, Opens
  <1> HIDE DEF q
  <1>3. q \in Processes /\ q.num["log"] = p.num["log"]
    BY <1>2 DEF Objects, Opened
  <1>4. ASSUME NEW m \in Fd, m >= k + 1, p.num["log"] # -1 => m > k + 1
        PROVE  q.tab[m] = Closed
    <2>1. m # n /\ p.tab[m] = Closed
      BY <1>2, <1>4, DescriptorsAssumption DEF Fd, Room
    <2> QED
      BY <1>2, <2>1 DEF Opened
  <1> QED
    BY <1>3, <1>4 DEF Room, q

\* The first line that is logged; the connection is not counted.
LEMMA LogRoom ==
    ASSUME NEW p \in Processes, NEW k \in Nat, k < MaxFd, Room(p, k)
    PROVE  Log(p) \in Processes /\ Room(Log(p), k)
  <1>1. CASE p.num["log"] # -1
    BY <1>1 DEF Log
  <1>2. CASE p.num["log"] = -1
    <2> DEFINE q == Open(p, "log")
    <2>1. k \in Fd /\ p.tab[k] = Closed /\ "log" \in Objects
      BY <1>2, DescriptorsAssumption DEF Fd, Room, Objects
    <2>2. PICK n \in 0..k : Opened(p, "log", n, q)
      BY <2>1, Opens
    <2>3. Log(p) = q
      BY <1>2 DEF Log
    <2> HIDE DEF q
    <2>4. q \in Processes /\ q.num["log"] = n /\ n # -1
      BY <2>2 DEF Opened
    <2>5. ASSUME NEW m \in Fd, m > k PROVE q.tab[m] = Closed
      <3>1. m # n /\ p.tab[m] = Closed
        BY <1>2, <2>2, <2>5, DescriptorsAssumption DEF Fd, Room
      <3> QED
        BY <2>2, <3>1 DEF Opened
    <2> QED
      BY <2>3, <2>4, <2>5 DEF Room
  <1> QED
    BY <1>1, <1>2

-----------------------------------------------------------------------------
(* Close and move                                                          *)

\* What close() does to all of os.
LEMMA Closes ==
    ASSUME NEW p \in Processes, NEW os
    PROVE  ClosedAll(p, os, CloseAll(p, os))
  BY DEF ClosedAll, CloseAll, Processes, Values

\* Room is not lost.
LEMMA CloseRoom ==
    ASSUME NEW p \in Processes, NEW os, "log" \notin os, NEW k \in Nat, Room(p, k)
    PROVE  CloseAll(p, os) \in Processes /\ Room(CloseAll(p, os), k)
  <1> DEFINE q == CloseAll(p, os)
  <1>1. ClosedAll(p, os, q)
    BY Closes
  <1> HIDE DEF q
  <1>2. /\ q \in Processes /\ q.num["log"] = p.num["log"]
        /\ \A n \in Fd : p.tab[n] = Closed => q.tab[n] = Closed
    BY <1>1 DEF ClosedAll, Objects
  <1> QED
    BY <1>2 DEF Room, q

\* dup2() and close().
LEMMA Moves ==
    ASSUME NEW p \in Processes, NEW n \in Fd, NEW k \in 0..2
    PROVE  Moved(p, n, k, Move(p, n, k))
  BY DEF Moved, Move, Processes, Values

-----------------------------------------------------------------------------
(* The daemon                                                              *)

\* consoleQuiet() opens where it has closed.
LEMMA Quiet ==
    ASSUME NEW p \in Processes
    PROVE  /\ ConsoleQuiet(p) \in Processes
           /\ \A n \in Fd : ConsoleQuiet(p).tab[n] = IF n \in 0..2 THEN "null" ELSE p.tab[n]
           /\ \A x \in Objects \ {"null"} : ConsoleQuiet(p).num[x] = p.num[x]
  <1> DEFINE q == [p EXCEPT !.tab = [n \in Fd |-> IF n \in 0..2 THEN Closed ELSE p.tab[n]]]
             q1 == Open(q, "null")
             q2 == Open(q1, "null")
             q3 == Open(q2, "null")
  <1>1. /\ 0 \in Fd /\ 1 \in Fd /\ 2 \in Fd /\ "null" \in Objects /\ "null" # Closed
        /\ \A n \in 0..2 : n = 0 \/ n = 1 \/ n = 2
    BY DescriptorsAssumption DEF Fd, Objects, Closed
  <1>2. /\ q \in Processes /\ q.num = p.num
        /\ \A n \in Fd : q.tab[n] = IF n \in 0..2 THEN Closed ELSE p.tab[n]
    BY DEF Processes, Values
  <1>3. ConsoleQuiet(p) = q3
    BY DEF ConsoleQuiet
  <1> HIDE DEF q
  <1>4. Opened(q, "null", 0, q1)
    <2>1. PICK n \in 0..0 : Opened(q, "null", n, q1)
      BY <1>1, <1>2, Opens
    <2> QED
      BY <2>1
  <1> HIDE DEF q1
  <1>5. Opened(q1, "null", 1, q2)
    <2>1. q1 \in Processes /\ q1.tab[1] = Closed /\ q1.tab[0] # Closed
      BY <1>1, <1>2, <1>4 DEF Opened
    <2>2. PICK n \in 0..1 : Opened(q1, "null", n, q2)
      BY <1>1, <2>1, Opens
    <2>3. n = 1
      BY <2>1, <2>2 DEF Opened
    <2> QED
      BY <2>2, <2>3
  <1> HIDE DEF q2
  <1>6. Opened(q2, "null", 2, q3)
    <2>1. q2 \in Processes /\ q2.tab[2] = Closed /\ q2.tab[0] # Closed /\ q2.tab[1] # Closed
      BY <1>1, <1>2, <1>4, <1>5 DEF Opened
    <2>2. PICK n \in 0..2 : Opened(q2, "null", n, q3)
      BY <1>1, <2>1, Opens
    <2>3. n = 2
      BY <1>1, <2>1, <2>2 DEF Opened
    <2> QED
      BY <2>2, <2>3
  <1> HIDE DEF q3
  <1>7. \A n \in Fd : q3.tab[n] = IF n \in 0..2 THEN "null" ELSE p.tab[n]
    BY <1>1, <1>2, <1>4, <1>5, <1>6 DEF Opened
  <1>8. q3 \in Processes /\ \A x \in Objects \ {"null"} : q3.num[x] = p.num[x]
    BY <1>2, <1>4, <1>5, <1>6 DEF Opened
  <1> QED
    BY <1>3, <1>7, <1>8

\* /dev/null takes the place of i, and nothing else is left of it but a number.
LEMMA ToNull ==
    ASSUME NEW p \in Processes, NEW i \in 0..2, NEW c \in Fd, p.tab[c] = Closed
    PROVE  /\ ToDevNull(p, i) \in Processes
           /\ \A n \in Fd \ {i} : ToDevNull(p, i).tab[n] = p.tab[n]
           /\ p.tab[i] # Closed => ToDevNull(p, i).tab[i] # Closed
           /\ \A x \in Objects \ {"null"} : ToDevNull(p, i).num[x] = p.num[x]
  <1> DEFINE q == Open(p, "null")
  <1>1. "null" \in Objects /\ "null" # Closed /\ i \in Fd
    BY DescriptorsAssumption DEF Objects, Closed, Fd
  <1>2. PICK n \in 0..c : Opened(p, "null", n, q)
    BY <1>1, Opens
  <1>3. ToDevNull(p, i) = Move(q, q.num["null"], i)
    BY DEF ToDevNull
  <1> HIDE DEF q
  <1>4. q \in Processes /\ n \in Fd /\ q.num["null"] = n
    BY <1>2 DEF Opened
  <1> DEFINE r == Move(q, n, i)
  <1>5. Moved(q, n, i, r)
    BY <1>4, Moves
  <1>6. ToDevNull(p, i) = r
    BY <1>3, <1>4
  <1> HIDE DEF r
  <1>7. r \in Processes /\ \A x \in Objects \ {"null"} : r.num[x] = p.num[x]
    BY <1>2, <1>5 DEF Opened, Moved
  <1>8. \A m \in Fd \ {i} : r.tab[m] = p.tab[m]
    BY <1>2, <1>5 DEF Opened, Moved
  <1>9. p.tab[i] # Closed => r.tab[i] # Closed
    BY <1>1, <1>2, <1>5 DEF Opened, Moved
  <1> QED
    BY <1>6, <1>7, <1>8, <1>9

-----------------------------------------------------------------------------
(* What is open                                                            *)

Plain == Objects \ {"log", "null"}

\* Opening adds an object.
LEMMA HasOpen ==
    ASSUME NEW p \in Processes, NEW S \in SUBSET Plain, NEW o \in Plain \ S,
           NEW n, NEW q, Opened(p, o, n, q), Has(p, S)
    PROVE  Has(q, S \cup {o})
  <1>1. n \in 3..MaxFd /\ n \in Fd /\ o \in Objects /\ o # "log" /\ "log" \in Objects
    BY DescriptorsAssumption DEF Opened, Has, Fd, Plain, Objects
  <1>2. q.num["log"] = p.num["log"]
    BY <1>1 DEF Opened
  <1>3. Logged(q) = Logged(p) /\ Logged(p) \subseteq Objects \ {o}
    BY <1>1, <1>2 DEF Logged
  <1>4. \A i \in 0..2 : q.tab[i] # Closed
    <2>1. \A i \in 0..2 : i \in Fd /\ i # n
      BY <1>1, DescriptorsAssumption DEF Fd
    <2> QED
      BY <2>1 DEF Opened, Has
  <1>5. ASSUME NEW x \in (S \cup {o}) \cup Logged(q)
        PROVE  q.num[x] \in 3..MaxFd /\ q.tab[q.num[x]] = x
    <2>1. CASE x = o
      BY <1>1, <2>1 DEF Opened
    <2>2. CASE x # o
      <3>1. x \in S \cup Logged(p) /\ x \in Objects
        BY <1>3, <2>2 DEF Plain
      <3>2. p.num[x] \in 3..MaxFd /\ p.num[x] \in Fd /\ p.tab[p.num[x]] = x
        BY <3>1, DescriptorsAssumption DEF Has, Fd
      <3>3. x # Closed
        BY <3>1 DEF Objects, Pipes, Socks, Closed
      <3>4. q.num[x] = p.num[x] /\ p.num[x] # n
        BY <2>2, <3>1, <3>2, <3>3 DEF Opened
      <3> QED
        BY <3>2, <3>4 DEF Opened
    <2> QED
      BY <2>1, <2>2
  <1>6. ASSUME NEW m \in 3..MaxFd, q.tab[m] # Closed
        PROVE  q.tab[m] \in (S \cup {o}) \cup Logged(q) /\ q.num[q.tab[m]] = m
    <2>1. m \in Fd
      BY DescriptorsAssumption DEF Fd
    <2>2. CASE m = n
      BY <2>2 DEF Opened
    <2>3. CASE m # n
      <3>1. q.tab[m] = p.tab[m]
        BY <2>1, <2>3 DEF Opened
      <3>2. p.tab[m] \in S \cup Logged(p) /\ p.num[p.tab[m]] = m
        BY <1>6, <3>1 DEF Has
      <3>3. p.tab[m] \in Objects \ {o}
        BY <1>3, <3>2 DEF Plain
      <3> QED
        BY <1>3, <3>1, <3>2, <3>3 DEF Opened
    <2> QED
      BY <2>2, <2>3
  <1>7. \A x \in Objects \ ((S \cup {o}) \cup Logged(q) \cup {"null"}) : q.num[x] = -1
    BY <1>3 DEF Opened, Has
  <1> QED
    BY <1>4, <1>5, <1>6, <1>7 DEF Has

\* So does the first line that is logged.
LEMMA HasLog ==
    ASSUME NEW p \in Processes, NEW S \in SUBSET Plain, p.num["log"] = -1,
           NEW n, NEW q, Opened(p, "log", n, q), Has(p, S)
    PROVE  Has(q, S)
  <1>1. n \in 3..MaxFd /\ n \in Fd /\ "log" \in Objects \ S
    BY DescriptorsAssumption DEF Opened, Has, Fd, Plain, Objects
  <1>2. q.num["log"] = n /\ Logged(p) = {} /\ Logged(q) = {"log"}
    BY <1>1 DEF Opened, Logged
  <1>3. \A i \in 0..2 : q.tab[i] # Closed
    <2>1. \A i \in 0..2 : i \in Fd /\ i # n
      BY <1>1, DescriptorsAssumption DEF Fd
    <2> QED
      BY <2>1 DEF Opened, Has
  <1>4. ASSUME NEW x \in S \cup Logged(q)
        PROVE  q.num[x] \in 3..MaxFd /\ q.tab[q.num[x]] = x
    <2>1. CASE x = "log"
      BY <1>1, <2>1 DEF Opened
    <2>2. CASE x # "log"
      <3>1. x \in S /\ x \in Objects
        BY <1>2, <2>2 DEF Plain
      <3>2. p.num[x] \in 3..MaxFd /\ p.num[x] \in Fd /\ p.tab[p.num[x]] = x
        BY <3>1, DescriptorsAssumption DEF Has, Fd
      <3>3. x # Closed
        BY <3>1 DEF Objects, Pipes, Socks, Closed
      <3>4. q.num[x] = p.num[x] /\ p.num[x] # n
        BY <2>2, <3>1, <3>2, <3>3 DEF Opened
      <3> QED
        BY <3>2, <3>4 DEF Opened
    <2> QED
      BY <2>1, <2>2
  <1>5. ASSUME NEW m \in 3..MaxFd, q.tab[m] # Closed
        PROVE  q.tab[m] \in S \cup Logged(q) /\ q.num[q.tab[m]] = m
    <2>1. m \in Fd
      BY DescriptorsAssumption DEF Fd
    <2>2. CASE m = n
      BY <1>2, <2>2 DEF Opened
    <2>3. CASE m # n
      <3>1. q.tab[m] = p.tab[m]
        BY <2>1, <2>3 DEF Opened
      <3>2. p.tab[m] \in S /\ p.num[p.tab[m]] = m
        BY <1>2, <1>5, <3>1 DEF Has
      <3>3. p.tab[m] \in Objects \ {"log"}
        BY <1>1, <3>2 DEF Plain
      <3> QED
        BY <3>1, <3>2, <3>3 DEF Opened
    <2> QED
      BY <2>2, <2>3
  <1>6. \A x \in Objects \ (S \cup Logged(q) \cup {"null"}) : q.num[x] = -1
    BY <1>2 DEF Opened, Has
  <1> QED
    BY <1>3, <1>4, <1>5, <1>6 DEF Has

\* Closing takes objects away.
LEMMA HasClose ==
    ASSUME NEW p \in Processes, NEW S \in SUBSET Plain, NEW os \in SUBSET S,
           NEW q, ClosedAll(p, os, q), Has(p, S)
    PROVE  Has(q, S \ os)
  <1>1. "log" \in Objects \ os /\ "null" \notin os
    BY DEF Plain, Objects
  <1>2. q.num["log"] = p.num["log"]
    BY <1>1 DEF ClosedAll
  <1>3. Logged(q) = Logged(p) /\ Logged(p) \subseteq Objects \ os
    BY <1>1, <1>2 DEF Logged
  <1>4. \A o \in os : p.num[o] \in 3..MaxFd /\ p.tab[p.num[o]] = o
    BY DEF Has
  <1>5. \A i \in 0..2 : q.tab[i] # Closed
    <2>1. \A i \in 0..2 : i \in Fd /\ i \notin 3..MaxFd
      BY DescriptorsAssumption DEF Fd
    <2> QED
      BY <1>4, <2>1 DEF ClosedAll, Has
  <1>6. ASSUME NEW x \in (S \ os) \cup Logged(q)
        PROVE  q.num[x] \in 3..MaxFd /\ q.tab[q.num[x]] = x
    <2>1. x \in S \cup Logged(p) /\ x \in Objects \ os
      BY <1>3 DEF Plain
    <2>2. p.num[x] \in 3..MaxFd /\ p.num[x] \in Fd /\ p.tab[p.num[x]] = x
      BY <2>1, DescriptorsAssumption DEF Has, Fd
    <2>3. q.num[x] = p.num[x]
      BY <2>1 DEF ClosedAll
    <2>4. \A o \in os : p.num[o] # p.num[x]
      BY <1>4, <2>1, <2>2
    <2> QED
      BY <2>2, <2>3, <2>4 DEF ClosedAll
  <1>7. ASSUME NEW m \in 3..MaxFd, q.tab[m] # Closed
        PROVE  q.tab[m] \in (S \ os) \cup Logged(q) /\ q.num[q.tab[m]] = m
    <2>1. m \in Fd
      BY DescriptorsAssumption DEF Fd
    <2>2. q.tab[m] = p.tab[m] /\ \A o \in os : m # p.num[o]
      BY <1>7, <2>1 DEF ClosedAll
    <2>3. p.tab[m] \in S \cup Logged(p) /\ p.num[p.tab[m]] = m
      BY <1>7, <2>2 DEF Has
    <2>4. p.tab[m] \in Objects \ os
      BY <1>3, <2>2, <2>3 DEF Plain
    <2> QED
      BY <1>3, <2>2, <2>3, <2>4 DEF ClosedAll
  <1>8. \A x \in Objects \ ((S \ os) \cup Logged(q) \cup {"null"}) : q.num[x] = -1
    BY <1>3 DEF ClosedAll, Has
  <1> QED
    BY <1>5, <1>6, <1>7, <1>8 DEF Has

\* A table that differs only in what 0..2 are open on has the same.
LEMMA HasSame ==
    ASSUME NEW p \in Processes, NEW S \in SUBSET Plain, NEW q \in Processes, Has(p, S),
           \A i \in 0..2 : q.tab[i] # Closed,
           \A n \in 3..MaxFd : q.tab[n] = p.tab[n],
           \A x \in Objects \ {"null"} : q.num[x] = p.num[x]
    PROVE  Has(q, S)
  <1>1. Logged(q) = Logged(p) /\ S \cup Logged(p) \subseteq Objects \ {"null"}
    BY DEF Logged, Plain, Objects
  <1> QED
    BY <1>1 DEF Has

-----------------------------------------------------------------------------
(* Both together                                                           *)

\* p is a process with room from k on; if full, it has exactly S.
Fits(p, S, k, full) == p \in Processes /\ Room(p, k) /\ (full => Has(p, S))

\* Opening an object adds it and takes one number.
LEMMA FitsOpen ==
    ASSUME NEW p, NEW S \in SUBSET Plain, NEW k \in Nat, k < MaxFd, NEW full,
           NEW o \in Plain \ S, Fits(p, S, k, full)
    PROVE  Fits(Open(p, o), S \cup {o}, k + 1, full)
  <1> DEFINE c == IF p.num["log"] = -1 THEN k ELSE k + 1
             q == Open(p, o)
  <1>1. p \in Processes /\ Room(p, k) /\ (full => Has(p, S))
    BY DEF Fits
  <1>2. o \in Objects \ {"log"}
    BY DEF Plain
  <1>3. q \in Processes /\ Room(q, k + 1)
    BY <1>1, <1>2, OpenRoom
  <1>4. c \in Fd /\ p.tab[c] = Closed
    BY <1>1, DescriptorsAssumption DEF Fd, Room
  <1>5. PICK n \in 0..c : Opened(p, o, n, q)
    BY <1>1, <1>2, <1>4, Opens
  <1> HIDE DEF q
  <1>6. full => Has(q, S \cup {o})
    BY <1>1, <1>5, HasOpen
  <1> QED
    BY <1>3, <1>6 DEF Fits, q

\* A pipe or socket pair adds both its ends.
LEMMA FitsPair ==
    ASSUME NEW p, NEW S \in SUBSET Plain, NEW k \in Nat, k + 1 < MaxFd, NEW full,
           NEW o1 \in Plain \ S, NEW o2 \in Plain \ S, o1 # o2, Fits(p, S, k, full)
    PROVE  Fits(OpenPair(p, o1, o2), S \cup {o1, o2}, k + 2, full)
  <1>1. k < MaxFd
    BY DescriptorsAssumption
  <1>2. Fits(Open(p, o1), S \cup {o1}, k + 1, full)
    BY <1>1, FitsOpen
  <1>3. S \cup {o1} \in SUBSET Plain /\ o2 \in Plain \ (S \cup {o1})
    OBVIOUS
  <1>4. Fits(Open(Open(p, o1), o2), (S \cup {o1}) \cup {o2}, (k + 1) + 1, full)
    BY <1>2, <1>3, FitsOpen
  <1>5. (S \cup {o1}) \cup {o2} = S \cup {o1, o2} /\ (k + 1) + 1 = k + 2
    OBVIOUS
  <1> QED
    BY <1>4, <1>5 DEF OpenPair

\* The log takes at most the number that Room sets aside for it.
LEMMA FitsLog ==
    ASSUME NEW p, NEW S \in SUBSET Plain, NEW k \in Nat, k < MaxFd, NEW full,
           Fits(p, S, k, full)
    PROVE  Fits(Log(p), S, k, full)
  <1>1. p \in Processes /\ Room(p, k) /\ (full => Has(p, S))
    BY DEF Fits
  <1>2. Log(p) \in Processes /\ Room(Log(p), k)
    BY <1>1, LogRoom
  <1>3. CASE p.num["log"] # -1
    BY <1>3 DEF Log
  <1>4. CASE p.num["log"] = -1
    <2> DEFINE q == Open(p, "log")
    <2>1. k \in Fd /\ p.tab[k] = Closed /\ "log" \in Objects
      BY <1>1, <1>4, DescriptorsAssumption DEF Fd, Room, Objects
    <2>2. PICK n \in 0..k : Opened(p, "log", n, q)
      BY <1>1, <2>1, Opens
    <2>3. Log(p) = q
      BY <1>4 DEF Log
    <2> HIDE DEF q
    <2>4. full => Has(q, S)
      BY <1>1, <1>4, <2>2, HasLog
    <2> QED
      BY <1>2, <2>3, <2>4 DEF Fits
  <1> QED
    BY <1>3, <1>4

\* Closing what is open takes it away and leaves the rest.
LEMMA FitsClose ==
    ASSUME NEW p, NEW S \in SUBSET Plain, NEW k \in Nat, NEW full,
           NEW os \in SUBSET S, Fits(p, S, k, full)
    PROVE  Fits(CloseAll(p, os), S \ os, k, full)
  <1> DEFINE q == CloseAll(p, os)
  <1>1. p \in Processes /\ Room(p, k) /\ (full => Has(p, S))
    BY DEF Fits
  <1>2. "log" \notin os
    BY DEF Plain
  <1>3. q \in Processes /\ Room(q, k)
    BY <1>1, <1>2, CloseRoom
  <1>4. ClosedAll(p, os, q)
    BY <1>1, Closes
  <1> HIDE DEF q
  <1>5. full => Has(q, S \ os)
    BY <1>1, <1>4, HasClose
  <1> QED
    BY <1>3, <1>5 DEF Fits, q

\* --quiet only touches the standard descriptors.
LEMMA FitsQuiet ==
    ASSUME NEW p, NEW S \in SUBSET Plain, NEW k \in Nat, k >= 3, NEW full,
           Fits(p, S, k, full)
    PROVE  Fits(ConsoleQuiet(p), S, k, full)
  <1> DEFINE q == ConsoleQuiet(p)
  <1>1. p \in Processes /\ Room(p, k) /\ (full => Has(p, S))
    BY DEF Fits
  <1>2. /\ q \in Processes
        /\ \A n \in Fd : q.tab[n] = IF n \in 0..2 THEN "null" ELSE p.tab[n]
        /\ \A x \in Objects \ {"null"} : q.num[x] = p.num[x]
    BY <1>1, Quiet
  <1> HIDE DEF q
  <1>3. /\ \A i \in 0..2 : q.tab[i] # Closed
        /\ \A n \in 3..MaxFd : q.tab[n] = p.tab[n]
    BY <1>2, DescriptorsAssumption DEF Fd, Closed
  <1>4. Room(q, k)
    <2>1. q.num["log"] = p.num["log"]
      BY <1>2 DEF Objects
    <2>2. \A n \in Fd : n >= k => q.tab[n] = p.tab[n]
      BY <1>2, DescriptorsAssumption DEF Fd
    <2> QED
      BY <1>1, <2>1, <2>2 DEF Room
  <1>5. full => Has(q, S)
    BY <1>1, <1>2, <1>3, HasSame
  <1> QED
    BY <1>2, <1>4, <1>5 DEF Fits, q

\* /dev/null is opened, copied to a standard descriptor and closed again.
LEMMA FitsNull ==
    ASSUME NEW p, NEW S \in SUBSET Plain, NEW k \in Nat, k >= 3, k < MaxFd, NEW full,
           NEW i \in 0..2, Fits(p, S, k, full)
    PROVE  Fits(ToDevNull(p, i), S, k, full)
  <1> DEFINE c == IF p.num["log"] = -1 THEN k ELSE k + 1
             q == ToDevNull(p, i)
  <1>1. p \in Processes /\ Room(p, k) /\ (full => Has(p, S))
    BY DEF Fits
  <1>2. c \in Fd /\ p.tab[c] = Closed
    BY <1>1, DescriptorsAssumption DEF Fd, Room
  <1>3. /\ q \in Processes
        /\ \A n \in Fd \ {i} : q.tab[n] = p.tab[n]
        /\ p.tab[i] # Closed => q.tab[i] # Closed
        /\ \A x \in Objects \ {"null"} : q.num[x] = p.num[x]
    BY <1>1, <1>2, ToNull
  <1> HIDE DEF q
  <1>4. \A n \in 3..MaxFd : q.tab[n] = p.tab[n]
    BY <1>3, DescriptorsAssumption DEF Fd
  <1>5. Room(q, k)
    <2>1. q.num["log"] = p.num["log"]
      BY <1>3 DEF Objects
    <2>2. \A n \in Fd : n >= k => q.tab[n] = p.tab[n]
      BY <1>3, DescriptorsAssumption DEF Fd
    <2> QED
      BY <1>1, <2>1, <2>2 DEF Room
  <1>6. ASSUME full PROVE Has(q, S)
    <2>1. \A j \in 0..2 : j \in Fd /\ p.tab[j] # Closed
      BY <1>1, <1>6, DescriptorsAssumption DEF Fd, Has
    <2>2. \A j \in 0..2 : q.tab[j] # Closed
      BY <1>3, <2>1
    <2> QED
      BY <1>1, <1>3, <1>4, <1>6, <2>2, HasSame
  <1> QED
    BY <1>3, <1>5, <1>6 DEF Fits, q

-----------------------------------------------------------------------------
(* The daemon and its boosters                                             *)

\* The daemon was started with its standard descriptors.
Standard(s) == s.open = 0..2

\* What the daemon keeps open.
DaemonHas == {"lock"} \cup Pipes \cup Socks

\* What start-up has opened before it makes the sockets.
LEMMA StartFits ==
    ASSUME NEW s, StartType(s)
    PROVE  Fits(StartDaemon(s), {"lock"} \cup Pipes, 12, Standard(s))
  <1> DEFINE full == Standard(s)
             p0 == [tab |-> [n \in Fd |-> IF n \in s.open THEN "std" ELSE Closed],
                    num |-> [o \in Objects |-> -1]]
             p1 == Open(p0, "lock")
             p2 == IF s.boot THEN Log(p1) ELSE p1
             p3 == IF s.quiet THEN ConsoleQuiet(p2) ELSE p2
             a1 == OpenPair(p3, "boosterR", "boosterW")
             a2 == OpenPair(a1, "chldR", "chldW")
             a3 == OpenPair(a2, "termR", "termW")
             a4 == OpenPair(a3, "usr1R", "usr1W")
             d1 == ToDevNull(a4, 0)
             d2 == ToDevNull(d1, 1)
             d3 == ToDevNull(d2, 2)
  <1>1. StartDaemon(s) = IF s.daemon THEN d3 ELSE a4
    BY DEF StartDaemon
  <1>2. MaxFd \in Nat /\ MaxFd >= 24
    BY DescriptorsAssumption
  <1>3. /\ {"lock"} \cup Pipes \subseteq Plain
        /\ "lock" \notin Pipes
    BY DEF Plain, Objects, Pipes
  <1>4. Fits(p0, {}, 3, full)
    <2>1. p0 \in Processes
      BY DEF Processes, Values
    <2>2. "log" \in Objects /\ p0.num["log"] = -1
      BY DEF Objects
    <2>3. \A n \in Fd : n >= 3 => p0.tab[n] = Closed
      BY <1>2 DEF Fd, StartType
    <2>4. Room(p0, 3)
      BY <2>2, <2>3 DEF Room
    <2>5. ASSUME full PROVE Has(p0, {})
      <3>1. \A i \in 0..2 : p0.tab[i] # Closed
        BY <1>2, <2>5 DEF Fd, Closed, Standard
      <3>2. \A n \in 3..MaxFd : p0.tab[n] = Closed
        BY <1>2, <2>3 DEF Fd
      <3>3. \A o \in Objects : p0.num[o] = -1
        OBVIOUS
      <3>4. Logged(p0) = {}
        BY <2>2 DEF Logged
      <3> QED
        BY <3>1, <3>2, <3>3, <3>4 DEF Has
    <2> QED
      BY <2>1, <2>4, <2>5 DEF Fits
  <1> HIDE DEF full, p0
  <1>5. Fits(p1, {"lock"}, 4, full)
    <2>1. {} \in SUBSET Plain /\ "lock" \in Plain \ {} /\ 3 < MaxFd /\ {} \cup {"lock"} = {"lock"}
      BY <1>2, <1>3
    <2>2. Fits(p1, {} \cup {"lock"}, 3 + 1, full)
      BY <1>4, <2>1, FitsOpen
    <2> QED
      BY <2>1, <2>2
  <1> HIDE DEF p1
  <1>6. {"lock"} \in SUBSET Plain /\ 4 < MaxFd /\ 4 >= 3
    BY <1>2, <1>3
  <1>7. Fits(p2, {"lock"}, 4, full)
    BY <1>5, <1>6, FitsLog
  <1> HIDE DEF p2
  <1>8. Fits(p3, {"lock"}, 4, full)
    BY <1>6, <1>7, FitsQuiet
  <1> HIDE DEF p3
  <1> DEFINE S1 == {"lock"} \cup {"boosterR", "boosterW"}
             S2 == S1 \cup {"chldR", "chldW"}
             S3 == S2 \cup {"termR", "termW"}
             S4 == S3 \cup {"usr1R", "usr1W"}
  <1>9. /\ S1 \in SUBSET Plain /\ S2 \in SUBSET Plain /\ S3 \in SUBSET Plain
        /\ S4 = {"lock"} \cup Pipes
    BY <1>3 DEF Pipes
  <1>10. Fits(a1, S1, 6, full)
    <2>1. "boosterR" \in Plain \ {"lock"} /\ "boosterW" \in Plain \ {"lock"} /\ 4 + 1 < MaxFd
      BY <1>2, <1>9
    <2>2. Fits(a1, S1, 4 + 2, full)
      BY <1>6, <1>8, <2>1, FitsPair
    <2> QED
      BY <2>2
  <1>11. /\ "chldR" \in Plain \ S1 /\ "chldW" \in Plain \ S1 /\ 6 + 1 < MaxFd
         /\ "termR" \in Plain \ S2 /\ "termW" \in Plain \ S2 /\ 8 + 1 < MaxFd
         /\ "usr1R" \in Plain \ S3 /\ "usr1W" \in Plain \ S3 /\ 10 + 1 < MaxFd
    BY <1>2 DEF Plain, Objects, Pipes
  <1> HIDE DEF S1, a1
  <1>12. Fits(a2, S2, 8, full)
    <2>1. Fits(a2, S2, 6 + 2, full)
      BY <1>9, <1>10, <1>11, FitsPair
    <2> QED
      BY <2>1
  <1> HIDE DEF S2, a2
  <1>13. Fits(a3, S3, 10, full)
    <2>1. Fits(a3, S3, 8 + 2, full)
      BY <1>9, <1>11, <1>12, FitsPair
    <2> QED
      BY <2>1
  <1> HIDE DEF S3, a3
  <1>14. Fits(a4, S4, 12, full)
    <2>1. Fits(a4, S4, 10 + 2, full)
      BY <1>9, <1>11, <1>13, FitsPair
    <2> QED
      BY <2>1
  <1> HIDE DEF S4, a4
  <1>15. S4 \in SUBSET Plain /\ 12 >= 3 /\ 12 < MaxFd /\ 0 \in 0..2 /\ 1 \in 0..2 /\ 2 \in 0..2
    BY <1>2, <1>3, <1>9
  <1>16. Fits(d1, S4, 12, full)
    BY <1>14, <1>15, FitsNull
  <1> HIDE DEF d1
  <1>17. Fits(d2, S4, 12, full)
    BY <1>15, <1>16, FitsNull
  <1> HIDE DEF d2
  <1>18. Fits(d3, S4, 12, full)
    BY <1>15, <1>17, FitsNull
  <1> HIDE DEF d3
  <1> QED
    BY <1>1, <1>9, <1>14, <1>18 DEF full

\* initSocket() adds one socket, and the log if there was no file to remove.
LEMMA SocketFits ==
    ASSUME NEW p, NEW S \in SUBSET Plain, NEW k \in Nat, k + 1 < MaxFd, NEW full,
           NEW o \in Plain \ S, NEW fresh, Fits(p, S, k, full)
    PROVE  Fits(InitSocket(p, o, fresh), S \cup {o}, k + 1, full)
  <1>1. k < MaxFd /\ S \cup {o} \in SUBSET Plain
    BY DescriptorsAssumption
  <1>2. Fits(Open(p, o), S \cup {o}, k + 1, full)
    BY <1>1, FitsOpen
  <1>3. Fits(Log(Open(p, o)), S \cup {o}, k + 1, full)
    BY <1>1, <1>2, FitsLog
  <1> QED
    BY <1>2, <1>3 DEF InitSocket

\* The daemon, once it has its sockets.
LEMMA DaemonFits ==
    ASSUME NEW s, StartType(s)
    PROVE  Fits(InitSockets(StartDaemon(s), s.fresh), DaemonHas, 15, Standard(s))
  <1> DEFINE full == Standard(s)
             fresh == s.fresh
             p0 == StartDaemon(s)
             p1 == InitSocket(p0, "sock_m", fresh)
             p2 == InitSocket(p1, "sock_d", fresh)
             p3 == InitSocket(p2, "sock_q", fresh)
             S0 == {"lock"} \cup Pipes
             S1 == S0 \cup {"sock_m"}
             S2 == S1 \cup {"sock_d"}
             S3 == S2 \cup {"sock_q"}
  <1>1. /\ S0 \in SUBSET Plain /\ "sock_m" \in Plain \ S0
        /\ S1 \in SUBSET Plain /\ "sock_d" \in Plain \ S1
        /\ S2 \in SUBSET Plain /\ "sock_q" \in Plain \ S2
        /\ S3 = DaemonHas
    BY DEF Plain, Objects, Pipes, Socks, DaemonHas
  <1>2. 12 + 1 < MaxFd /\ 13 + 1 < MaxFd /\ 14 + 1 < MaxFd
    BY DescriptorsAssumption
  <1>3. Fits(p0, S0, 12, full)
    BY StartFits
  <1>4. InitSockets(StartDaemon(s), s.fresh) = p3
    BY DEF InitSockets
  <1> HIDE DEF full, fresh, p0, S0
  <1>5. Fits(p1, S1, 13, full)
    <2>1. Fits(p1, S1, 12 + 1, full)
      BY <1>1, <1>2, <1>3, SocketFits
    <2> QED
      BY <2>1
  <1> HIDE DEF p1, S1
  <1>6. Fits(p2, S2, 14, full)
    <2>1. Fits(p2, S2, 13 + 1, full)
      BY <1>1, <1>2, <1>5, SocketFits
    <2> QED
      BY <2>1
  <1> HIDE DEF p2, S2
  <1>7. Fits(p3, S3, 15, full)
    <2>1. Fits(p3, S3, 14 + 1, full)
      BY <1>1, <1>2, <1>6, SocketFits
    <2> QED
      BY <2>1
  <1> HIDE DEF p3, S3
  <1> QED
    BY <1>1, <1>4, <1>7 DEF full

\* Room is room.
LEMMA FitsMore ==
    ASSUME NEW p, NEW S, NEW k \in Nat, NEW l \in Nat, k <= l, NEW full, Fits(p, S, k, full)
    PROVE  Fits(p, S, l, full)
  <1>1. Room(p, l)
    BY DescriptorsAssumption DEF Fits, Room, Fd
  <1> QED
    BY <1>1 DEF Fits

BoosterHas(t)  == {"boosterW", SockOf(t)}
HupPair(t, boot) == IF t = "m" /\ ~boot THEN {"hup0", "hup1"} ELSE {}
Accepted(t, boot) == (BoosterHas(t) \cup {"conn"}) \cup HupPair(t, boot)

\* The socket of a type.
LEMMA SocketOf ==
    ASSUME NEW t \in {"m", "q", "d"}
    PROVE  /\ SockOf(t) \in Socks
           /\ BoosterHas(t) \in SUBSET Plain
           /\ BoosterHas(t) = DaemonHas
                \ (((Pipes \ {"boosterW"}) \cup Socks \cup {"lock"}) \ {SockOf(t)})
  <1>1. SockOf(t) = "sock_m" \/ SockOf(t) = "sock_d" \/ SockOf(t) = "sock_q"
    BY DEF SockOf
  <1> QED
    BY <1>1 DEF BoosterHas, DaemonHas, Plain, Objects, Pipes, Socks

\* A booster keeps the write end of its pipe and its own socket.
LEMMA ForkFits ==
    ASSUME NEW t \in {"m", "q", "d"}, NEW p, NEW full, Fits(p, DaemonHas, 15, full)
    PROVE  Fits(ChildCloses(p, t), BoosterHas(t), 15, full)
  <1> DEFINE os == ((Pipes \ {"boosterW"}) \cup Socks \cup {"lock"}) \ {SockOf(t)}
  <1>1. DaemonHas \in SUBSET Plain /\ os \in SUBSET DaemonHas
    BY DEF Plain, Objects, Pipes, Socks, DaemonHas
  <1>2. BoosterHas(t) = DaemonHas \ os /\ ChildCloses(p, t) = CloseAll(p, os)
    BY SocketOf DEF ChildCloses
  <1> HIDE DEF os
  <1>3. Fits(CloseAll(p, os), DaemonHas \ os, 15, full)
    BY <1>1, FitsClose
  <1> QED
    BY <1>2, <1>3

\* The connection, and the pair for SIGHUP, before or after it.
LEMMA AcceptFits ==
    ASSUME NEW t \in {"m", "q", "d"}, NEW boot, NEW p, NEW full,
           Fits(p, BoosterHas(t), 15, full), NEW q \in AcceptedBy(p, t, boot)
    PROVE  Fits(q, Accepted(t, boot), 18, full)
  <1> DEFINE S == BoosterHas(t)
             r == Log(p)
  <1>1. S \in SUBSET Plain
    BY SocketOf
  <1>2. /\ "conn" \in Plain \ S /\ "hup0" \in Plain \ S /\ "hup1" \in Plain \ S
        /\ S \cup {"conn"} \in SUBSET Plain /\ S \cup {"hup0", "hup1"} \in SUBSET Plain
        /\ "hup0" \in Plain \ (S \cup {"conn"}) /\ "hup1" \in Plain \ (S \cup {"conn"})
        /\ "conn" \in Plain \ (S \cup {"hup0", "hup1"})
    <2>1. "conn" \notin S /\ "hup0" \notin S /\ "hup1" \notin S
      BY SocketOf DEF BoosterHas, Socks
    <2>2. "conn" \in Plain /\ "hup0" \in Plain /\ "hup1" \in Plain
      BY DEF Plain, Objects
    <2> HIDE DEF S
    <2> QED
      BY <1>1, <2>1, <2>2
  <1>3. 15 < MaxFd /\ 16 < MaxFd /\ 17 < MaxFd /\ 15 + 1 < MaxFd /\ 16 + 1 < MaxFd
    BY DescriptorsAssumption
  <1>4. CASE t = "m" /\ ~boot
    <2>1. \/ q = OpenPair(Open(r, "conn"), "hup0", "hup1")
          \/ q = Open(OpenPair(r, "hup0", "hup1"), "conn")
      BY <1>4 DEF AcceptedBy
    <2>2. Accepted(t, boot) = (S \cup {"conn"}) \cup {"hup0", "hup1"}
      BY <1>4 DEF Accepted, HupPair
    <2>3. (S \cup {"conn"}) \cup {"hup0", "hup1"} = (S \cup {"hup0", "hup1"}) \cup {"conn"}
      OBVIOUS
    <2> HIDE DEF S
    <2>4. Fits(r, S, 15, full)
      BY <1>1, <1>3, FitsLog DEF S
    <2> HIDE DEF r
    <2>5. Fits(OpenPair(Open(r, "conn"), "hup0", "hup1"), Accepted(t, boot), 18, full)
      <3>1. Fits(Open(r, "conn"), S \cup {"conn"}, 15 + 1, full)
        BY <1>1, <1>2, <1>3, <2>4, FitsOpen
      <3>2. Fits(Open(r, "conn"), S \cup {"conn"}, 16, full)
        BY <3>1
      <3>3. Fits(OpenPair(Open(r, "conn"), "hup0", "hup1"),
                 (S \cup {"conn"}) \cup {"hup0", "hup1"}, 16 + 2, full)
        BY <1>2, <1>3, <3>2, FitsPair
      <3> QED
        BY <2>2, <3>3
    <2>6. Fits(Open(OpenPair(r, "hup0", "hup1"), "conn"), Accepted(t, boot), 18, full)
      <3>1. Fits(OpenPair(r, "hup0", "hup1"), S \cup {"hup0", "hup1"}, 15 + 2, full)
        BY <1>1, <1>2, <1>3, <2>4, FitsPair
      <3>2. Fits(OpenPair(r, "hup0", "hup1"), S \cup {"hup0", "hup1"}, 17, full)
        BY <3>1
      <3>3. Fits(Open(OpenPair(r, "hup0", "hup1"), "conn"),
                 (S \cup {"hup0", "hup1"}) \cup {"conn"}, 17 + 1, full)
        BY <1>2, <1>3, <3>2, FitsOpen
      <3> QED
        BY <2>2, <2>3, <3>3
    <2> QED
      BY <2>1, <2>5, <2>6
  <1>5. CASE ~(t = "m" /\ ~boot)
    <2>1. q = Open(p, "conn")
      BY <1>5 DEF AcceptedBy
    <2>2. Accepted(t, boot) = S \cup {"conn"}
      BY <1>5 DEF Accepted, HupPair
    <2>3. Fits(q, S \cup {"conn"}, 15 + 1, full)
      BY <1>1, <1>2, <1>3, <2>1, FitsOpen
    <2>4. Fits(q, S \cup {"conn"}, 16, full)
      BY <2>3
    <2> HIDE DEF S
    <2> QED
      BY <2>2, <2>4, FitsMore
  <1> QED
    BY <1>4, <1>5

IOs == {"io0", "io1", "io2"}

\* The invoker's descriptors.
LEMMA IOFits ==
    ASSUME NEW p, NEW S \in SUBSET Plain, S \cap IOs = {}, NEW full, Fits(p, S, 18, full)
    PROVE  Fits(ReceiveIO(p), S \cup IOs, 21, full)
  <1>1. /\ "io0" \in Plain \ S
        /\ S \cup {"io0"} \in SUBSET Plain /\ "io1" \in Plain \ (S \cup {"io0"})
        /\ (S \cup {"io0"}) \cup {"io1"} \in SUBSET Plain
        /\ "io2" \in Plain \ ((S \cup {"io0"}) \cup {"io1"})
        /\ ((S \cup {"io0"}) \cup {"io1"}) \cup {"io2"} = S \cup IOs
    <2>1. "io0" \in Plain /\ "io1" \in Plain /\ "io2" \in Plain
      BY DEF Plain, Objects
    <2> QED
      BY <2>1 DEF IOs
  <1>2. 18 < MaxFd /\ 19 < MaxFd /\ 20 < MaxFd
    BY DescriptorsAssumption
  <1>3. Fits(Open(p, "io0"), S \cup {"io0"}, 19, full)
    <2>1. Fits(Open(p, "io0"), S \cup {"io0"}, 18 + 1, full)
      BY <1>1, <1>2, FitsOpen
    <2> QED
      BY <2>1
  <1>4. Fits(Open(Open(p, "io0"), "io1"), (S \cup {"io0"}) \cup {"io1"}, 20, full)
    <2>1. Fits(Open(Open(p, "io0"), "io1"), (S \cup {"io0"}) \cup {"io1"}, 19 + 1, full)
      BY <1>1, <1>2, <1>3, FitsOpen
    <2> QED
      BY <2>1
  <1>5. Fits(ReceiveIO(p), ((S \cup {"io0"}) \cup {"io1"}) \cup {"io2"}, 21, full)
    <2>1. Fits(ReceiveIO(p), ((S \cup {"io0"}) \cup {"io1"}) \cup {"io2"}, 20 + 1, full)
      BY <1>1, <1>2, <1>4, FitsOpen DEF ReceiveIO
    <2> QED
      BY <2>1
  <1> QED
    BY <1>1, <1>5

-----------------------------------------------------------------------------
(* The application                                                         *)

\* closeAllSockets() closes the booster's socket, if that is the only one.
LEMMA SocketsClosed ==
    ASSUME NEW p \in Processes
    PROVE  /\ CloseAllSockets(p) \in Processes
           /\ \A S \in SUBSET Plain, o \in Socks :
                Has(p, S) /\ S \cap Socks = {o} => Has(CloseAllSockets(p), S \ {o})
  <1> DEFINE os == {x \in Socks : p.num[x] > 0}
             r == CloseAll(p, os)
             q == CloseAllSockets(p)
  <1>1. ClosedAll(p, os, r)
    BY Closes
  <1>2. q = [r EXCEPT !.num = [x \in Objects |-> IF x \in Socks THEN -1 ELSE p.num[x]]]
    BY DEF CloseAllSockets
  <1> HIDE DEF r, q
  <1>3. q \in Processes /\ q.tab = r.tab
    BY <1>1, <1>2 DEF ClosedAll, Processes
  <1>4. ASSUME NEW S \in SUBSET Plain, NEW o \in Socks, Has(p, S), S \cap Socks = {o}
        PROVE  Has(q, S \ {o})
    <2>1. "log" \notin Socks /\ Socks \subseteq Objects \ {"null", "log"}
      BY DEF Socks, Objects
    <2>2. p.num[o] \in 3..MaxFd /\ \A x \in Socks \ {o} : p.num[x] = -1
      <3>1. Logged(p) \subseteq {"log"}
        BY DEF Logged
      <3> QED
        BY <1>4, <2>1, <3>1 DEF Has
    <2>3. os = {o}
      <3>1. p.num[o] > 0 /\ \A x \in Socks \ {o} : ~(p.num[x] > 0)
        BY <2>2, DescriptorsAssumption
      <3> QED
        BY <3>1
    <2>4. ASSUME NEW x \in Objects PROVE q.num[x] = IF x \in {o} THEN -1 ELSE p.num[x]
      <3>1. q.num[x] = IF x \in Socks THEN -1 ELSE p.num[x]
        BY <1>1, <1>2 DEF ClosedAll, Processes
      <3> QED
        BY <2>2, <3>1
    <2>5. ClosedAll(p, {o}, q)
      BY <1>1, <1>3, <2>3, <2>4 DEF ClosedAll
    <2> QED
      BY <1>4, <2>5, HasClose
  <1> QED
    BY <1>3, <1>4 DEF q

\* One round of the dup2() loop.
LEMMA Dups ==
    ASSUME NEW p \in Processes, NEW i \in 0..2
    PROVE  /\ Dup(p, i) \in Processes
           /\ p.num[IO[i + 1]] > 0 => Moved(p, p.num[IO[i + 1]], i, Dup(p, i))
  <1>1. IO[i + 1] \in Objects
    BY DEF IO, Objects
  <1>2. p.num[IO[i + 1]] \in Fd \cup {-1}
    BY <1>1 DEF Processes
  <1> DEFINE n == p.num[IO[i + 1]]
  <1>3. Dup(p, i) = IF n > 0 THEN Move(p, n, i) ELSE p
    BY DEF Dup
  <1> HIDE DEF n
  <1>4. CASE n > 0
    <2>1. n \in Fd
      BY <1>2, <1>4 DEF n
    <2>2. Moved(p, n, i, Move(p, n, i))
      BY <2>1, Moves
    <2> QED
      BY <1>3, <1>4, <2>2 DEF Moved, n
  <1>5. CASE ~(n > 0)
    BY <1>3, <1>5 DEF n
  <1> QED
    BY <1>4, <1>5

\* What the application has: the invoker's descriptors, and what else was not
\* closed, without the syslog connection.
HandedOver(q, S) ==
    /\ \A i \in 0..2 : q.tab[i] = IO[i + 1]
    /\ \A n \in Fd \ 0..2 : q.tab[n] # Closed => q.tab[n] \in S
    /\ \A o \in S : q.tab[q.num[o]] = o

\* A process that holds the received descriptors hands them over.
LEMMA Launched ==
    ASSUME NEW p \in Processes
    PROVE  /\ Close(DupIO(p), "log") \in Processes
           /\ \A S \in SUBSET Plain : Has(p, S \cup IOs) /\ S \cap IOs = {} =>
                HandedOver(Close(DupIO(p), "log"), S)
  <1> DEFINE p1 == Dup(p, 0)
             p2 == Dup(p1, 1)
             p3 == Dup(p2, 2)
             q == Close(p3, "log")
  <1>1. q = Close(DupIO(p), "log")
    BY DEF DupIO
  <1>2. 0 \in 0..2 /\ 1 \in 0..2 /\ 2 \in 0..2
    OBVIOUS
  <1>3. p1 \in Processes /\ (p.num[IO[0 + 1]] > 0 => Moved(p, p.num[IO[0 + 1]], 0, p1))
    BY <1>2, Dups
  <1> HIDE DEF p1
  <1>4. p2 \in Processes /\ (p1.num[IO[1 + 1]] > 0 => Moved(p1, p1.num[IO[1 + 1]], 1, p2))
    BY <1>2, <1>3, Dups
  <1> HIDE DEF p2
  <1>5. p3 \in Processes /\ (p2.num[IO[2 + 1]] > 0 => Moved(p2, p2.num[IO[2 + 1]], 2, p3))
    BY <1>2, <1>4, Dups
  <1> HIDE DEF p3
  <1>6. ClosedAll(p3, {"log"}, q)
    BY <1>5, Closes DEF Close
  <1> HIDE DEF q
  <1>7. /\ IO[0 + 1] = "io0" /\ IO[1 + 1] = "io1" /\ IO[2 + 1] = "io2"
        /\ IO[1] = "io0" /\ IO[2] = "io1" /\ IO[3] = "io2"
    BY DEF IO
  <1>8. ASSUME NEW S \in SUBSET Plain, Has(p, S \cup IOs), S \cap IOs = {}
        PROVE  HandedOver(q, S)
    <2> DEFINE a == p.num["io0"]
               b == p.num["io1"]
               c == p.num["io2"]
               l == p.num["log"]
    <2>1. /\ a \in 3..MaxFd /\ p.tab[a] = "io0"
          /\ b \in 3..MaxFd /\ p.tab[b] = "io1"
          /\ c \in 3..MaxFd /\ p.tab[c] = "io2"
          /\ "log" \in Objects /\ "log" \notin S
      BY <1>8 DEF Has, IOs, Plain, Objects
    <2>2. /\ a > 0 /\ b > 0 /\ c > 0 /\ a # b /\ b # c /\ a # c
          /\ a \in Fd \ 0..2 /\ b \in Fd \ 0..2 /\ c \in Fd \ 0..2
          /\ 0 \in Fd /\ 1 \in Fd /\ 2 \in Fd
      BY <2>1, DescriptorsAssumption DEF Fd
    <2>3. l = -1 \/ (l \in Fd \ 0..2 /\ p.tab[l] = "log")
      BY <1>8, DescriptorsAssumption DEF Has, Logged, Fd
    <2>4. Moved(p, a, 0, p1) /\ p1.num = p.num
      BY <1>3, <1>7, <2>2 DEF Moved
    <2>5. Moved(p1, b, 1, p2) /\ p2.num = p.num
      BY <1>4, <1>7, <2>2, <2>4 DEF Moved
    <2>6. Moved(p2, c, 2, p3) /\ p3.num = p.num
      BY <1>5, <1>7, <2>2, <2>5 DEF Moved
    <2> HIDE DEF a, b, c, l
    <2>7. p3.tab[0] = "io0" /\ p3.tab[1] = "io1" /\ p3.tab[2] = "io2"
      <3>1. p1.tab[0] = "io0" /\ p1.tab[b] = "io1" /\ p1.tab[c] = "io2"
        BY <2>1, <2>2, <2>4 DEF Moved
      <3>2. p2.tab[0] = "io0" /\ p2.tab[1] = "io1" /\ p2.tab[c] = "io2"
        BY <2>2, <2>5, <3>1 DEF Moved
      <3> QED
        BY <2>2, <2>6, <3>2 DEF Moved
    <2>8. \A n \in Fd \ 0..2 : p3.tab[n] = IF n \in {a, b, c} THEN Closed ELSE p.tab[n]
      BY <2>2, <2>4, <2>5, <2>6 DEF Moved
    <2>9. /\ \A n \in Fd : q.tab[n] = IF n = l THEN Closed ELSE p3.tab[n]
          /\ \A o \in Objects \ {"log"} : q.num[o] = p.num[o]
      BY <1>6, <2>6 DEF ClosedAll, l
    <2>10. \A i \in 0..2 : q.tab[i] = IO[i + 1]
      <3>1. q.tab[0] = "io0" /\ q.tab[1] = "io1" /\ q.tab[2] = "io2"
        BY <2>2, <2>3, <2>7, <2>9
      <3>2. \A i \in 0..2 : i = 0 \/ i = 1 \/ i = 2
        OBVIOUS
      <3> QED
        BY <1>7, <3>1, <3>2
    <2>11. ASSUME NEW n \in Fd \ 0..2, q.tab[n] # Closed PROVE q.tab[n] \in S
      <3>1. n \notin {a, b, c} /\ n # l /\ q.tab[n] = p.tab[n]
        BY <2>8, <2>9, <2>11
      <3>2. n \in 3..MaxFd
        BY DescriptorsAssumption DEF Fd
      <3>3. p.tab[n] \in (S \cup IOs) \cup Logged(p) /\ p.num[p.tab[n]] = n
        BY <1>8, <2>11, <3>1, <3>2 DEF Has
      <3>4. p.tab[n] # "io0" /\ p.tab[n] # "io1" /\ p.tab[n] # "io2" /\ p.tab[n] # "log"
        BY <3>1, <3>3 DEF a, b, c, l
      <3> QED
        BY <3>1, <3>3, <3>4 DEF IOs, Logged
    <2>12. ASSUME NEW o \in S PROVE q.tab[q.num[o]] = o
      <3>1. o \in Objects \ {"log"} /\ o \notin IOs
        BY <1>8 DEF Plain
      <3>2. p.num[o] \in 3..MaxFd /\ p.tab[p.num[o]] = o
        BY <1>8 DEF Has
      <3>3. p.num[o] \in Fd \ 0..2
        BY <3>2, DescriptorsAssumption DEF Fd
      <3>4. p.num[o] \notin {a, b, c} /\ p.num[o] # l
        BY <2>1, <2>3, <3>1, <3>2, <3>3 DEF IOs
      <3> QED
        BY <2>8, <2>9, <3>1, <3>2, <3>3, <3>4
    <2> QED
      BY <2>10, <2>11, <2>12 DEF HandedOver
  <1>9. q \in Processes
    BY <1>6 DEF ClosedAll
  <1> QED
    BY <1>1, <1>8, <1>9

=============================================================================

---------------------------- MODULE SocketsProofs ----------------------------
(***************************************************************************)
(* Proofs about module Sockets, for every plugin directory, every number   *)
(* of daemons that follow one another and every set of invokers.           *)
(***************************************************************************)
EXTENDS Sockets, TLAPS

\* What the registry should hold after n files: of the good plugins of each
\* type the last one.
Entry(p) == [type |-> p.type, sock |-> p.sock]
Latest(n) ==
    {k \in 1..n : /\ dir[k].good
                  /\ \A j \in (k + 1)..n : dir[j].good => dir[j].type # dir[k].type}
Entries(n) == {Entry(dir[k]) : k \in Latest(n)}

NamesOf(d) == {e.sock : e \in Range(registry[d])}

\* The daemon has loaded its plugins.
Up == {"fork", "run", "readPid", "readDelay", "astray"}

\* The present daemon's registry grows file by file; those to come are empty.
RegistryOK ==
    /\ Range(registry[inc]) = Entries(loaded)
    /\ dpc \in Up => loaded = Len(dir)
    /\ \A d \in Daemons : d > inc => registry[d] = <<>>

\* The daemon's sockets, and the files that name them: a name has a file only
\* if a complete registry has it, so a daemon replaces every file there is.
FilesOK ==
    /\ dpc \in {"load", "dead"} => m_socketHash = {} /\ boosterPipe = <<>>
    /\ dpc \in Up =>
         /\ m_socketHash = NamesOf(inc)
         /\ \A n \in NamesOf(inc) : file[n] = inc
    /\ \A n \in Names : file[n] # 0 => n \in {e.sock : e \in Entries(Len(dir))}

\* A process was forked by a daemon that had loaded its plugins.  It has all
\* of that daemon's sockets until it has closed the unused ones, then that of
\* its type alone, then, perhaps, none.
ProcessOK(p) ==
    /\ p >= nextPid <=> pst[p] = "none"
    /\ pst[p] = "none" => serves[p] = None
    /\ pst[p] # "none" => /\ pdaemon[p] \in 1..inc
                          /\ pdaemon[p] = inc => dpc # "load"
    /\ pst[p] \in {"forked", "armed"} => fds[p] = NamesOf(pdaemon[p])
    /\ pst[p] \in DiesWithDaemon \ {"armed"} =>
         fds[p] = SockOf(pdaemon[p], ptype[p]) /\ fds[p] # {}
    /\ pst[p] = "app" =>
         fds[p] = IF serves[p] \in Waits THEN SockOf(pdaemon[p], ptype[p]) ELSE {}

ProcessesOK == \A p \in Pids : ProcessOK(p)

\* An invoker that is queued or served has connected, to the name of its type,
\* and to a socket of the daemon that it met.
QueueOK(s) ==
    \A i \in Range(backlog[s]) :
        ist[i] # "idle" /\ s[2] = wants[i] /\ met[i] \in {0, s[1]}
ServiceOK(p) ==
    serves[p] # None =>
        /\ ist[serves[p]] # "idle"
        /\ wants[serves[p]] \in SockOf(pdaemon[p], ptype[p])
        /\ met[serves[p]] \in {0, pdaemon[p]}

InvokersOK ==
    /\ \A s \in SocketIds : QueueOK(s)
    /\ \A p \in Pids : ServiceOK(p)

IInv == TypeOK /\ RegistryOK /\ FilesOK /\ ProcessesOK /\ InvokersOK

-----------------------------------------------------------------------------
(* The registry                                                            *)

\* What is explored is a plugin directory and what the invokers want.
LEMMA SettingOK == TypeOK => dir \in Seq(Plugins) /\ wants \in [Invokers -> Types]
  BY SocketsAssumption DEF TypeOK, setting

RegEntry == [type : Types, sock : Names]

\* What a sequence holds after an element is appended to it.
LEMMA AppendRange ==
    ASSUME NEW S, NEW q \in Seq(S), NEW e \in S
    PROVE  Append(q, e) \in Seq(S) /\ Range(Append(q, e)) = Range(q) \cup {e}
  <1> DEFINE new == Append(q, e)
  <1>1. /\ new \in Seq(S) /\ DOMAIN new = 1..(Len(q) + 1)
        /\ DOMAIN q = 1..Len(q) /\ Len(q) \in Nat
        /\ \A j \in 1..Len(q) : new[j] = q[j]
        /\ new[Len(q) + 1] = e
    OBVIOUS
  <1> HIDE DEF new
  <1>2. Range(new) = Range(q) \cup {e}
    BY <1>1 DEF Range
  <1> QED
    BY <1>1, <1>2 DEF new

\* registerPlugin leaves one entry of the plugin's type, the plugin's own, and
\* keeps the entries of the other types.
LEMMA RegisterRange ==
    ASSUME NEW r \in Seq(RegEntry), NEW p \in Plugins
    PROVE  /\ Register(r, p) \in Seq(RegEntry)
           /\ Range(Register(r, p)) =
                {e \in Range(r) : e.type # p.type} \cup {Entry(p)}
  <1>1. Entry(p) \in RegEntry /\ Entry(p).type = p.type
    BY DEF Entry, Plugins, RegEntry
  <1>2. CASE \E j \in DOMAIN r : r[j].type = p.type
    <2> DEFINE new == [j \in DOMAIN r |-> IF r[j].type = p.type THEN Entry(p)
                                          ELSE r[j]]
    <2>1. Register(r, p) = new
      BY <1>2 DEF Register, Entry
    <2>2. DOMAIN r = 1..Len(r) /\ Len(r) \in Nat /\ \A j \in 1..Len(r) : r[j] \in RegEntry
      OBVIOUS
    <2>3. new \in Seq(RegEntry) /\ DOMAIN new = DOMAIN r
      BY <1>1, <2>2
    <2>4. Range(new) = {e \in Range(r) : e.type # p.type} \cup {Entry(p)}
      BY <1>1, <1>2, <2>2, <2>3 DEF Range
    <2> QED
      BY <2>1, <2>3, <2>4
  <1>3. CASE \A j \in DOMAIN r : r[j].type # p.type
    <2>1. Register(r, p) = Append(r, Entry(p))
      BY <1>3 DEF Register, Entry
    <2>2. /\ Append(r, Entry(p)) \in Seq(RegEntry)
          /\ Range(Append(r, Entry(p))) = Range(r) \cup {Entry(p)}
      BY <1>1, AppendRange
    <2>3. Range(r) = {e \in Range(r) : e.type # p.type}
      BY <1>3 DEF Range
    <2> QED
      BY <2>1, <2>2, <2>3
  <1> QED
    BY <1>2, <1>3

\* What one more file adds to the entries there should be.
LEMMA EntriesStep ==
    ASSUME dir \in Seq(Plugins), NEW n \in Nat, n < Len(dir)
    PROVE  Entries(n + 1) =
             IF dir[n + 1].good
             THEN {e \in Entries(n) : e.type # dir[n + 1].type}
                    \cup {Entry(dir[n + 1])}
             ELSE Entries(n)
  <1>1. \A k \in 1..(n + 1) : dir[k] \in Plugins
    OBVIOUS
  <1>2. CASE ~dir[n + 1].good
    <2>1. Latest(n + 1) = Latest(n)
      BY <1>2 DEF Latest
    <2> QED
      BY <1>2, <2>1 DEF Entries
  <1>3. CASE dir[n + 1].good
    <2>1. Latest(n + 1) = {k \in Latest(n) : dir[k].type # dir[n + 1].type} \cup {n + 1}
      BY <1>3 DEF Latest
    <2>2. \A k \in 1..(n + 1) : Entry(dir[k]).type = dir[k].type
      BY DEF Entry
    <2>3. Latest(n) \subseteq 1..(n + 1)
      BY DEF Latest
    <2>4. Entries(n + 1) = {e \in Entries(n) : e.type # dir[n + 1].type}
                    \cup {Entry(dir[n + 1])}
      BY <2>1, <2>2, <2>3 DEF Entries
    <2> QED
      BY <1>3, <2>4
  <1> QED
    BY <1>2, <1>3

\* The names in a registry are names: those of a given type and those of the
\* others.
LEMMA RegistryNames ==
    ASSUME TypeOK, NEW d \in Daemons
    PROVE  /\ Range(registry[d]) \subseteq RegEntry
           /\ NamesOf(d) \subseteq Names
           /\ \A t : /\ SockOf(d, t) \subseteq Names
                     /\ NamesOf(d) = SockOf(d, t) \cup OtherSocks(d, t)
  <1>1. registry[d] \in Seq(RegEntry)
    BY DEF TypeOK, RegEntry
  <1>2. Range(registry[d]) \subseteq RegEntry
    BY <1>1 DEF Range
  <1> QED
    BY <1>2 DEF NamesOf, SockOf, OtherSocks, RegEntry

-----------------------------------------------------------------------------
(* What the kernel does when descriptors are closed                        *)

\* What a step does to the invokers when it accepts and connects none.
InvokersSettled ==
    /\ UNCHANGED met
    /\ backlog' \in [SocketIds -> Seq(Invokers)]
    /\ \A s \in SocketIds : backlog'[s] \in {backlog[s], <<>>}
    /\ ist' \in [Invokers -> {"idle", "queued", "accepted", "over"}]
    /\ \A i \in Invokers : ist'[i] \in {ist[i], "over"}

\* Closing descriptors empties backlogs and ends invocations, nothing else.
LEMMA Closing ==
    ASSUME TypeOK, NEW hash, NEW f
    PROVE  /\ Backlogs(hash, f) \in [SocketIds -> Seq(Invokers)]
           /\ \A s \in SocketIds : Backlogs(hash, f)[s] \in {backlog[s], <<>>}
           /\ Told(hash, f) \in [Invokers -> {"idle", "queued", "accepted", "over"}]
           /\ \A i \in Invokers : Told(hash, f)[i] \in {ist[i], "over"}
  <1>1. <<>> \in Seq(Invokers)
    OBVIOUS
  <1> QED
    BY <1>1 DEF Backlogs, Told, TypeOK

\* The end of a process concerns that process and invokers.
LEMMA EndOfProcess ==
    ASSUME TypeOK, NEW p \in Pids, EndProcess(p), UNCHANGED met
    PROVE  /\ InvokersSettled
           /\ fds' = [fds EXCEPT ![p] = {}]
           /\ serves' = [serves EXCEPT ![p] = None]
           /\ \E to \in {"zombie", "gone"} : pst' = [pst EXCEPT ![p] = to]
  <1> DEFINE f == [fds EXCEPT ![p] = {}]
  <1>1. /\ fds' = f
        /\ serves' = [serves EXCEPT ![p] = None]
        /\ \E to \in {"zombie", "gone"} : pst' = [pst EXCEPT ![p] = to]
        /\ backlog' = Backlogs(m_socketHash, f)
        /\ ist' = [i \in Invokers |-> IF serves[p] = i THEN "over"
                                      ELSE Told(m_socketHash, f)[i]]
    BY DEF EndProcess
  <1> HIDE DEF f
  <1>2. InvokersSettled
    BY <1>1, Closing DEF InvokersSettled
  <1> QED
    BY <1>1, <1>2 DEF f

\* The end of the daemon ends some of its processes.
LEMMA EndOfDaemon ==
    ASSUME TypeOK, DaemonEnds, UNCHANGED met
    PROVE  /\ InvokersSettled
           /\ dpc' = "dead" /\ m_socketHash' = {} /\ boosterPipe' = <<>>
           /\ pst' \in [Pids -> Stages] /\ fds' \in [Pids -> SUBSET Names]
           /\ serves' \in [Pids -> Invokers \cup {None}]
           /\ \A p \in Pids :
                \/ pst'[p] = "gone" /\ pst[p] # "none" /\ serves'[p] \in {serves[p], None}
                \/ pst'[p] = pst[p] /\ fds'[p] = fds[p] /\ serves'[p] = serves[p]
  <1> DEFINE dies == {p \in Pids : pdaemon[p] = inc /\ pst[p] \in DiesWithDaemon}
             f    == [p \in Pids |-> IF p \in dies THEN {} ELSE fds[p]]
  <1>1. /\ dpc' = "dead" /\ m_socketHash' = {} /\ boosterPipe' = <<>>
        /\ fds' = f
        /\ pst' = [p \in Pids |-> IF p \in dies \/ pst[p] = "zombie" THEN "gone"
                                  ELSE pst[p]]
        /\ serves' = [p \in Pids |-> IF p \in dies THEN None ELSE serves[p]]
        /\ backlog' = Backlogs({}, f)
        /\ ist' = [i \in Invokers |-> IF \E p \in dies : serves[p] = i THEN "over"
                                      ELSE Told({}, f)[i]]
    BY DEF DaemonEnds
  <1>2. \A p \in dies : pst[p] # "none"
    BY DEF DiesWithDaemon
  <1>3. f \in [Pids -> SUBSET Names]
    BY DEF TypeOK
  <1> HIDE DEF f, dies
  <1>4. InvokersSettled
    BY <1>1, Closing DEF InvokersSettled
  <1>5. /\ pst' \in [Pids -> Stages]
        /\ serves' \in [Pids -> Invokers \cup {None}]
    BY <1>1 DEF TypeOK, Stages
  <1>6. \A p \in Pids : p \notin dies => f[p] = fds[p]
    BY DEF f
  <1> QED
    BY <1>1, <1>2, <1>3, <1>4, <1>5, <1>6

-----------------------------------------------------------------------------
(* What a step keeps by leaving things alone                               *)

\* The step touches neither the registries nor the files.
SameRegistry == UNCHANGED <<dir, wants, inc, loaded, registry, file>>

\* The daemon's bookkeeping stays right when it does not start over.
LEMMA SameFiles ==
    ASSUME RegistryOK, FilesOK, SameRegistry,
           dpc' \in Up => dpc \in Up /\ m_socketHash' = m_socketHash,
           dpc' \in {"load", "dead"} => m_socketHash' = {} /\ boosterPipe' = <<>>
    PROVE  RegistryOK' /\ FilesOK'
  <1>1. /\ dir' = dir /\ inc' = inc /\ loaded' = loaded /\ registry' = registry
        /\ file' = file
    BY DEF SameRegistry
  <1>2. \A n : Entries(n)' = Entries(n)
    BY <1>1 DEF Entries, Latest
  <1>3. NamesOf(inc)' = NamesOf(inc)
    BY <1>1 DEF NamesOf
  <1>4. RegistryOK'
    BY <1>1, <1>2 DEF RegistryOK
  <1>5. FilesOK'
    BY <1>1, <1>2, <1>3 DEF FilesOK
  <1> QED
    BY <1>4, <1>5

\* The step does not concern process p.
SameProcess(p) ==
    /\ pst'[p] = pst[p] /\ ptype'[p] = ptype[p] /\ pdaemon'[p] = pdaemon[p]
    /\ fds'[p] = fds[p] /\ serves'[p] = serves[p]

\* Such a process stays in order, as long as its pid is not given out, its
\* daemon's registry stays and that daemon is not started over.
LEMMA UntouchedProcess ==
    ASSUME TypeOK, NEW p \in Pids, ProcessOK(p), SameProcess(p),
           p >= nextPid' <=> p >= nextPid,
           pst[p] # "none" => registry'[pdaemon[p]] = registry[pdaemon[p]],
           inc' >= inc, inc' \in Daemons, dpc' = "load" => dpc = "load" \/ inc' > inc
    PROVE  ProcessOK(p)'
  <1>1. /\ inc \in Nat /\ inc' \in Nat
        /\ pst[p] # "none" => pdaemon[p] \in Nat /\ pdaemon[p] <= inc
    BY SocketsAssumption DEF TypeOK, Daemons, ProcessOK
  <1>2. CASE pst[p] = "none"
    BY <1>2 DEF ProcessOK, SameProcess, DiesWithDaemon
  <1>3. CASE pst[p] # "none"
    <2>1. /\ NamesOf(pdaemon[p])' = NamesOf(pdaemon[p])
          /\ SockOf(pdaemon[p], ptype[p])' = SockOf(pdaemon[p], ptype[p])
      BY <1>3 DEF SameProcess, NamesOf, SockOf
    <2>2. pdaemon'[p] \in 1..inc' /\ (pdaemon'[p] = inc' => dpc' # "load")
      BY <1>1, <1>3 DEF ProcessOK, SameProcess
    <2> QED
      BY <1>3, <2>1, <2>2 DEF ProcessOK, SameProcess
  <1> QED
    BY <1>2, <1>3

\* A process that ends has nothing to answer for.
LEMMA EndedProcess ==
    ASSUME NEW p \in Pids, ProcessOK(p), SameRegistry,
           pst[p] # "none", pst'[p] \in {"zombie", "gone"},
           UNCHANGED <<nextPid, ptype, pdaemon>>, dpc' = "load" => dpc = "load"
    PROVE  ProcessOK(p)'
  <1>1. registry' = registry /\ inc' = inc
    BY DEF SameRegistry
  <1> QED
    BY <1>1 DEF ProcessOK, DiesWithDaemon

\* The invokers stay in order when none is accepted or connected and no
\* process that serves one changes hands.
LEMMA UntouchedInvokers ==
    ASSUME TypeOK, InvokersOK, InvokersSettled, wants' = wants,
           \A p \in Pids : serves[p] # None =>
               /\ pdaemon'[p] = pdaemon[p] /\ ptype'[p] = ptype[p]
               /\ registry'[pdaemon[p]] = registry[pdaemon[p]],
           \A p \in Pids : serves'[p] \in {serves[p], None}
    PROVE  InvokersOK'
  <1>1. ASSUME NEW s \in SocketIds PROVE QueueOK(s)'
    <2>1. SUFFICES ASSUME NEW i \in Range(backlog'[s])
                   PROVE  ist'[i] # "idle" /\ s[2] = wants[i] /\ met'[i] \in {0, s[1]}
      BY DEF QueueOK
    <2>2. backlog'[s] = backlog[s] /\ backlog[s] \in Seq(Invokers)
      <3>1. Range(<<>>) = {}
        BY DEF Range
      <3> QED
        BY <2>1, <3>1 DEF InvokersSettled, TypeOK
    <2>3. i \in Invokers /\ i \in Range(backlog[s])
      BY <2>1, <2>2 DEF Range
    <2>4. ist[i] # "idle" /\ s[2] = wants[i] /\ met[i] \in {0, s[1]}
      BY <2>3 DEF InvokersOK, QueueOK
    <2> QED
      BY <2>3, <2>4 DEF InvokersSettled
  <1>2. ASSUME NEW p \in Pids PROVE ServiceOK(p)'
    <2>1. CASE serves'[p] = None
      BY <2>1 DEF ServiceOK
    <2>2. CASE serves'[p] # None
      <3>1. serves'[p] = serves[p] /\ serves[p] \in Invokers
        BY <2>2 DEF TypeOK
      <3>2. ServiceOK(p)
        BY DEF InvokersOK
      <3>3. SockOf(pdaemon[p], ptype[p])' = SockOf(pdaemon[p], ptype[p])
        BY <2>2, <3>1 DEF SockOf
      <3> QED
        BY <2>2, <3>1, <3>2, <3>3 DEF ServiceOK, InvokersSettled
    <2> QED
      BY <2>1, <2>2
  <1> QED
    BY <1>1, <1>2 DEF InvokersOK

-----------------------------------------------------------------------------
(* The daemon                                                              *)

\* A step that ends the daemon keeps the invariant.
LEMMA DaemonEndsStep ==
    ASSUME IInv, DaemonEnds, SameRegistry,
           UNCHANGED <<cur, msgType, nextPid, ptype, pdaemon, met>>
    PROVE  IInv'
  <1>1. /\ InvokersSettled
        /\ dpc' = "dead" /\ m_socketHash' = {} /\ boosterPipe' = <<>>
        /\ pst' \in [Pids -> Stages] /\ fds' \in [Pids -> SUBSET Names]
        /\ serves' \in [Pids -> Invokers \cup {None}]
        /\ \A p \in Pids :
             \/ pst'[p] = "gone" /\ pst[p] # "none" /\ serves'[p] \in {serves[p], None}
             \/ pst'[p] = pst[p] /\ fds'[p] = fds[p] /\ serves'[p] = serves[p]
    BY EndOfDaemon DEF IInv
  <1>2. /\ <<>> \in Seq(Words)
        /\ inc \in Nat /\ inc \in Daemons
    BY SocketsAssumption DEF IInv, TypeOK, Daemons
  <1>3. TypeOK'
    BY <1>1, <1>2 DEF IInv, TypeOK, SameRegistry, InvokersSettled, setting, DaemonPCs
  <1>4. RegistryOK' /\ FilesOK'
    BY <1>1, <1>2, SameFiles DEF IInv, Up
  <1>5. ASSUME NEW p \in Pids PROVE ProcessOK(p)'
    <2>1. ProcessOK(p)
      BY DEF IInv, ProcessesOK
    <2>2. CASE SameProcess(p)
      BY <1>1, <1>2, <2>1, <2>2, UntouchedProcess DEF IInv, SameRegistry
    <2>3. CASE pst'[p] = "gone" /\ pst[p] # "none"
      BY <1>1, <2>1, <2>3, EndedProcess
    <2> QED
      BY <1>1, <2>2, <2>3 DEF SameProcess
  <1>6. InvokersOK'
    <2>1. registry' = registry /\ wants' = wants /\ \A p \in Pids : serves'[p] \in {serves[p], None}
      BY <1>1 DEF SameRegistry
    <2> QED
      BY <1>1, <2>1, UntouchedInvokers DEF IInv
  <1> QED
    BY <1>3, <1>4, <1>5, <1>6 DEF IInv, ProcessesOK

\* forkBooster for any char keeps the invariant: the child has all the
\* sockets, and it is the daemon's.
LEMMA ForkStep ==
    ASSUME IInv, dpc \in Up, SameRegistry, UNCHANGED <<msgType, met>>,
           NEW t \in Chars, NEW st \in [Pids -> Stages],
           NEW pipe \in Seq(Words), NEW pc \in Up,
           \A p \in Pids : st[p] = pst[p] \/ (pst[p] = "zombie" /\ st[p] = "gone"),
           ForkBooster(t, st, pipe, pc)
    PROVE  IInv'
  <1>0. /\ MaxPid \in Nat /\ inc \in Nat /\ inc \in Daemons /\ inc \in 0..MaxDaemons
        /\ nextPid \in 1..(MaxPid + 1)
    BY SocketsAssumption DEF IInv, TypeOK, Daemons
  <1>1. CASE nextPid > MaxPid
    BY <1>0, <1>1, DaemonEndsStep DEF ForkBooster
  <1>2. CASE ~(nextPid > MaxPid)
    <2>1. /\ nextPid \in Pids
          /\ pst'     = [st EXCEPT ![nextPid] = "forked"]
          /\ ptype'   = [ptype EXCEPT ![nextPid] = t]
          /\ pdaemon' = [pdaemon EXCEPT ![nextPid] = inc]
          /\ fds'     = [fds EXCEPT ![nextPid] = m_socketHash]
          /\ cur'     = [cur EXCEPT ![t] = nextPid]
          /\ nextPid' = nextPid + 1
          /\ boosterPipe' = pipe
          /\ dpc' = pc
          /\ UNCHANGED <<m_socketHash, serves, backlog, ist>>
      BY <1>0, <1>2 DEF ForkBooster, Pids
    <2>2. /\ dir' = dir /\ wants' = wants /\ inc' = inc /\ loaded' = loaded /\ registry' = registry
          /\ file' = file
      BY DEF SameRegistry
    <2>3. NamesOf(inc) \subseteq Names
      BY <1>0, RegistryNames DEF IInv
    <2>4. m_socketHash = NamesOf(inc)
      BY DEF IInv, FilesOK
    <2>5. TypeOK'
      <3>2. /\ pst' \in [Pids -> Stages] /\ ptype' \in [Pids -> Chars]
            /\ pdaemon' \in [Pids -> 0..MaxDaemons]
            /\ fds' \in [Pids -> SUBSET Names]
            /\ cur' \in [Chars -> 0..MaxPid] /\ nextPid' \in 1..(MaxPid + 1)
        BY <1>0, <2>1, <2>3, <2>4 DEF IInv, TypeOK, Stages, Boosters, Pids
      <3> QED
        BY <2>1, <2>2, <3>2 DEF IInv, TypeOK, setting, DaemonPCs, Up
    <2>6. RegistryOK' /\ FilesOK'
      BY <2>1, SameFiles DEF IInv, Up
    <2>7. ASSUME NEW p \in Pids PROVE ProcessOK(p)'
      <3>1. ProcessOK(p)
        BY DEF IInv, ProcessesOK
      <3>2. CASE p = nextPid
        <4>1. /\ pst'[p] = "forked" /\ ptype'[p] = t /\ pdaemon'[p] = inc
              /\ fds'[p] = NamesOf(inc)
          BY <2>1, <2>4, <3>2 DEF IInv, TypeOK
        <4>2. NamesOf(pdaemon[p])' = NamesOf(inc)
          BY <2>2, <4>1 DEF NamesOf
        <4>3. p \in Nat /\ ~(p >= nextPid') /\ inc \in 1..inc
          BY <1>0, <2>1, <3>2 DEF Daemons
        <4> QED
          BY <2>1, <2>2, <4>1, <4>2, <4>3 DEF ProcessOK, Up, DiesWithDaemon
      <3>3. CASE p # nextPid
        <4>1. /\ pst'[p] = st[p] /\ ptype'[p] = ptype[p] /\ pdaemon'[p] = pdaemon[p]
              /\ fds'[p] = fds[p] /\ serves'[p] = serves[p]
              /\ (p >= nextPid' <=> p >= nextPid)
          BY <1>0, <2>1, <3>3 DEF IInv, TypeOK, Pids
        <4>2. CASE st[p] = pst[p]
          BY <1>0, <2>1, <2>2, <3>1, <4>1, <4>2, UntouchedProcess
          DEF IInv, SameProcess, Up
        <4>3. CASE pst[p] = "zombie" /\ st[p] = "gone"
          BY <2>1, <2>2, <3>1, <4>1, <4>3 DEF ProcessOK, DiesWithDaemon, Up
        <4> QED
          BY <4>2, <4>3
      <3> QED
        BY <3>2, <3>3
    <2>8. InvokersOK'
      <3>1. InvokersSettled
        BY <2>1 DEF IInv, TypeOK, InvokersSettled
      <3>2. ASSUME NEW p \in Pids, serves[p] # None
            PROVE  pdaemon'[p] = pdaemon[p] /\ ptype'[p] = ptype[p]
        <4>1. p # nextPid
          BY <1>0, <2>1, <3>2 DEF IInv, ProcessesOK, ProcessOK
        <4> QED
          BY <2>1, <4>1 DEF IInv, TypeOK
      <3> QED
        BY <2>1, <2>2, <3>1, <3>2, UntouchedInvokers DEF IInv
    <2> QED
      BY <2>5, <2>6, <2>7, <2>8 DEF IInv, ProcessesOK
  <1> QED
    BY <1>1, <1>2

\* Before the first daemon has loaded anything the invariant holds.
LEMMA IInvInit == Init => IInv
  <1> SUFFICES ASSUME Init PROVE IInv
    OBVIOUS
  <1>0. /\ MaxPid \in Nat /\ MaxDaemons \in Nat \ {0} /\ Backlog \in Nat \ {0}
        /\ setting \in Settings
    <2>1. PICK x \in Settings : dir = x[1] /\ wants = x[2]
      BY DEF Init
    <2>2. x = <<x[1], x[2]>>
      BY SocketsAssumption, <2>1
    <2> QED
      BY SocketsAssumption, <2>1, <2>2 DEF setting
  <1>1. /\ <<>> \in Seq(Words) /\ <<>> \in Seq(Invokers)
        /\ <<>> \in Seq([type : Types, sock : Names])
    OBVIOUS
  <1>2. TypeOK
    BY <1>0, <1>1 DEF Init, TypeOK, Daemons, Stages, Chars, DaemonPCs
  <1>3. Range(<<>>) = {}
    BY DEF Range
  <1>4. Entries(0) = {}
    BY DEF Entries, Latest
  <1>5. RegistryOK
    <2>1. registry[inc] = <<>> /\ Entries(loaded) = Entries(0)
      BY <1>0 DEF Init, Daemons
    <2>2. Range(registry[inc]) = Entries(loaded)
      BY <1>3, <1>4, <2>1
    <2> QED
      BY <2>2 DEF Init, RegistryOK, Up
  <1>6. FilesOK
    BY <1>1 DEF Init, FilesOK, Up
  <1>7. ProcessesOK
    BY <1>0 DEF Init, ProcessesOK, ProcessOK, Pids, DiesWithDaemon
  <1>8. InvokersOK
    BY <1>3 DEF Init, InvokersOK, QueueOK, ServiceOK
  <1> QED
    BY <1>2, <1>5, <1>6, <1>7, <1>8 DEF IInv

\* The daemon starts up, with the processes and the invokers left alone.
LEMMA StartingStep ==
    ASSUME IInv, dpc = "load",
           UNCHANGED <<wants, inc, procVars, invokerVars>>,
           \A d \in Daemons \ {inc} : registry'[d] = registry[d],
           dpc' \in {"load", "fork"}
    PROVE  ProcessesOK' /\ InvokersOK'
  <1>0. inc \in Nat /\ inc \in Daemons /\ MaxDaemons \in Nat
    BY SocketsAssumption DEF IInv, TypeOK, Daemons
  <1>1. \A p \in Pids : pst[p] # "none" => registry'[pdaemon[p]] = registry[pdaemon[p]]
    BY <1>0 DEF IInv, ProcessesOK, ProcessOK, Daemons
  <1>2. ASSUME NEW p \in Pids PROVE ProcessOK(p)'
    BY <1>0, <1>1, UntouchedProcess
    DEF IInv, ProcessesOK, SameProcess, procVars
  <1>3. InvokersSettled
    BY DEF IInv, TypeOK, InvokersSettled, invokerVars
  <1>4. \A p \in Pids : serves[p] # None => pst[p] # "none"
    BY DEF IInv, ProcessesOK, ProcessOK
  <1>5. InvokersOK'
    BY <1>1, <1>3, <1>4, UntouchedInvokers DEF IInv, procVars
  <1> QED
    BY <1>2, <1>5 DEF ProcessesOK

\* One more plugin file.
LEMMA LoadStep == IInv /\ LoadBoosterPlugins => IInv'
  <1> SUFFICES ASSUME IInv, LoadBoosterPlugins PROVE IInv'
    OBVIOUS
  <1>0. /\ inc \in Nat /\ inc \in Daemons /\ dir \in Seq(Plugins) /\ loaded \in Nat
        /\ loaded < Len(dir) /\ dir[loaded + 1] \in Plugins
        /\ registry[inc] \in Seq(RegEntry) /\ dpc = "load"
    <2>1. inc \in Daemons /\ inc \in Nat /\ dir \in Seq(Plugins)
      <3>1. TypeOK
        BY DEF IInv
      <3>2. inc \in Daemons
        BY <3>1 DEF TypeOK
      <3> QED
        BY <3>1, <3>2, SettingOK, SocketsAssumption DEF Daemons
    <2>2. registry[inc] \in Seq(RegEntry)
      BY DEF IInv, TypeOK, RegEntry
    <2>3. loaded \in Nat /\ loaded < Len(dir) /\ dpc = "load"
      BY DEF IInv, TypeOK, LoadBoosterPlugins
    <2>4. loaded + 1 \in 1..Len(dir)
      BY <2>1, <2>3
    <2> QED
      BY <2>1, <2>2, <2>3, <2>4
  <1>1. /\ loaded' = loaded + 1
        /\ UNCHANGED <<dir, wants, dpc, inc, m_socketHash, file, cur, msgType,
                       boosterPipe, procVars, invokerVars>>
    BY DEF LoadBoosterPlugins, setting
  <1>2. /\ registry' \in [Daemons -> Seq(RegEntry)]
        /\ \A d \in Daemons \ {inc} : registry'[d] = registry[d]
        /\ Range(registry'[inc]) = Entries(loaded + 1)
    <2>1. CASE dir[loaded + 1].good
      <3>1. registry' = [registry EXCEPT ![inc] = Register(registry[inc], dir[loaded + 1])]
        BY <2>1 DEF LoadBoosterPlugins
      <3>2. /\ Register(registry[inc], dir[loaded + 1]) \in Seq(RegEntry)
            /\ Range(Register(registry[inc], dir[loaded + 1])) =
                 {e \in Range(registry[inc]) : e.type # dir[loaded + 1].type}
                   \cup {Entry(dir[loaded + 1])}
        BY <1>0, RegisterRange
      <3>3. Range(registry[inc]) = Entries(loaded)
        BY DEF IInv, RegistryOK
      <3> QED
        BY <1>0, <2>1, <3>1, <3>2, <3>3, EntriesStep DEF IInv, TypeOK, RegEntry
    <2>2. CASE ~dir[loaded + 1].good
      <3>1. registry' = registry
        BY <2>2 DEF LoadBoosterPlugins
      <3>2. Entries(loaded + 1) = Entries(loaded)
        BY <1>0, <2>2, EntriesStep
      <3> QED
        BY <3>1, <3>2 DEF IInv, TypeOK, RegistryOK, RegEntry
    <2> QED
      BY <2>1, <2>2
  <1>3. \A n : Entries(n)' = Entries(n)
    BY <1>1 DEF Entries, Latest
  <1>4. TypeOK'
    <2>1. loaded' \in 0..Len(dir')
      BY <1>0, <1>1
    <2> QED
      BY <1>1, <1>2, <2>1 DEF IInv, TypeOK, RegEntry, setting, procVars, invokerVars
  <1>5. RegistryOK'
    <2>1. Entries(loaded)' = Entries(loaded + 1)
      BY <1>1 DEF Entries, Latest
    <2>2. Range(registry[inc])' = Entries(loaded)'
      BY <1>1, <1>2, <2>1
    <2>3. \A d \in Daemons : d > inc' => registry'[d] = <<>>
      <3>1. \A d \in Daemons : d > inc => d # inc
        BY <1>0
      <3> QED
        BY <1>1, <1>2, <3>1 DEF IInv, RegistryOK
    <2> QED
      BY <1>0, <1>1, <2>2, <2>3 DEF RegistryOK, Up
  <1>6. FilesOK'
    <2>1. boosterPipe' = <<>>
      BY <1>0, <1>1 DEF IInv, FilesOK
    <2>2. Entries(Len(dir))' = Entries(Len(dir))
      BY <1>1 DEF Entries, Latest
    <2> QED
      BY <1>0, <1>1, <2>1, <2>2 DEF IInv, FilesOK, Up
  <1>7. ProcessesOK' /\ InvokersOK'
    BY <1>0, <1>1, <1>2, StartingStep
  <1> QED
    BY <1>4, <1>5, <1>6, <1>7 DEF IInv

\* The sockets are made, and their files made anew.
LEMMA SocketsStep == IInv /\ InitBoosterSockets => IInv'
  <1> SUFFICES ASSUME IInv, InitBoosterSockets PROVE IInv'
    OBVIOUS
  <1>0. inc \in Nat /\ inc \in Daemons /\ inc \in 0..MaxDaemons /\ inc # 0
    BY SocketsAssumption DEF IInv, TypeOK, Daemons
  <1>1. /\ dpc = "load" /\ loaded = Len(dir) /\ dpc' = "fork"
        /\ m_socketHash' = NamesOf(inc)
        /\ file' = [n \in Names |-> IF n \in NamesOf(inc) THEN inc ELSE file[n]]
        /\ UNCHANGED <<dir, wants, inc, loaded, registry, cur, msgType,
                       boosterPipe, procVars, invokerVars>>
    BY DEF InitBoosterSockets, NamesOf, setting
  <1>2. NamesOf(inc) \subseteq Names
    BY <1>0, RegistryNames DEF IInv
  <1>3. \A n : Entries(n)' = Entries(n)
    BY <1>1 DEF Entries, Latest
  <1>4. NamesOf(inc)' = NamesOf(inc)
    BY <1>1 DEF NamesOf
  <1>5. NamesOf(inc) = {e.sock : e \in Entries(Len(dir))}
    BY <1>1 DEF IInv, RegistryOK, NamesOf
  <1>6. TypeOK'
    BY <1>0, <1>1, <1>2 DEF IInv, TypeOK, setting, DaemonPCs, procVars, invokerVars
  <1>7. RegistryOK'
    BY <1>1, <1>3 DEF IInv, RegistryOK
  <1>8. FilesOK'
    <2>1. {e.sock : e \in Entries(Len(dir))}' = {e.sock : e \in Entries(Len(dir))}
      BY <1>1, <1>3
    <2> QED
      BY <1>0, <1>1, <1>2, <1>4, <1>5, <2>1 DEF IInv, FilesOK, Up
  <1>9. ProcessesOK' /\ InvokersOK'
    BY <1>1, StartingStep
  <1> QED
    BY <1>6, <1>7, <1>8, <1>9 DEF IInv

\* A new daemon starts with an empty registry; the files of the old one stay.
LEMMA RestartStep == IInv /\ DaemonRestarts => IInv'
  <1> SUFFICES ASSUME IInv, DaemonRestarts PROVE IInv'
    OBVIOUS
  <1>0. /\ inc \in Nat /\ inc \in Daemons /\ MaxDaemons \in Nat /\ inc + 1 \in Daemons
        /\ dir \in Seq(Plugins)
    <2>1. TypeOK
      BY DEF IInv
    <2>2. inc \in Daemons /\ inc < MaxDaemons
      BY <2>1 DEF TypeOK, DaemonRestarts
    <2> QED
      BY <2>1, <2>2, SocketsAssumption, SettingOK DEF Daemons
  <1>1. /\ dpc = "dead" /\ dpc' = "load" /\ inc' = inc + 1 /\ loaded' = 0
        /\ cur' = [t \in Chars |-> 0]
        /\ UNCHANGED <<dir, wants, registry, m_socketHash, file, msgType,
                       boosterPipe, procVars, invokerVars>>
    BY DEF DaemonRestarts, setting
  <1>2. Range(<<>>) = {} /\ Entries(0)' = {}
    BY DEF Range, Entries, Latest
  <1>3. registry'[inc'] = <<>>
    BY <1>0, <1>1 DEF IInv, RegistryOK
  <1>4. TypeOK'
    <2>1. cur' \in [Chars -> 0..MaxPid] /\ loaded' \in 0..Len(dir')
      BY <1>0, <1>1, SocketsAssumption
    <2> QED
      BY <1>0, <1>1, <2>1 DEF IInv, TypeOK, setting, DaemonPCs, procVars, invokerVars
  <1>5. RegistryOK'
    <2>1. Entries(loaded)' = {}
      BY <1>1 DEF Entries, Latest
    <2>2. Range(registry[inc])' = Entries(loaded)'
      BY <1>2, <1>3, <2>1
    <2>3. \A d \in Daemons : d > inc' => registry'[d] = <<>>
      BY <1>0, <1>1 DEF IInv, RegistryOK, Daemons
    <2> QED
      BY <1>1, <2>2, <2>3 DEF RegistryOK, Up
  <1>6. FilesOK'
    <2>1. boosterPipe' = <<>> /\ m_socketHash' = {}
      BY <1>0, <1>1 DEF IInv, FilesOK
    <2>2. Entries(Len(dir))' = Entries(Len(dir))
      BY <1>1 DEF Entries, Latest
    <2> QED
      BY <1>0, <1>1, <2>1, <2>2 DEF IInv, FilesOK, Up
  <1>7. ASSUME NEW p \in Pids PROVE ProcessOK(p)'
    BY <1>0, <1>1, UntouchedProcess DEF IInv, ProcessesOK, SameProcess, procVars
  <1>8. InvokersOK'
    <2>1. InvokersSettled
      BY <1>1 DEF IInv, TypeOK, InvokersSettled, invokerVars
    <2> QED
      BY <1>1, <2>1, UntouchedInvokers DEF IInv, procVars
  <1> QED
    BY <1>4, <1>5, <1>6, <1>7, <1>8 DEF IInv, ProcessesOK

\* A step of the daemon that leaves the processes, but for zombies reaped, and
\* the invokers alone keeps the invariant.
LEMMA LoopStep ==
    ASSUME IInv, dpc \in Up, dpc' \in Up, SameRegistry, msgType' \in Chars,
           UNCHANGED <<m_socketHash, cur, nextPid, ptype, pdaemon, fds, serves,
                       backlog, ist, met>>,
           boosterPipe' \in Seq(Words), pst' \in [Pids -> Stages],
           \A p \in Pids : pst'[p] = pst[p] \/ (pst[p] = "zombie" /\ pst'[p] = "gone")
    PROVE  IInv'
  <1>0. inc \in Nat /\ inc \in Daemons
    BY SocketsAssumption DEF IInv, TypeOK, Daemons
  <1>1. /\ dir' = dir /\ wants' = wants /\ inc' = inc /\ loaded' = loaded
        /\ registry' = registry /\ file' = file
    BY DEF SameRegistry
  <1>2. TypeOK'
    BY <1>1 DEF IInv, TypeOK, setting, DaemonPCs, Up
  <1>3. RegistryOK' /\ FilesOK'
    BY SameFiles DEF IInv, Up
  <1>4. ASSUME NEW p \in Pids PROVE ProcessOK(p)'
    <2>1. ProcessOK(p)
      BY DEF IInv, ProcessesOK
    <2>2. CASE pst'[p] = pst[p]
      BY <1>0, <1>1, <2>1, <2>2, UntouchedProcess DEF IInv, SameProcess, Up
    <2>3. CASE pst[p] = "zombie" /\ pst'[p] = "gone"
      BY <2>1, <2>3, EndedProcess DEF Up
    <2> QED
      BY <2>2, <2>3
  <1>5. InvokersSettled
    BY DEF IInv, TypeOK, InvokersSettled
  <1>6. InvokersOK'
    BY <1>1, <1>5, UntouchedInvokers DEF IInv
  <1> QED
    BY <1>2, <1>3, <1>4, <1>6 DEF IInv, ProcessesOK

\* Reading the booster pipe, in step and out of step, keeps the invariant.
LEMMA ReadStep ==
    IInv /\ (ReadType \/ ReadPid \/ ReadDelayAndFork \/ LoseStep \/ Astray) => IInv'
  <1> SUFFICES ASSUME IInv, ReadType \/ ReadPid \/ ReadDelayAndFork \/ LoseStep \/ Astray
               PROVE  IInv'
    OBVIOUS
  <1>0. boosterPipe \in Seq(Words) /\ pst \in [Pids -> Stages] /\ msgType \in Chars
    BY DEF IInv, TypeOK
  <1>1. boosterPipe # <<>> =>
          Head(boosterPipe).val \in Chars /\ Tail(boosterPipe) \in Seq(Words)
    <2>1. boosterPipe # <<>> =>
            Head(boosterPipe) \in Words /\ Tail(boosterPipe) \in Seq(Words)
      BY <1>0
    <2> QED
      BY <2>1 DEF Words
  <1>2. CASE ReadType
    <2>1. /\ boosterPipe # <<>> /\ dpc = "run" /\ dpc' = "readPid" /\ SameRegistry
          /\ msgType' = Head(boosterPipe).val /\ boosterPipe' = Tail(boosterPipe)
          /\ UNCHANGED <<m_socketHash, cur, procVars, backlog, ist, met>>
      BY <1>2 DEF ReadType, ReadWord, Take, SameRegistry, setting
    <2> QED
      BY <1>0, <1>1, <2>1, LoopStep DEF procVars, Up
  <1>3. CASE ReadPid
    <2>1. /\ boosterPipe # <<>> /\ dpc = "readPid" /\ dpc' = "readDelay" /\ SameRegistry
          /\ msgType' = msgType /\ boosterPipe' = Tail(boosterPipe)
          /\ UNCHANGED <<m_socketHash, cur, procVars, backlog, ist, met>>
      BY <1>3 DEF ReadPid, ReadWord, Take, SameRegistry, setting
    <2> QED
      BY <1>0, <1>1, <2>1, LoopStep DEF procVars, Up
  <1>4. CASE ReadDelayAndFork
    <2>1. /\ boosterPipe # <<>> /\ dpc = "readDelay" /\ SameRegistry
          /\ UNCHANGED <<msgType, met>>
          /\ ForkBooster(msgType, pst, Tail(boosterPipe), "run")
      BY <1>4 DEF ReadDelayAndFork, ReadWord, SameRegistry, setting
    <2> QED
      BY <1>0, <1>1, <2>1, ForkStep DEF Up
  <1>5. CASE LoseStep
    <2>1. /\ dpc \in Up /\ dpc' = "astray" /\ SameRegistry
          /\ UNCHANGED <<m_socketHash, cur, msgType, procVars, invokerVars>>
          /\ boosterPipe' = [j \in 1..(Begun[dpc] + Len(boosterPipe)) |-> Lost]
      BY <1>5 DEF LoseStep, SameRegistry, setting, Expected, Up
    <2>2. Begun[dpc] + Len(boosterPipe) \in Nat
      <3>1. dpc \in {"run", "readPid", "readDelay"}
        BY <1>5 DEF LoseStep, Expected
      <3> QED
        BY <1>0, <3>1 DEF Begun
    <2>3. Lost \in Words
      BY DEF Lost, Words, Chars
    <2>4. boosterPipe' \in Seq(Words)
      BY <2>1, <2>2, <2>3
    <2> QED
      BY <1>0, <2>1, <2>4, LoopStep DEF procVars, invokerVars, Up
  <1>6. CASE Astray
    <2>1. dpc = "astray" /\ SameRegistry /\ UNCHANGED <<msgType, met>>
      BY <1>6 DEF Astray, SameRegistry, setting
    <2> DEFINE rest == SubSeq(boosterPipe, 4, Len(boosterPipe))
    <2>2. CASE Len(boosterPipe) >= 3 /\ \E t \in Chars : ForkBooster(t, pst, rest, "astray")
      <3>1. PICK t \in Chars : ForkBooster(t, pst, rest, "astray")
        BY <2>2
      <3>2. rest \in Seq(Words)
        <4>1. Len(boosterPipe) \in Nat /\ \A j \in 1..Len(boosterPipe) : boosterPipe[j] \in Words
          BY <1>0
        <4>2. \A j \in 4..Len(boosterPipe) : boosterPipe[j] \in Words
          BY <4>1
        <4> QED
          BY <4>1, <4>2, <1>0
      <3> HIDE DEF rest
      <3> QED
        BY <1>0, <2>1, <3>1, <3>2, ForkStep DEF Up
    <2>3. CASE DaemonEnds /\ UNCHANGED <<ptype, pdaemon, cur, nextPid>>
      BY <2>1, <2>3, DaemonEndsStep
    <2> QED
      BY <1>6, <2>2, <2>3 DEF Astray
  <1> QED
    BY <1>2, <1>3, <1>4, <1>5, <1>6

\* Every step of the daemon keeps the invariant.
LEMMA DaemonStep == IInv /\ (Daemon \/ Astray \/ DaemonDies \/ DaemonRestarts) => IInv'
  <1> SUFFICES ASSUME IInv, Daemon \/ Astray \/ DaemonDies \/ DaemonRestarts PROVE IInv'
    OBVIOUS
  <1>0. /\ inc \in Daemons /\ registry[inc] \in Seq(RegEntry) /\ msgType \in Chars
        /\ boosterPipe \in Seq(Words) /\ pst \in [Pids -> Stages]
    BY DEF IInv, TypeOK, RegEntry
  <1>1. CASE ForkBoosters
    <2>1. SameRegistry /\ UNCHANGED <<msgType, met>> /\ dpc = "fork"
      BY <1>1 DEF ForkBoosters, SameRegistry, setting
    <2>2. CASE \E j \in DOMAIN registry[inc] :
                 ForkBooster(registry[inc][j].type, pst, boosterPipe, "fork")
      <3>1. PICK j \in DOMAIN registry[inc] :
              ForkBooster(registry[inc][j].type, pst, boosterPipe, "fork")
        BY <2>2
      <3>2. registry[inc][j].type \in Chars
        <4>1. registry[inc][j] \in RegEntry
          BY <1>0
        <4> QED
          BY <4>1 DEF RegEntry, Chars
      <3> QED
        BY <1>0, <2>1, <3>1, <3>2, ForkStep DEF Up
    <2>3. CASE /\ dpc' = "run"
               /\ UNCHANGED <<m_socketHash, cur, boosterPipe, nextPid, pst, ptype,
                              pdaemon, fds, serves, backlog, ist>>
      BY <1>0, <2>1, <2>3, LoopStep DEF Up
    <2> QED
      BY <1>1, <2>2, <2>3 DEF ForkBoosters
  <1>2. CASE \E p \in Pids : Reap(p)
    <2>1. PICK p \in Pids : Reap(p)
      BY <1>2
    <2> DEFINE st == [pst EXCEPT ![p] = "gone"]
    <2>2. /\ SameRegistry /\ UNCHANGED <<msgType, met>> /\ dpc \in {"run", "astray"}
          /\ pst[p] = "zombie"
      BY <2>1 DEF Reap, SameRegistry, setting
    <2>3. /\ st \in [Pids -> Stages] /\ st[p] = "gone"
          /\ \A q \in Pids : q # p => st[q] = pst[q]
      BY <1>0 DEF Stages
    <2>4. ptype[p] \in Chars
      BY DEF IInv, TypeOK
    <2>5. CASE ForkBooster(ptype[p], st, boosterPipe, dpc)
      <3> HIDE DEF st
      <3> QED
        BY <1>0, <2>2, <2>3, <2>4, <2>5, ForkStep DEF Up
    <2>6. CASE /\ pst' = st
               /\ UNCHANGED <<dpc, m_socketHash, cur, boosterPipe, nextPid, ptype,
                              pdaemon, fds, serves, backlog, ist>>
      <3> HIDE DEF st
      <3> QED
        BY <1>0, <2>2, <2>3, <2>6, LoopStep DEF Up
    <2> QED
      BY <2>1, <2>5, <2>6 DEF Reap
  <1>3. CASE DaemonDies
    BY <1>3, DaemonEndsStep DEF DaemonDies, SameRegistry, setting
  <1> QED
    BY <1>1, <1>2, <1>3, LoadStep, SocketsStep, ReadStep, RestartStep DEF Daemon

-----------------------------------------------------------------------------
(* Boosters and applications                                               *)

\* What a step of process p leaves alone: the daemon, and the other processes.
OnlyProcess(p) ==
    /\ SameRegistry
    /\ UNCHANGED <<dpc, m_socketHash, cur, msgType, nextPid, ptype, pdaemon, met>>
    /\ pst' \in [Pids -> Stages] /\ fds' \in [Pids -> SUBSET Names]
    /\ serves' \in [Pids -> Invokers \cup {None}]
    /\ \A q \in Pids \ {p} :
         pst'[q] = pst[q] /\ fds'[q] = fds[q] /\ serves'[q] = serves[q]
    /\ boosterPipe' = boosterPipe \/
         /\ dpc \notin {"load", "dead"}
         /\ boosterPipe' \in Seq(Words)

\* Such a step keeps the invariant if it leaves p and the invokers in order.
LEMMA ProcessStep ==
    ASSUME IInv, NEW p \in Pids, OnlyProcess(p),
           backlog' \in [SocketIds -> Seq(Invokers)],
           ist' \in [Invokers -> {"idle", "queued", "accepted", "over"}],
           ProcessOK(p)', InvokersOK'
    PROVE  IInv'
  <1>0. inc \in Nat /\ inc \in Daemons
    BY SocketsAssumption DEF IInv, TypeOK, Daemons
  <1>2. TypeOK'
    BY DEF OnlyProcess, SameRegistry, IInv, TypeOK, setting
  <1>3. RegistryOK' /\ FilesOK'
    <2>1. dpc \in {"load", "dead"} => m_socketHash' = {} /\ boosterPipe' = <<>>
      BY DEF OnlyProcess, IInv, FilesOK
    <2> QED
      BY <2>1, SameFiles DEF OnlyProcess, IInv
  <1>4. ASSUME NEW q \in Pids \ {p} PROVE ProcessOK(q)'
    <2>1. SameProcess(q) /\ ProcessOK(q)
      BY DEF OnlyProcess, SameProcess, IInv, ProcessesOK
    <2> QED
      BY <1>0, <2>1, UntouchedProcess DEF OnlyProcess, SameRegistry, IInv
  <1> QED
    BY <1>2, <1>3, <1>4 DEF IInv, ProcessesOK

\* The invokers are in order after a step of p that accepts nobody.
LEMMA ProcessInvokers ==
    ASSUME IInv, NEW p \in Pids, OnlyProcess(p), InvokersSettled,
           serves'[p] \in {serves[p], None}
    PROVE  InvokersOK'
  BY UntouchedInvokers DEF IInv, OnlyProcess, SameRegistry

\* A process that ends keeps the invariant.
LEMMA EndStep ==
    ASSUME IInv, NEW p \in Pids, pst[p] # "none", EndProcess(p),
           UNCHANGED <<setting, daemonVars, boosterPipe, nextPid, ptype, pdaemon, met>>
    PROVE  IInv'
  <1>1. /\ InvokersSettled
        /\ fds' = [fds EXCEPT ![p] = {}]
        /\ serves' = [serves EXCEPT ![p] = None]
        /\ \E to \in {"zombie", "gone"} : pst' = [pst EXCEPT ![p] = to]
    BY EndOfProcess DEF IInv
  <1>2. OnlyProcess(p)
    BY <1>1 DEF OnlyProcess, SameRegistry, setting, daemonVars, IInv, TypeOK, Stages
  <1>3. pst'[p] \in {"zombie", "gone"} /\ serves'[p] = None
    BY <1>1 DEF IInv, TypeOK
  <1>4. ProcessOK(p)'
    BY <1>2, <1>3, EndedProcess DEF OnlyProcess, IInv, ProcessesOK
  <1>5. InvokersOK'
    BY <1>1, <1>2, <1>3, ProcessInvokers
  <1> QED
    BY <1>1, <1>2, <1>4, <1>5, ProcessStep DEF InvokersSettled

\* A process that moves on to stage "to" with the descriptors F and the
\* invoker it has, keeps the invariant if F is right for that stage.
LEMMA MoveStep ==
    ASSUME IInv, NEW p \in Pids, pst[p] # "none", SameRegistry,
           UNCHANGED <<dpc, m_socketHash, cur, msgType, nextPid, ptype, pdaemon,
                       serves, met>>,
           NEW to \in Stages \ {"none"}, NEW F \in SUBSET Names,
           pst' = [pst EXCEPT ![p] = to], fds' = [fds EXCEPT ![p] = F],
           \/ boosterPipe' = boosterPipe
           \/ dpc \notin {"load", "dead"} /\ boosterPipe' \in Seq(Words),
           InvokersSettled,
           to \in {"forked", "armed"} => F = NamesOf(pdaemon[p]),
           to \in DiesWithDaemon \ {"armed"} =>
               F = SockOf(pdaemon[p], ptype[p]) /\ F # {},
           to = "app" =>
               F = IF serves[p] \in Waits THEN SockOf(pdaemon[p], ptype[p]) ELSE {}
    PROVE  IInv'
  <1>1. OnlyProcess(p)
    BY DEF OnlyProcess, IInv, TypeOK
  <1>2. /\ pst'[p] = to /\ fds'[p] = F /\ registry' = registry /\ inc' = inc
        /\ ProcessOK(p)
    BY DEF IInv, TypeOK, ProcessesOK, SameRegistry
  <1>3. /\ NamesOf(pdaemon[p])' = NamesOf(pdaemon[p])
        /\ SockOf(pdaemon[p], ptype[p])' = SockOf(pdaemon[p], ptype[p])
    BY <1>2 DEF NamesOf, SockOf
  <1>4. ProcessOK(p)'
    BY <1>2, <1>3 DEF ProcessOK, DiesWithDaemon
  <1>5. InvokersOK'
    BY <1>1, ProcessInvokers
  <1> QED
    BY <1>1, <1>4, <1>5, ProcessStep DEF InvokersSettled

\* accept() takes the invoker that has waited longest.
LEMMA AcceptStep == ASSUME IInv, NEW p \in Pids, Accept(p) PROVE IInv'
  <1>1. PICK s \in Listens(p) :
          /\ backlog[s] # <<>>
          /\ backlog' = [backlog EXCEPT ![s] = Tail(backlog[s])]
          /\ serves' = [serves EXCEPT ![p] = Head(backlog[s])]
          /\ ist' = [ist EXCEPT ![Head(backlog[s])] = "accepted"]
    BY DEF Accept
  <1> DEFINE i == Head(backlog[s])
  <1>2. /\ pst[p] = "waiting" /\ pst' = [pst EXCEPT ![p] = "serving"]
        /\ UNCHANGED <<dir, wants, daemonVars, boosterPipe, nextPid, ptype, pdaemon, fds,
                       met>>
    BY DEF Accept, setting
  <1>3. /\ s \in SocketIds /\ s[1] = pdaemon[p]
        /\ s[2] \in SockOf(pdaemon[p], ptype[p])
    BY DEF Listens
  <1>4. backlog[s] \in Seq(Invokers)
    BY <1>3 DEF IInv, TypeOK
  <1>5. /\ i \in Invokers /\ Tail(backlog[s]) \in Seq(Invokers)
        /\ i \in Range(backlog[s])
        /\ Range(Tail(backlog[s])) \subseteq Range(backlog[s])
    BY <1>1, <1>4 DEF Range
  <1> HIDE DEF i
  <1>6. /\ serves'[p] = i /\ ist'[i] = "accepted"
        /\ \A j \in Invokers : j # i => ist'[j] = ist[j]
        /\ \A t \in SocketIds : Range(backlog'[t]) \subseteq Range(backlog[t])
        /\ \A t \in SocketIds : backlog'[t] \in Seq(Invokers)
    BY <1>1, <1>3, <1>5 DEF IInv, TypeOK, i
  <1>7. OnlyProcess(p)
    BY <1>1, <1>2, <1>5 DEF OnlyProcess, SameRegistry, daemonVars, IInv, TypeOK,
                            Stages, Boosters, DiesWithDaemon, i
  <1>8. /\ backlog' \in [SocketIds -> Seq(Invokers)]
        /\ ist' \in [Invokers -> {"idle", "queued", "accepted", "over"}]
    BY <1>1, <1>3, <1>5 DEF IInv, TypeOK, i
  <1>9. SockOf(pdaemon[p], ptype[p])' = SockOf(pdaemon[p], ptype[p])
    BY <1>2 DEF SockOf, daemonVars
  <1>10. ProcessOK(p)'
    <2>1. pst'[p] = "serving" /\ ProcessOK(p)
      BY <1>2 DEF IInv, TypeOK, ProcessesOK
    <2> QED
      BY <1>2, <1>9, <2>1 DEF ProcessOK, DiesWithDaemon, daemonVars
  <1>11. ASSUME NEW t \in SocketIds PROVE QueueOK(t)'
    <2>1. \A j \in Range(backlog'[t]) : j \in Invokers /\ j \in Range(backlog[t])
      BY <1>6 DEF Range
    <2>2. QueueOK(t)
      BY DEF IInv, InvokersOK
    <2> QED
      BY <1>2, <1>6, <2>1, <2>2 DEF QueueOK
  <1>12. ASSUME NEW q \in Pids PROVE ServiceOK(q)'
    <2>1. CASE q = p
      <3>1. s[2] = wants[i] /\ met[i] \in {0, s[1]}
        BY <1>3, <1>5 DEF IInv, InvokersOK, QueueOK
      <3> QED
        BY <1>2, <1>3, <1>6, <1>9, <2>1, <3>1 DEF ServiceOK
    <2>2. CASE q # p
      <3>1. serves'[q] = serves[q] /\ serves[q] \in Invokers \cup {None}
        BY <1>7, <2>2 DEF OnlyProcess, IInv, TypeOK
      <3>2. SockOf(pdaemon[q], ptype[q])' = SockOf(pdaemon[q], ptype[q])
        BY <1>2 DEF SockOf, daemonVars
      <3>3. ServiceOK(q)
        BY DEF IInv, InvokersOK
      <3> QED
        BY <1>2, <1>6, <3>1, <3>2, <3>3 DEF ServiceOK
    <2> QED
      BY <2>1, <2>2
  <1> QED
    BY <1>7, <1>8, <1>10, <1>11, <1>12, ProcessStep DEF InvokersOK

\* One write of a report keeps the invariant, with a reader of the pipe or
\* without one.
LEMMA WriteStep ==
    ASSUME IInv, NEW p \in Pids, NEW word \in Words,
           NEW from \in {"serving", "sendPid", "sendDelay"},
           NEW to \in {"sendPid", "sendDelay", "sent"}, Write(p, from, to, word)
    PROVE  IInv'
  <1>0. /\ fds[p] \in SUBSET Names /\ ProcessOK(p) /\ boosterPipe \in Seq(Words)
        /\ fds = [fds EXCEPT ![p] = fds[p]]
        /\ to \in Stages \ {"none"} /\ pst[p] = from
    BY DEF IInv, TypeOK, ProcessesOK, Stages, Boosters, DiesWithDaemon, Write
  <1>1. CASE PipeHasReader(p)
    <2>1. /\ pst' = [pst EXCEPT ![p] = to]
          /\ boosterPipe' =
               CASE ~DaemonLives(p)                  -> boosterPipe
                 [] DaemonLives(p) /\ dpc = "astray" -> Append(boosterPipe, Lost)
                 [] DaemonLives(p) /\ dpc # "astray" -> Append(boosterPipe, word)
          /\ UNCHANGED <<fds, serves, backlog, ist>>
          /\ UNCHANGED <<dir, wants, daemonVars, nextPid, ptype, pdaemon, met>>
      BY <1>1 DEF Write, setting
    <2>2. InvokersSettled
      BY <2>1 DEF InvokersSettled, IInv, TypeOK
    <2>3. \/ boosterPipe' = boosterPipe
          \/ dpc \notin {"load", "dead"} /\ boosterPipe' \in Seq(Words)
      <3>1. CASE DaemonLives(p)
        <4>1. dpc \notin {"load", "dead"}
          BY <1>0, <3>1 DEF DaemonLives, ProcessOK
        <4>2. Lost \in Words
          BY DEF Lost, Words, Chars
        <4> QED
          BY <1>0, <2>1, <3>1, <4>1, <4>2
      <3> QED
        BY <2>1, <3>1
    <2>4. fds[p] = SockOf(pdaemon[p], ptype[p]) /\ fds[p] # {}
      BY <1>0 DEF ProcessOK, DiesWithDaemon
    <2> QED
      BY <1>0, <2>1, <2>2, <2>3, <2>4, MoveStep DEF SameRegistry, daemonVars
  <1>2. CASE ~PipeHasReader(p)
    BY <1>0, <1>2, EndStep DEF Write
  <1> QED
    BY <1>1, <1>2

\* Every step of a booster, and the end of a process, keeps the invariant.
LEMMA BoosterStep ==
    ASSUME IInv, NEW p \in Pids, Booster(p) \/ Serve(p) \/ Killed(p) \/ AppEnds(p)
    PROVE  IInv'
  <1>0. /\ fds[p] \in SUBSET Names /\ ProcessOK(p)
        /\ \A g : g = [fds EXCEPT ![p] = fds[p]] <=> g = fds
        /\ {"armed", "waiting", "sent", "app"} \subseteq Stages \ {"none"}
    BY DEF IInv, TypeOK, ProcessesOK, Stages, Boosters, DiesWithDaemon
  <1>1. pst[p] # "none" =>
          NamesOf(pdaemon[p]) =
               SockOf(pdaemon[p], ptype[p]) \cup OtherSocks(pdaemon[p], ptype[p])
    <2>1. pst[p] # "none" => pdaemon[p] \in Daemons
      BY <1>0, SocketsAssumption DEF ProcessOK, IInv, TypeOK, Daemons
    <2> QED
      BY <2>1, RegistryNames DEF IInv
  <1>2. CASE SetPdeathsig(p)
    <2>1. InvokersSettled
      BY <1>2 DEF SetPdeathsig, InvokersSettled, invokerVars, IInv, TypeOK
    <2> QED
      BY <1>0, <1>2, <2>1, MoveStep
      DEF SetPdeathsig, SameRegistry, setting, daemonVars, invokerVars, ProcessOK,
          DiesWithDaemon
  <1>3. CASE StartWaiting(p)
    <2> DEFINE own  == SockOf(pdaemon[p], ptype[p])
               left == fds[p] \ OtherSocks(pdaemon[p], ptype[p])
    <2>1. CASE own # {} /\ own \subseteq left
      <3>1. /\ pst[p] = "armed"
            /\ fds' = [fds EXCEPT ![p] = left]
            /\ pst' = [pst EXCEPT ![p] = "waiting"]
            /\ backlog' = Backlogs(m_socketHash, fds')
            /\ ist' = Told(m_socketHash, fds')
            /\ UNCHANGED serves
            /\ UNCHANGED <<dir, wants, daemonVars, boosterPipe, nextPid, ptype, pdaemon,
                           met>>
        BY <1>3, <2>1 DEF StartWaiting, setting
      <3>2. left = SockOf(pdaemon[p], ptype[p]) /\ left # {}
        BY <1>0, <1>1, <2>1, <3>1 DEF ProcessOK
      <3>3. left \in SUBSET Names
        BY <1>0
      <3>4. InvokersSettled
        BY <3>1, Closing DEF InvokersSettled, IInv
      <3> HIDE DEF left
      <3> QED
        BY <1>0, <3>1, <3>2, <3>3, <3>4, MoveStep DEF SameRegistry, daemonVars
    <2>2. CASE ~(own # {} /\ own \subseteq left)
      BY <1>3, <2>2, EndStep DEF StartWaiting
    <2> QED
      BY <2>1, <2>2
  <1>4. CASE Accept(p)
    BY <1>4, AcceptStep
  <1>5. CASE ServeFails(p) \/ Killed(p) \/ AppEnds(p)
    <2>1. pst[p] # "none"
      BY <1>5, SocketsAssumption
      DEF ServeFails, Killed, AppEnds, Boosters, DiesWithDaemon
    <2> QED
      BY <1>5, <2>1, EndStep DEF ServeFails, Killed, AppEnds
  <1>6. CASE SendType(p) \/ SendPid(p) \/ SendDelay(p)
    <2>1. /\ [kind |-> "type", val |-> ptype[p]] \in Words
          /\ [kind |-> "pid", val |-> None] \in Words
          /\ [kind |-> "delay", val |-> None] \in Words
      BY DEF Words, Chars, IInv, TypeOK
    <2> QED
      BY <1>6, <2>1, WriteStep DEF SendType, SendPid, SendDelay
  <1>7. CASE Launch(p)
    <2> DEFINE F == IF serves[p] \in Waits THEN fds[p] ELSE {}
    <2>1. /\ pst[p] = "sent"
          /\ pst' = [pst EXCEPT ![p] = "app"]
          /\ fds' = [fds EXCEPT ![p] = F]
          /\ backlog' = Backlogs(m_socketHash, fds')
          /\ ist' = Told(m_socketHash, fds')
          /\ UNCHANGED <<dir, wants, daemonVars, boosterPipe, nextPid, ptype, pdaemon,
                         serves, met>>
      BY <1>0, <1>7 DEF Launch, setting
    <2>2. InvokersSettled
      BY <2>1, Closing DEF InvokersSettled, IInv
    <2>3. /\ F \in SUBSET Names
          /\ F = IF serves[p] \in Waits THEN SockOf(pdaemon[p], ptype[p]) ELSE {}
      BY <1>0, <2>1 DEF ProcessOK, DiesWithDaemon
    <2> HIDE DEF F
    <2> QED
      BY <1>0, <2>1, <2>2, <2>3, MoveStep DEF SameRegistry, daemonVars, DiesWithDaemon
  <1> QED
    BY <1>2, <1>3, <1>4, <1>5, <1>6, <1>7 DEF Booster, Serve

-----------------------------------------------------------------------------
(* The invokers, and the theorems                                          *)

\* connect() while a daemon runs reaches that daemon's socket, because every
\* socket file there is names one of them.
LEMMA ConnectStep == ASSUME IInv, NEW i \in Invokers, Connect(i) PROVE IInv'
  <1> DEFINE s == <<file[wants[i]], wants[i]>>
  <1>0. /\ wants[i] \in Names /\ inc \in Nat /\ inc \in Daemons
        /\ file[wants[i]] \in 0..MaxDaemons /\ MaxDaemons \in Nat
    <2>1. TypeOK
      BY DEF IInv
    <2>2. wants \in [Invokers -> Types]
      BY <2>1, SettingOK
    <2>3. inc \in Daemons /\ file \in [Names -> 0..MaxDaemons]
      BY <2>1 DEF TypeOK
    <2> QED
      BY <2>2, <2>3, SocketsAssumption DEF Daemons
  <1>1. /\ ist[i] = "idle"
        /\ UNCHANGED <<dir, wants, daemonVars, boosterPipe, procVars>>
    BY DEF Connect, setting
  <1>2. /\ RegistryOK' /\ FilesOK'
    BY <1>1, SameFiles DEF SameRegistry, daemonVars, IInv, FilesOK
  <1>3. ASSUME NEW p \in Pids PROVE ProcessOK(p)'
    BY <1>0, <1>1, UntouchedProcess
    DEF SameProcess, procVars, daemonVars, IInv, ProcessesOK
  <1>4. \A p \in Pids : SockOf(pdaemon[p], ptype[p])' = SockOf(pdaemon[p], ptype[p])
    BY <1>1 DEF SockOf, daemonVars, procVars
  <1>5. CASE s[1] # 0 /\ Held(s, m_socketHash, fds)
    <2>1. /\ backlog' = [backlog EXCEPT ![s] = Append(backlog[s], i)]
          /\ ist' = [ist EXCEPT ![i] = "queued"]
          /\ met' = [met EXCEPT ![i] =
                      IF dpc \in {"load", "fork", "dead"} THEN 0 ELSE inc]
      BY <1>5 DEF Connect, InvokerSock
    <2>2. s \in SocketIds /\ s[1] = file[wants[i]] /\ s[2] = wants[i]
      BY <1>0, <1>5 DEF SocketIds, Daemons
    <2>3. met'[i] \in {0, s[1]}
      <3>1. CASE dpc \notin {"load", "fork", "dead"}
        <4>1. wants[i] \in {e.sock : e \in Entries(Len(dir))}
          BY <1>0, <1>5, <2>2 DEF IInv, FilesOK
        <4>2. wants[i] \in NamesOf(inc)
          BY <3>1, <4>1 DEF IInv, TypeOK, DaemonPCs, RegistryOK, NamesOf, Up
        <4>3. file[wants[i]] = inc
          BY <3>1, <4>2 DEF IInv, TypeOK, DaemonPCs, FilesOK, Up
        <4> QED
          BY <2>1, <2>2, <3>1, <4>3 DEF IInv, TypeOK
      <3>2. CASE dpc \in {"load", "fork", "dead"}
        BY <2>1, <3>2 DEF IInv, TypeOK
      <3> QED
        BY <3>1, <3>2
    <2> HIDE DEF s
    <2>4. /\ backlog[s] \in Seq(Invokers) /\ Append(backlog[s], i) \in Seq(Invokers)
          /\ Range(Append(backlog[s], i)) = Range(backlog[s]) \cup {i}
      <3>1. backlog[s] \in Seq(Invokers)
        BY <2>2 DEF IInv, TypeOK
      <3> QED
        BY <3>1, AppendRange
    <2>5. TypeOK'
      <3>1. /\ backlog' \in [SocketIds -> Seq(Invokers)]
            /\ ist' \in [Invokers -> {"idle", "queued", "accepted", "over"}]
        BY <2>1, <2>2, <2>4 DEF IInv, TypeOK
      <3>2. met' \in [Invokers -> 0..MaxDaemons]
        BY <1>0, <2>1 DEF IInv, TypeOK, Daemons
      <3> QED
        BY <1>1, <3>1, <3>2 DEF IInv, TypeOK, setting, daemonVars, procVars
    <2>6. \A j \in Invokers : j # i => ist'[j] = ist[j] /\ met'[j] = met[j]
      BY <2>1 DEF IInv, TypeOK
    <2>7. ASSUME NEW t \in SocketIds, NEW j \in Range(backlog'[t])
          PROVE  ist'[j] # "idle" /\ t[2] = wants[j] /\ met'[j] \in {0, t[1]}
      <3>1. CASE j \in Range(backlog[t])
        <4>1. ist[j] # "idle" /\ t[2] = wants[j] /\ met[j] \in {0, t[1]}
          BY <3>1 DEF IInv, InvokersOK, QueueOK
        <4>2. j \in Invokers /\ j # i
          <5>1. backlog[t] \in Seq(Invokers)
            BY DEF IInv, TypeOK
          <5> QED
            BY <1>1, <3>1, <4>1, <5>1 DEF Range
        <4> QED
          BY <2>6, <4>1, <4>2
      <3>2. CASE j \notin Range(backlog[t])
        <4>1. t = s /\ j = i
          BY <2>1, <2>2, <2>4, <2>7, <3>2 DEF IInv, TypeOK
        <4>2. ist'[i] = "queued"
          BY <2>1 DEF IInv, TypeOK
        <4> QED
          BY <2>2, <2>3, <4>1, <4>2
      <3> QED
        BY <3>1, <3>2
    <2>8. ASSUME NEW p \in Pids PROVE ServiceOK(p)'
      <3>1. serves'[p] = serves[p] /\ serves[p] \in Invokers \cup {None} /\ ServiceOK(p)
        BY <1>1 DEF procVars, IInv, TypeOK, InvokersOK
      <3>2. serves[p] # None => serves[p] # i
        BY <1>1, <3>1 DEF ServiceOK
      <3> QED
        BY <1>1, <1>4, <2>6, <3>1, <3>2 DEF ServiceOK, procVars
    <2>9. InvokersOK'
      BY <1>1, <2>7, <2>8 DEF InvokersOK, QueueOK
    <2> QED
      BY <1>2, <1>3, <2>5, <2>9 DEF IInv, ProcessesOK
  <1>6. CASE ~(s[1] # 0 /\ Held(s, m_socketHash, fds))
    <2>1. ist' = [ist EXCEPT ![i] = "over"] /\ UNCHANGED <<backlog, met>>
      BY <1>6 DEF Connect, InvokerSock
    <2>2. InvokersSettled
      BY <2>1 DEF InvokersSettled, IInv, TypeOK
    <2>3. InvokersOK'
      BY <1>1, <2>2, UntouchedInvokers DEF IInv, procVars, daemonVars
    <2>4. TypeOK'
      BY <1>1, <2>1 DEF IInv, TypeOK, setting, daemonVars, procVars
    <2> QED
      BY <1>2, <1>3, <2>3, <2>4 DEF IInv, ProcessesOK
  <1> QED
    BY <1>5, <1>6

\* Every step keeps the invariant.
LEMMA IInvStep == IInv /\ [Next]_vars => IInv'
  <1> SUFFICES ASSUME IInv, [Next]_vars PROVE IInv'
    OBVIOUS
  <1>1. CASE UNCHANGED vars
    <2>1. UNCHANGED <<dir, wants, daemonVars, boosterPipe, procVars, invokerVars>>
      BY <1>1 DEF vars, setting
    <2>2. inc \in Nat /\ inc \in Daemons
      BY SocketsAssumption DEF IInv, TypeOK, Daemons
    <2>3. TypeOK'
      BY <2>1 DEF IInv, TypeOK, setting, daemonVars, procVars, invokerVars
    <2>4. RegistryOK' /\ FilesOK'
      BY <2>1, SameFiles DEF IInv, FilesOK, SameRegistry, daemonVars
    <2>5. ASSUME NEW p \in Pids PROVE ProcessOK(p)'
      BY <2>1, <2>2, UntouchedProcess
      DEF IInv, ProcessesOK, SameProcess, daemonVars, procVars
    <2>6. InvokersSettled
      BY <2>1 DEF InvokersSettled, IInv, TypeOK, invokerVars
    <2>7. InvokersOK'
      BY <2>1, <2>6, UntouchedInvokers DEF IInv, daemonVars, procVars
    <2> QED
      BY <2>3, <2>4, <2>5, <2>7 DEF IInv, ProcessesOK
  <1>2. CASE Next
    BY <1>2, DaemonStep, BoosterStep, ConnectStep DEF Next
  <1> QED
    BY <1>1, <1>2

\* Every reachable state is well typed.
THEOREM Typing == Spec => []TypeOK
  <1>1. IInv => TypeOK
    BY DEF IInv
  <1> QED
    BY <1>1, IInvInit, IInvStep, PTL DEF Spec

\* Whatever plugins are installed, a booster that waits holds the listening
\* socket of its type and no other, and an application holds none but its own
\* type's while somebody waits for its exit status.
THEOREM ListensOnItsOwn == Spec => []OnlyOwnListener
  <1>1. IInv => OnlyOwnListener
    BY DEF IInv, ProcessesOK, ProcessOK, OnlyOwnListener
  <1> QED
    BY <1>1, IInvInit, IInvStep, PTL DEF Spec

\* With plugins whose sockets have the names the invoker knows, an invoker is
\* accepted by a booster of the type it asked for.
THEOREM RightType == Spec => []ServedByItsType
  <1>1. IInv => ServedByItsType
    BY DEF IInv, InvokersOK, ServiceOK, SockOf, ServedByItsType
  <1> QED
    BY <1>1, IInvInit, IInvStep, PTL DEF Spec

\* An invoker that connects while a daemon runs is never accepted by a booster
\* that an earlier daemon left behind, however often daemons die and start.
THEOREM OnlyTheLivingServe == Spec => []NoServiceFromTheDead
  <1>1. IInv => NoServiceFromTheDead
    BY DEF IInv, InvokersOK, ServiceOK, NoServiceFromTheDead
  <1> QED
    BY <1>1, IInvInit, IInvStep, PTL DEF Spec
=============================================================================

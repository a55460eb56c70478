---------------------------- MODULE AppViewProofs ----------------------------
(***************************************************************************)
(* Proofs about module AppView, for every user, command line, way to start *)
(* the daemon and width of the integers: what was typed to the invoker is  *)
(* what the application is started with, the cache of the QDeclarative     *)
(* booster answers it correctly, and its standard descriptors are those of *)
(* the invoker.                                                            *)
(***************************************************************************)
EXTENDS AppView, DescriptorsProofs

Magics == {"WAIT", "GLOBAL", "DEEP", "SINGLE"}
Delays == 0..(IntMod - 1)

\* The types, with the fields of every record.
Types ==
    /\ user \in Users /\ start \in Starts
    /\ typed \in [flags : SUBSET Flags, type : AppTypes \cup {"x", None},
                  delay : Numbers \cup {None}, respawn : Numbers \cup {None}]
    /\ req \in [type : AppTypes \cup {None}, wait : BOOLEAN, magic : SUBSET Magics,
                delay : Delays, respawn : Delays, file : (Bases \X Rests) \cup {None}]
    /\ ipc \in {"options", "connect", "lost", "over"}
    /\ pc \in {"none", "waiting", "accepted", "received", "initialized", "main", "dead"}
    /\ appData \in [options : SUBSET Magics, sendPid : BOOLEAN,
                    file : (Bases \X Rests) \cup {None}, argc : Nat, prio : Int,
                    delay : Delays, flags : SUBSET {"GLOBAL", "LOCAL", "DEEP"}]
    /\ proc \in [nice : Int, old : Int, cwd : Bases, pwd : Bases \cup {None},
                 loaded : (Bases \X Rests) \cup {None}]
    /\ asked \in Nat

\* What main() has made of the options so far; nothing of it changes once the
\* program is found.
ParsedOK ==
    ipc # "over" =>
        /\ req.wait <=> "n" \notin typed.flags
        /\ "WAIT" \in req.magic <=> req.wait
        /\ "GLOBAL" \in req.magic <=> "G" \in typed.flags
        /\ "DEEP" \in req.magic <=> "D" \in typed.flags
        /\ "SINGLE" \in req.magic <=> "s" \in typed.flags
        /\ req.type = typed.type
        /\ AsTyped(req.delay, typed.delay, 0)
        /\ AsTyped(req.respawn, typed.respawn, RESPAWN_DELAY)
        /\ req.respawn \in 1..MAX_RESPAWN_DELAY

\* The search stops at a directory.
DirectoryFirst ==
    /\ user.path # None /\ Hits # {}
    /\ KindAt(Full(user.path[Min(Hits)], user.cwd)) = "dir"

\* The program was found, or not, or is a directory of its name.
FoundOK ==
    /\ ipc = "connect" => /\ req.file = SearchProgram /\ req.file # None
                          /\ KindAt(req.file) \in {"prog", "data"}
    /\ ipc = "lost" => SearchProgram = None
    /\ code = 127 /\ user.bare => DirectoryFirst
    /\ pc # "none" => ipc = "connect"

\* What the booster holds of the request.
DataOK ==
    pc \in {"received", "initialized", "main"} =>
        /\ appData.options = req.magic /\ appData.sendPid = ("WAIT" \in req.magic)
        /\ appData.file = req.file /\ appData.prio = user.nice
        /\ appData.delay = req.respawn
        /\ pc = "main" => appData.flags = DlopenFlags

\* The nice value that a booster is left with when it waits.
BoosterNice == IF start.priv \/ start.nice >= 10 THEN start.nice ELSE 10
DaemonDir   == IF start.daemon THEN "/" ELSE start.cwd
ProcOK ==
    /\ pc = "none" => proc.nice = start.nice
    /\ pc \in {"waiting", "accepted", "received", "initialized"} => proc.nice = BoosterNice
    /\ pc \in {"none", "waiting", "accepted", "received", "initialized"} => proc.cwd = DaemonDir
    /\ pc \in {"received", "initialized"} => proc.pwd = user.pwd
    /\ pc = "main" =>
         /\ proc.nice = IF BoosterNice < user.nice THEN user.nice ELSE BoosterNice
         /\ proc.cwd = IF user.pwd \in user.dirs THEN user.pwd ELSE DaemonDir
         /\ proc.loaded = req.file

\* The cache: what it has given away and what it has been told.
CacheTypes ==
    /\ cache \in [populated : BOOLEAN, app : {"none", "cached", "own"},
                  initialArgc : 1..ARGV_LIMIT, initialArgv : [1..ARGV_LIMIT -> Int],
                  own : Nat, view : {NoView, 1}, made : Nat, path : {"none", "argv0"},
                  named : SUBSET {1}]
    /\ views \in Seq(Nat)
ViewsOK ==
    /\ \A i, j \in DOMAIN views : views[i] = views[j] => i = j
    /\ \A i \in DOMAIN views : views[i] <= cache.made
    /\ cache.view # NoView => views = <<>> /\ cache.made = 1
    /\ cache.view # NoView => cache.app = "cached"
    /\ pc = "none" => views = <<>> /\ cache.made = 0 /\ cache.view = NoView
    /\ cache.populated /\ cache.view = NoView => views # <<>> /\ views[1] = 1
    /\ cache.named # {} => cache.populated
AskedOK ==
    /\ cache.populated <=> cache.app = "cached"
    /\ pc = "none" => cache.app = "none"
    /\ pc # "none" => (cache.populated <=> req.type = "d" /\ ~start.boot)
    /\ pc # "main" => asked = 0
    /\ asked = 0 <=> cache.app # "own" /\ cache.path = "none"
    /\ cache.app = "none" => asked = 0
    /\ cache.app = "own" => cache.own = asked
    /\ asked # 0 /\ cache.app = "cached" =>
         /\ cache.initialArgc = IF asked < ARGV_LIMIT THEN asked ELSE ARGV_LIMIT
         /\ \A i \in 1..cache.initialArgc : cache.initialArgv[i] = i
         /\ cache.view # NoView => cache.view \in cache.named

IInv == Types /\ ParsedOK /\ FoundOK /\ DataOK /\ ProcOK /\ CacheTypes /\ ViewsOK /\ AskedOK

-----------------------------------------------------------------------------
(* Numbers                                                                 *)

\* A remainder.
LEMMA Remainder ==
    ASSUME NEW a \in Int, NEW n \in Nat \ {0}
    PROVE  a % n \in 0..(n - 1) /\ (a \in 0..(n - 1) => a % n = a)
  OBVIOUS

\* get_delay() returns an unsigned int.  It is the number typed if that fits,
\* also where unsigned long is no wider than unsigned int.
LEMMA DelayOf ==
    ASSUME user \in Users, NEW v \in Int
    PROVE  /\ GetDelay(v) \in Delays
           /\ GetDelay(v) # 0 /\ v \in Delays => GetDelay(v) = v
  <1>1. IntMod \in Nat \ {0} /\ user.ulong \in Nat \ {0} /\ user.ulong >= IntMod
    BY AppViewAssumption, CommandLineAssumption DEF UserType, MAX_RESPAWN_DELAY
  <1> DEFINE max == user.ulong - 1
  <1>2. CASE v > max \/ -v > max
    <2>1. Strtoul(v) = [value |-> max, range |-> TRUE]
      BY <1>2 DEF Strtoul
    <2>2. GetDelay(v) = IF max % IntMod = max THEN 0 ELSE max % IntMod
      BY <2>1 DEF GetDelay
    <2>3. max \in Int /\ max % IntMod \in Delays
      <3>1. max \in Int
        BY <1>1
      <3> HIDE DEF max
      <3> QED
        BY <1>1, <3>1, Remainder, Zenon DEF Delays
    <2>4. v \notin Delays
      BY <1>1, <1>2 DEF Delays
    <2> QED
      BY <1>1, <2>2, <2>3, <2>4 DEF Delays
  <1>3. CASE ~(v > max \/ -v > max)
    <2>1. Strtoul(v) = [value |-> v % user.ulong, range |-> FALSE]
      BY <1>3 DEF Strtoul
    <2>2. GetDelay(v) = (v % user.ulong) % IntMod
      BY <2>1 DEF GetDelay
    <2>3. v % user.ulong \in Int /\ (v \in Delays => v % user.ulong = v)
      <3>1. v \in Delays => v \in 0..(user.ulong - 1)
        BY <1>1 DEF Delays
      <3>2. v % user.ulong \in 0..(user.ulong - 1)
        BY <1>1, Remainder, Zenon
      <3>3. v \in 0..(user.ulong - 1) => v % user.ulong = v
        BY <1>1, Remainder, Zenon
      <3>4. v % user.ulong \in Int
        BY <1>1, <3>2
      <3> QED
        BY <3>1, <3>3, <3>4
    <2> DEFINE w == v % user.ulong
    <2>4. w \in Int /\ (v \in Delays => w = v) /\ GetDelay(v) = w % IntMod
      BY <2>2, <2>3
    <2> HIDE DEF w
    <2>5. w % IntMod \in Delays /\ (w \in Delays => w % IntMod = w)
      BY <1>1, <2>4, Remainder, Zenon DEF Delays
    <2> QED
      BY <2>4, <2>5
  <1> QED
    BY <1>2, <1>3

-----------------------------------------------------------------------------
(* The program                                                             *)

\* A set of natural numbers that is not empty has a least element.
LEMMA Least ==
    ASSUME NEW S, S \subseteq Nat, S # {}
    PROVE  Min(S) \in S /\ \A k \in S : Min(S) <= k
  <1> DEFINE Less == OpToRel(<, Nat)
  <1>1. IsWellFoundedOn(Less, Nat)
    BY NatLessThanWellFounded, Zenon
  <1>2. \A y, x \in Nat : y < x => <<y, x>> \in Less
    BY DEF OpToRel
  <1> HIDE DEF Less
  <1>3. PICK x \in S : \A y \in S : ~(<<y, x>> \in Less)
    BY <1>1, WFMin, Zenon
  <1>4. \A y \in S : x =< y
    <2> TAKE y \in S
    <2>1. x \in Nat /\ y \in Nat
      OBVIOUS
    <2>2. ~(y < x)
      BY <1>2, <1>3, <2>1, Zenon
    <2> QED
      BY <2>1, <2>2
  <1> QED
    BY <1>4 DEF Min


\* What the assumptions say of the user and of the way the daemon was started.
LEMMA UserFacts ==
    ASSUME user \in Users
    PROVE  /\ user.cwd \in Bases /\ user.pwd \in Bases \cup {None} /\ user.nice \in Int
           /\ user.path # None => user.path \in Seq(Paths \cup {<<>>})
           /\ user.dirs \subseteq Bases
           /\ user.bare \in BOOLEAN /\ user.word \in Paths /\ user.argc \in Nat \ {0}
           /\ \A p \in DOMAIN user.disk : user.disk[p] \in {"prog", "data", "dir"}
  BY AppViewAssumption DEF UserType

\* What the assumptions say of one way to start the daemon.
LEMMA StartFacts ==
    ASSUME start \in Starts
    PROVE  start.priv \in BOOLEAN /\ start.boot \in BOOLEAN /\ start.nice \in Int
           /\ start.cwd \in Bases /\ "/" \in Bases
  BY AppViewAssumption, DescriptorsAssumption DEF StartType

\* A full path does not depend on who looks.
LEMMA FullPath ==
    ASSUME NEW p \in Paths, NEW d \in Bases
    PROVE  /\ Full(p, d) \in Bases \X Rests
           /\ Full(p, d) # None
           /\ \A e : Full(Full(p, d), e) = Full(p, d)
  <1>1. Full(p, d) \in Bases \X Rests
    BY DEF Full, Paths
  <1>2. Full(p, d)[1] # Rel
    BY <1>1, CommandLineAssumption
  <1>3. Full(p, d) \in Paths
    BY <1>1 DEF Paths
  <1>4. Full(p, d) # None
    BY <1>3, CommandLineAssumption
  <1>5. \A e : Full(Full(p, d), e) = Full(p, d)
    BY <1>2 DEF Full
  <1> QED
    BY <1>1, <1>4, <1>5

\* The least hit, if PATH has one.
LEMMA LeastHit ==
    ASSUME user \in Users, user.path # None, Hits # {}
    PROVE  /\ Min(Hits) \in Hits /\ \A k \in Hits : Min(Hits) <= k
           /\ Hits \subseteq Nat
           /\ \A k \in Hits : user.path[k] \in Paths
  <1>1. user.path \in Seq(Paths \cup {<<>>})
    BY UserFacts
  <1>2. DOMAIN user.path \subseteq Nat /\ \A k \in DOMAIN user.path : user.path[k] \in Paths \cup {<<>>}
    BY <1>1
  <1>3. Hits \subseteq Nat
    BY <1>2 DEF Hits
  <1>4. \A k \in Hits : user.path[k] \in Paths
    BY <1>2 DEF Hits
  <1> QED
    BY <1>3, <1>4, Least

\* What search_program() returns is nothing, or a full path; for a bare name
\* one with an executable file or a directory.
LEMMA Searched ==
    ASSUME user \in Users, SearchProgram # None
    PROVE  /\ SearchProgram \in Bases \X Rests
           /\ \A e : Full(SearchProgram, e) = SearchProgram
           /\ user.bare =>
                /\ user.path # None /\ Hits # {}
                /\ SearchProgram = Full(user.path[Min(Hits)], user.cwd)
                /\ KindAt(SearchProgram) \in {"prog", "dir"}
           /\ ~user.bare => SearchProgram = Full(user.word, user.cwd)
  <1>1. CASE ~user.bare
    <2>1. SearchProgram = Full(user.word, user.cwd)
      BY <1>1 DEF SearchProgram
    <2> QED
      BY <1>1, <2>1, UserFacts, FullPath
  <1>2. CASE user.bare
    <2>1. user.path # None /\ Hits # {} /\ SearchProgram = Full(user.path[Min(Hits)], user.cwd)
      BY <1>2 DEF SearchProgram
    <2>2. Min(Hits) \in Hits /\ user.path[Min(Hits)] \in Paths
      BY <2>1, LeastHit
    <2>3. KindAt(SearchProgram) \in {"prog", "dir"}
      BY <2>1, <2>2 DEF Hits
    <2> QED
      BY <1>2, <2>1, <2>2, <2>3, UserFacts, FullPath
  <1> QED
    BY <1>1, <1>2

-----------------------------------------------------------------------------
(* The steps of main()                                                     *)

\* While main() parses there is no booster yet, and it does not touch one.
LEMMA CmdFrame ==
    ASSUME IInv, ipc = "options",
           UNCHANGED <<user, fdVars, cacheVars, pc, appData, proc, asked>>,
           Types', ParsedOK', FoundOK'
    PROVE  IInv'
  <1>1. pc = "none" /\ UNCHANGED <<user, start, cache, views, pc, proc, asked>>
    BY DEF IInv, FoundOK, fdVars, cacheVars
  <1>2. DataOK'
    BY <1>1 DEF DataOK
  <1>3. ProcOK'
    BY <1>1 DEF IInv, ProcOK, DaemonDir
  <1>4. CacheTypes' /\ ViewsOK' /\ AskedOK'
    BY <1>1 DEF IInv, CacheTypes, ViewsOK, AskedOK
  <1> QED
    BY <1>2, <1>3, <1>4 DEF IInv

\* main() gives up.
LEMMA Leaves ==
    ASSUME IInv, ipc = "options", NEW c, Leave(c),
           UNCHANGED <<user, fdVars, cacheVars, pc, appData, proc, asked>>,
           typed' \in [flags : SUBSET Flags, type : AppTypes \cup {"x", None},
                       delay : Numbers \cup {None}, respawn : Numbers \cup {None}],
           c = 127 /\ user.bare => DirectoryFirst
    PROVE  IInv'
  <1>1. Types'
    BY DEF IInv, Types, Leave, fdVars
  <1>2. ParsedOK'
    BY DEF ParsedOK, Leave
  <1>3. DirectoryFirst' = DirectoryFirst
    BY DEF DirectoryFirst, Hits, KindAt, Full
  <1>4. FoundOK'
    BY <1>3 DEF IInv, FoundOK, Leave
  <1> QED
    BY <1>1, <1>2, <1>4, CmdFrame

\* main() goes on with the next option.
LEMMA Parses ==
    ASSUME IInv, ipc = "options", NEW r, Parsed(r),
           UNCHANGED <<user, fdVars, cacheVars, pc, appData, proc, asked>>,
           typed' \in [flags : SUBSET Flags, type : AppTypes \cup {"x", None},
                       delay : Numbers \cup {None}, respawn : Numbers \cup {None}],
           r \in [type : AppTypes \cup {None}, wait : BOOLEAN, magic : SUBSET Magics,
                  delay : Delays, respawn : Delays, file : (Bases \X Rests) \cup {None}],
           ParsedOK'
    PROVE  IInv'
  <1>1. Types'
    BY DEF IInv, Types, Parsed, fdVars
  <1>2. DirectoryFirst' = DirectoryFirst
    BY DEF DirectoryFirst, Hits, KindAt, Full
  <1>3. FoundOK'
    BY <1>2 DEF IInv, FoundOK, Parsed
  <1> QED
    BY <1>1, <1>3, CmdFrame

\* A flag changes its own bits, in what was typed and in the request.
LEMMA FlagStep ==
    ASSUME IInv, ipc = "options", NEW f \in Flags, Flag(f),
           typed' = [typed EXCEPT !.flags = @ \cup {f}],
           UNCHANGED <<user, fdVars, cacheVars, pc, appData, proc, asked>>
    PROVE  IInv'
  <1>1. /\ typed' \in [flags : SUBSET Flags, type : AppTypes \cup {"x", None},
                        delay : Numbers \cup {None}, respawn : Numbers \cup {None}]
        /\ typed'.flags = typed.flags \cup {f} /\ typed'.type = typed.type
        /\ typed'.delay = typed.delay /\ typed'.respawn = typed.respawn
    BY DEF IInv, Types
  <1>2. ParsedOK
    BY DEF IInv
  <1>3. CASE f \in {"h", "c", "?"}
    <2>1. Leave(0) \/ Leave(1)
      BY <1>3 DEF Flag
    <2> QED
      BY <1>1, <2>1, Leaves
  <1>4. CASE f = "w"
    <2>1. Parsed(req)
      BY <1>4 DEF Flag
    <2>2. ParsedOK'
      BY <1>1, <1>2, <1>4, <2>1 DEF ParsedOK, Parsed, AsTyped
    <2> QED
      BY <1>1, <2>1, <2>2, Parses DEF IInv, Types
  <1>5. CASE f = "n"
    <2>1. Parsed(NoWaitOf(req))
      BY <1>5 DEF Flag
    <2>2. ParsedOK'
      BY <1>1, <1>2, <1>5, <2>1 DEF ParsedOK, Parsed, NoWaitOf, AsTyped, IInv, Types, Magics
    <2> QED
      BY <1>1, <2>1, <2>2, Parses DEF IInv, Types, NoWaitOf
  <1>6. CASE f \in {"G", "D", "s"}
    <2> DEFINE bit == IF f = "G" THEN "GLOBAL" ELSE IF f = "D" THEN "DEEP" ELSE "SINGLE"
               r == [req EXCEPT !.magic = @ \cup {bit}]
    <2>1. Parsed(r)
      BY <1>6 DEF Flag
    <2>2. /\ r \in [type : AppTypes \cup {None}, wait : BOOLEAN, magic : SUBSET Magics,
                     delay : Delays, respawn : Delays, file : (Bases \X Rests) \cup {None}]
          /\ r.magic = req.magic \cup {bit} /\ r.wait = req.wait /\ r.type = req.type
          /\ r.delay = req.delay /\ r.respawn = req.respawn
      BY DEF IInv, Types, Magics
    <2>3. ParsedOK'
      BY <1>1, <1>2, <1>6, <2>1, <2>2 DEF ParsedOK, Parsed, AsTyped
    <2> QED
      BY <1>1, <2>1, <2>2, <2>3, Parses
  <1> QED
    BY <1>3, <1>4, <1>5, <1>6 DEF Flags


\* --type: a known type is kept, any other ends the invoker.
LEMMA TypeStep ==
    ASSUME IInv, ipc = "options", NEW t \in AppTypes \cup {"x"},
           IF t \in AppTypes THEN Parsed([req EXCEPT !.type = t]) ELSE Leave(1),
           typed' = [typed EXCEPT !.type = t],
           UNCHANGED <<user, fdVars, cacheVars, pc, appData, proc, asked>>
    PROVE  IInv'
  <1>1. /\ typed' \in [flags : SUBSET Flags, type : AppTypes \cup {"x", None},
                        delay : Numbers \cup {None}, respawn : Numbers \cup {None}]
        /\ typed'.flags = typed.flags /\ typed'.type = t
        /\ typed'.delay = typed.delay /\ typed'.respawn = typed.respawn
    BY DEF IInv, Types
  <1>2. CASE t \in AppTypes
    <2> DEFINE r == [req EXCEPT !.type = t]
    <2>1. /\ r \in [type : AppTypes \cup {None}, wait : BOOLEAN, magic : SUBSET Magics,
                     delay : Delays, respawn : Delays, file : (Bases \X Rests) \cup {None}]
          /\ r.magic = req.magic /\ r.wait = req.wait /\ r.type = t
          /\ r.delay = req.delay /\ r.respawn = req.respawn
      BY <1>2 DEF IInv, Types
    <2>2. Parsed(r)
      BY <1>2
    <2>3. ParsedOK'
      BY <1>1, <2>1, <2>2 DEF IInv, ParsedOK, Parsed, AsTyped
    <2> QED
      BY <1>1, <2>1, <2>2, <2>3, Parses
  <1>3. CASE t \notin AppTypes
    BY <1>1, <1>3, Leaves
  <1> QED
    BY <1>2, <1>3

\* A number is the one typed, or it does not fit.
LEMMA NumberTyped ==
    ASSUME user \in Users, NEW v \in Numbers, GetDelay(v) # 0, NEW n
    PROVE  AsTyped(GetDelay(v), v, n)
  BY DelayOf, CommandLineAssumption DEF AsTyped, Delays

\* --delay: a number that get_delay() refuses ends the invoker.
LEMMA DelayStep ==
    ASSUME IInv, ipc = "options", NEW v \in Numbers,
           IF GetDelay(v) = 0 THEN Leave(1) ELSE Parsed([req EXCEPT !.delay = GetDelay(v)]),
           typed' = [typed EXCEPT !.delay = v],
           UNCHANGED <<user, fdVars, cacheVars, pc, appData, proc, asked>>
    PROVE  IInv'
  <1>1. /\ typed' \in [flags : SUBSET Flags, type : AppTypes \cup {"x", None},
                        delay : Numbers \cup {None}, respawn : Numbers \cup {None}]
        /\ typed'.flags = typed.flags /\ typed'.type = typed.type
        /\ typed'.delay = v /\ typed'.respawn = typed.respawn
    BY DEF IInv, Types
  <1>2. CASE GetDelay(v) # 0
    <2> DEFINE d == GetDelay(v)
               r == [req EXCEPT !.delay = d]
    <2>1. d \in Delays /\ AsTyped(d, v, 0)
      BY <1>2, DelayOf, NumberTyped, CommandLineAssumption DEF IInv, Types
    <2>2. Parsed(r)
      BY <1>2
    <2> HIDE DEF d
    <2>3. /\ r \in [type : AppTypes \cup {None}, wait : BOOLEAN, magic : SUBSET Magics,
                     delay : Delays, respawn : Delays, file : (Bases \X Rests) \cup {None}]
          /\ r.magic = req.magic /\ r.wait = req.wait /\ r.type = req.type
          /\ r.delay = d /\ r.respawn = req.respawn
      BY <2>1 DEF IInv, Types
    <2>4. ParsedOK'
      BY <1>1, <2>1, <2>2, <2>3 DEF IInv, ParsedOK, Parsed, AsTyped
    <2> QED
      BY <1>1, <2>2, <2>3, <2>4, Parses
  <1>3. CASE GetDelay(v) = 0
    BY <1>1, <1>3, Leaves
  <1> QED
    BY <1>2, <1>3

\* --respawn: its number is bounded as well.
LEMMA RespawnStep ==
    ASSUME IInv, ipc = "options", NEW v \in Numbers, RespawnOption(v),
           typed' = [typed EXCEPT !.respawn = v],
           UNCHANGED <<user, fdVars, cacheVars, pc, appData, proc, asked>>
    PROVE  IInv'
  <1>1. /\ typed' \in [flags : SUBSET Flags, type : AppTypes \cup {"x", None},
                        delay : Numbers \cup {None}, respawn : Numbers \cup {None}]
        /\ typed'.flags = typed.flags /\ typed'.type = typed.type
        /\ typed'.delay = typed.delay /\ typed'.respawn = v
    BY DEF IInv, Types
  <1>2. CASE Leave(1)
    BY <1>1, <1>2, Leaves
  <1>3. CASE ~Leave(1)
    <2> DEFINE d == GetDelay(v)
               r == [req EXCEPT !.respawn = d]
    <2>1. d # 0 /\ ~(d > MAX_RESPAWN_DELAY) /\ Parsed(r)
      BY <1>3 DEF RespawnOption
    <2>2. d \in Delays /\ AsTyped(d, v, RESPAWN_DELAY)
      BY <2>1, DelayOf, NumberTyped, CommandLineAssumption DEF IInv, Types
    <2> HIDE DEF d
    <2>3. d \in 1..MAX_RESPAWN_DELAY
      BY <2>1, <2>2, CommandLineAssumption DEF Delays, MAX_RESPAWN_DELAY
    <2>4. /\ r \in [type : AppTypes \cup {None}, wait : BOOLEAN, magic : SUBSET Magics,
                     delay : Delays, respawn : Delays, file : (Bases \X Rests) \cup {None}]
          /\ r.magic = req.magic /\ r.wait = req.wait /\ r.type = req.type
          /\ r.delay = req.delay /\ r.respawn = d
      BY <2>2 DEF IInv, Types
    <2>5. ParsedOK'
      BY <1>1, <2>1, <2>2, <2>3, <2>4 DEF IInv, ParsedOK, Parsed, AsTyped
    <2> QED
      BY <1>1, <2>1, <2>4, <2>5, Parses
  <1> QED
    BY <1>2, <1>3

\* The program is looked for once, after all options.
LEMMA ResolveStep ==
    ASSUME IInv, Resolve, UNCHANGED <<fdVars, cacheVars, pc, appData, proc, asked>>
    PROVE  IInv'
  <1> DEFINE p == SearchProgram
  <1>1. ipc = "options" /\ user \in Users /\ UNCHANGED <<user, typed>>
    BY DEF Resolve, IInv, Types
  <1>2. typed' \in [flags : SUBSET Flags, type : AppTypes \cup {"x", None},
                    delay : Numbers \cup {None}, respawn : Numbers \cup {None}]
    BY <1>1 DEF IInv, Types
  <1>3. CASE Leave(1)
    BY <1>1, <1>2, <1>3, Leaves
  <1>6. CASE p = None
    <2>1. ipc' = "lost" /\ code' = 1 /\ UNCHANGED req
      BY <1>6 DEF Resolve
    <2>2. p' = p
      BY <1>1 DEF SearchProgram, Hits, KindAt, Full
    <2>3. Types' /\ ParsedOK'
      BY <1>1, <2>1 DEF IInv, Types, ParsedOK, AsTyped, fdVars
    <2>4. FoundOK'
      BY <1>1, <1>6, <2>1, <2>2 DEF IInv, FoundOK
    <2> QED
      BY <1>1, <2>3, <2>4, CmdFrame
  <1>4. CASE p # None /\ ~Leave(1) /\ KindAt(Full(p, user.cwd)) \in {"none", "dir"}
    <2>1. p # None /\ Leave(127)
      BY <1>4 DEF Resolve
    <2>2. Full(p, user.cwd) = p
      BY <1>1, <2>1, Searched
    <2>3. ASSUME user.bare PROVE DirectoryFirst
      <3>1. /\ user.path # None /\ Hits # {}
            /\ p = Full(user.path[Min(Hits)], user.cwd) /\ KindAt(p) \in {"prog", "dir"}
        BY <1>1, <2>1, <2>3, Searched
      <3>2. KindAt(p) = "dir"
        BY <1>4, <2>2, <3>1
      <3> QED
        BY <3>1, <3>2 DEF DirectoryFirst
    <2> QED
      BY <1>1, <1>2, <2>1, <2>3, Leaves
  <1>5. CASE p # None /\ ~Leave(1) /\ KindAt(Full(p, user.cwd)) \notin {"none", "dir"}
    <2>1. /\ p # None /\ ipc' = "connect" /\ req' = [req EXCEPT !.file = p]
          /\ UNCHANGED code
      BY <1>5 DEF Resolve
    <2>2. p \in Bases \X Rests /\ Full(p, user.cwd) = p
      BY <1>1, <2>1, Searched
    <2>3. KindAt(p) \in {"prog", "data"}
      BY <1>1, <1>5, <2>2, UserFacts DEF KindAt
    <2>4. p' = p /\ KindAt(p)' = KindAt(p)
      BY <1>1 DEF SearchProgram, Hits, KindAt, Full
    <2> HIDE DEF p
    <2>5. /\ req' \in [type : AppTypes \cup {None}, wait : BOOLEAN, magic : SUBSET Magics,
                        delay : Delays, respawn : Delays, file : (Bases \X Rests) \cup {None}]
          /\ req'.magic = req.magic /\ req'.wait = req.wait /\ req'.type = req.type
          /\ req'.delay = req.delay /\ req'.respawn = req.respawn /\ req'.file = p
      BY <2>1, <2>2 DEF IInv, Types
    <2>6. Types'
      BY <1>1, <2>1, <2>5 DEF IInv, Types, fdVars
    <2>7. ParsedOK'
      BY <1>1, <2>1, <2>5 DEF IInv, ParsedOK, AsTyped
    <2>8. FoundOK'
      <3>1. req'.file = SearchProgram' /\ req'.file # None /\ KindAt(req.file)' \in {"prog", "data"}
        BY <1>1, <2>1, <2>3, <2>4, <2>5 DEF p, KindAt
      <3>2. code = 127 /\ user.bare => DirectoryFirst
        BY DEF IInv, FoundOK
      <3>3. DirectoryFirst' = DirectoryFirst
        BY <1>1 DEF DirectoryFirst, Hits, KindAt, Full
      <3> QED
        BY <1>1, <2>1, <3>1, <3>2, <3>3 DEF FoundOK
    <2> QED
      BY <1>1, <2>6, <2>7, <2>8, CmdFrame
  <1> QED
    BY <1>3, <1>4, <1>5, <1>6

\* Every step of the invoker before it connects.
LEMMA CommandLineStep ==
    ASSUME IInv, CommandLine, UNCHANGED <<fdVars, cacheVars, pc, appData, proc, asked>>
    PROVE  IInv'
  <1>1. CASE WrongName \/ NoProgram
    <2>1. ipc = "options" /\ Leave(1) /\ UNCHANGED <<user, typed>>
      BY <1>1 DEF WrongName, NoProgram
    <2> QED
      BY <2>1, Leaves DEF IInv, Types
  <1>2. CASE Resolve
    BY <1>2, ResolveStep
  <1>3. CASE ParseOption
    <2>1. ipc = "options" /\ UNCHANGED user
      BY <1>3 DEF ParseOption
    <2>2. PICK o \in Options :
            \/ /\ o.opt \in Flags /\ Flag(o.opt)
               /\ typed' = [typed EXCEPT !.flags = @ \cup {o.opt}]
            \/ /\ o.opt = "t"
               /\ IF o.type \in AppTypes THEN Parsed([req EXCEPT !.type = o.type])
                  ELSE Leave(1)
               /\ typed' = [typed EXCEPT !.type = o.type]
            \/ /\ o.opt = "d"
               /\ IF GetDelay(o.num) = 0 THEN Leave(1)
                  ELSE Parsed([req EXCEPT !.delay = GetDelay(o.num)])
               /\ typed' = [typed EXCEPT !.delay = o.num]
            \/ /\ o.opt = "r"
               /\ RespawnOption(o.num)
               /\ typed' = [typed EXCEPT !.respawn = o.num]
      BY <1>3 DEF ParseOption
    <2>3. /\ o.opt = "t" => o.type \in AppTypes \cup {"x"}
          /\ o.opt \in {"d", "r"} => o.num \in Numbers
      BY DEF Options, Flags
    <2> QED
      BY <2>1, <2>2, <2>3, FlagStep, TypeStep, DelayStep, RespawnStep
  <1> QED
    BY <1>1, <1>2, <1>3 DEF CommandLine

-----------------------------------------------------------------------------
(* The steps of the booster                                                *)

\* The booster does not touch what the invoker knows.
LEMMA CmdKept ==
    ASSUME IInv, UNCHANGED cmdVars, ipc = "connect"
    PROVE  ParsedOK' /\ FoundOK' /\ SearchProgram' = SearchProgram
  <1>1. UNCHANGED <<user, typed, req, ipc, count, code>>
    BY DEF cmdVars
  <1>2. ParsedOK'
    BY <1>1 DEF IInv, ParsedOK, AsTyped
  <1>3. SearchProgram' = SearchProgram
    BY <1>1 DEF SearchProgram, Hits, KindAt, Full
  <1>4. DirectoryFirst' = DirectoryFirst
    BY <1>1 DEF DirectoryFirst, Hits, KindAt, Full
  <1>5. FoundOK'
    BY <1>1, <1>3, <1>4 DEF IInv, FoundOK, KindAt
  <1> QED
    BY <1>2, <1>3, <1>5

\* The nice value of 10 that a booster takes while it initializes is given
\* back, if the system allows it.
LEMMA NiceOf ==
    ASSUME Types, proc.nice = start.nice, NEW q, q = PopPriority(PushPriority(proc, 10))
    PROVE  /\ q \in [nice : Int, old : Int, cwd : Bases, pwd : Bases \cup {None},
                      loaded : (Bases \X Rests) \cup {None}]
           /\ q.nice = BoosterNice /\ q.cwd = proc.cwd
  <1>1. start.nice \in Int /\ start.priv \in BOOLEAN
    BY StartFacts DEF Types
  <1> DEFINE p1 == [proc EXCEPT !.old = proc.nice]
             p2 == IF start.priv \/ 10 >= p1.nice THEN [p1 EXCEPT !.nice = 10] ELSE p1
  <1>2. q = IF start.priv \/ p2.old >= p2.nice THEN [p2 EXCEPT !.nice = p2.old] ELSE p2
    BY DEF PopPriority, PushPriority, SetPriority
  <1>3. /\ p1 \in [nice : Int, old : Int, cwd : Bases, pwd : Bases \cup {None},
                    loaded : (Bases \X Rests) \cup {None}]
        /\ p1.nice = start.nice /\ p1.old = start.nice /\ p1.cwd = proc.cwd
    BY DEF Types
  <1> HIDE DEF p1
  <1>4. /\ p2 \in [nice : Int, old : Int, cwd : Bases, pwd : Bases \cup {None},
                    loaded : (Bases \X Rests) \cup {None}]
        /\ p2.nice = IF start.priv \/ 10 >= start.nice THEN 10 ELSE start.nice
        /\ p2.old = start.nice /\ p2.cwd = proc.cwd
    BY <1>3
  <1> HIDE DEF p2
  <1> QED
    BY <1>1, <1>2, <1>4 DEF BoosterNice

\* forkBooster(): a fresh booster, cache filled or not, priority lowered.
LEMMA ForkStep == IInv /\ ForkBooster => IInv'
  <1> SUFFICES ASSUME IInv, ForkBooster PROVE IInv'
    OBVIOUS
  <1>1. /\ ipc = "connect" /\ pc = "none" /\ pc' = "waiting"
        /\ UNCHANGED <<cmdVars, start, dp, views, appData, asked>>
        /\ cache' = IF req.type = "d" /\ ~start.boot THEN Populate(cache) ELSE cache
    BY DEF ForkBooster
  <1>2. ParsedOK' /\ FoundOK'
    BY <1>1, CmdKept
  <1>3. /\ proc' \in [nice : Int, old : Int, cwd : Bases, pwd : Bases \cup {None},
                       loaded : (Bases \X Rests) \cup {None}]
        /\ proc'.nice = BoosterNice /\ proc'.cwd = proc.cwd
    BY <1>1, NiceOf DEF ForkBooster, IInv, ProcOK
  <1>4. Types'
    BY <1>1, <1>3 DEF IInv, Types, cmdVars
  <1>5. DataOK'
    BY <1>1 DEF DataOK
  <1>6. ProcOK'
    BY <1>1, <1>3 DEF IInv, ProcOK, BoosterNice, DaemonDir
  <1>9. UNCHANGED req /\ (cache.populated => FALSE)
    BY <1>1 DEF IInv, AskedOK, cmdVars
  <1>7. CASE ~(req.type = "d" /\ ~start.boot)
    <2>1. cache' = cache
      BY <1>1, <1>7
    <2>2. CacheTypes' /\ ViewsOK'
      BY <1>1, <2>1 DEF IInv, CacheTypes, ViewsOK
    <2>3. AskedOK'
      BY <1>1, <1>7, <1>9, <2>1 DEF IInv, AskedOK
    <2> QED
      BY <1>2, <1>4, <1>5, <1>6, <2>2, <2>3 DEF IInv
  <1>8. CASE req.type = "d" /\ ~start.boot
    <2>1. /\ CacheTypes' /\ cache'.populated /\ cache'.app = "cached"
          /\ cache'.view = 1 /\ cache'.made = 1 /\ cache'.path = cache.path
      <3> DEFINE argv == [i \in 1..ARGV_LIMIT |-> IF i = 1 THEN PreInit ELSE Empty]
      <3>1. argv \in [1..ARGV_LIMIT -> Int]
        BY DEF PreInit, Empty
      <3>2. cache' = [cache EXCEPT !.populated = TRUE, !.initialArgv = argv,
                                   !.app = "cached", !.view = 1, !.made = 1]
        BY <1>1, <1>8 DEF Populate
      <3> HIDE DEF argv
      <3>3. cache \in [populated : BOOLEAN, app : {"none", "cached", "own"},
                       initialArgc : 1..ARGV_LIMIT, initialArgv : [1..ARGV_LIMIT -> Int],
                       own : Nat, view : {NoView, 1}, made : Nat, path : {"none", "argv0"},
                       named : SUBSET {1}]
        BY DEF IInv, CacheTypes
      <3>4. views' \in Seq(Nat)
        BY <1>1 DEF IInv, CacheTypes
      <3> QED
        BY <3>1, <3>2, <3>3, <3>4 DEF CacheTypes
    <2>2. ViewsOK'
      BY <1>1, <2>1 DEF IInv, ViewsOK, NoView
    <2>3. AskedOK'
      BY <1>1, <1>8, <1>9, <2>1 DEF IInv, AskedOK
    <2> QED
      BY <1>2, <1>4, <1>5, <1>6, <2>1, <2>2, <2>3 DEF IInv
  <1> QED
    BY <1>1, <1>7, <1>8

\* The steps between the fork and main() leave the cache alone.
LEMMA CacheKept ==
    ASSUME IInv, UNCHANGED <<cmdVars, start, cacheVars, asked>>, pc # "none",
           pc # "main", pc' # "none"
    PROVE  CacheTypes' /\ ViewsOK' /\ AskedOK'
  BY DEF IInv, CacheTypes, ViewsOK, AskedOK, cacheVars, cmdVars

\* The invoker connects and the booster accepts.
LEMMA AcceptStep == IInv /\ Accept => IInv'
  <1> SUFFICES ASSUME IInv, Accept PROVE IInv'
    OBVIOUS
  <1>1. /\ pc = "waiting" /\ pc' = "accepted" /\ ipc = "connect"
        /\ UNCHANGED <<cmdVars, start, dp, cacheVars, appData, proc, asked>>
    BY DEF Accept, IInv, FoundOK
  <1>2. ParsedOK' /\ FoundOK'
    BY <1>1, CmdKept
  <1>3. Types' /\ DataOK' /\ ProcOK'
    BY <1>1 DEF IInv, Types, DataOK, ProcOK, BoosterNice, DaemonDir, cmdVars
  <1> QED
    BY <1>1, <1>2, <1>3, CacheKept DEF IInv

\* The request fills the AppData of the booster.
LEMMA ReceiveStep == IInv /\ ReceiveApplicationData => IInv'
  <1> SUFFICES ASSUME IInv, ReceiveApplicationData PROVE IInv'
    OBVIOUS
  <1>1. /\ pc = "accepted" /\ pc' = "received" /\ ipc = "connect"
        /\ UNCHANGED <<cmdVars, start, dp, cacheVars, asked>>
        /\ appData' = AppDataOf(req, user) /\ proc' = [proc EXCEPT !.pwd = user.pwd]
    BY DEF ReceiveApplicationData, IInv, FoundOK
  <1>2. ParsedOK' /\ FoundOK'
    BY <1>1, CmdKept
  <1>3. /\ proc' \in [nice : Int, old : Int, cwd : Bases, pwd : Bases \cup {None},
                       loaded : (Bases \X Rests) \cup {None}]
        /\ proc'.nice = proc.nice /\ proc'.cwd = proc.cwd /\ proc'.pwd = user.pwd
    BY <1>1, UserFacts DEF IInv, Types
  <1>4. /\ appData' \in [options : SUBSET Magics, sendPid : BOOLEAN,
                          file : (Bases \X Rests) \cup {None}, argc : Nat, prio : Int,
                          delay : Delays, flags : SUBSET {"GLOBAL", "LOCAL", "DEEP"}]
        /\ appData'.options = req.magic /\ appData'.sendPid = ("WAIT" \in req.magic)
        /\ appData'.file = req.file /\ appData'.prio = user.nice
        /\ appData'.delay = req.respawn
    BY <1>1, UserFacts DEF IInv, Types, AppDataOf
  <1>5. Types' /\ DataOK' /\ ProcOK'
    BY <1>1, <1>3, <1>4 DEF IInv, Types, DataOK, ProcOK, BoosterNice, DaemonDir, cmdVars
  <1> QED
    BY <1>1, <1>2, <1>5, CacheKept DEF IInv

\* The end of initialize(): the pipe to the daemon is closed.
LEMMA ClosePipeStep == IInv /\ ClosePipe => IInv'
  <1> SUFFICES ASSUME IInv, ClosePipe PROVE IInv'
    OBVIOUS
  <1>1. /\ pc = "received" /\ pc' = "initialized" /\ ipc = "connect"
        /\ UNCHANGED <<cmdVars, start, dp, cacheVars, appData, proc, asked>>
    BY DEF ClosePipe, IInv, FoundOK
  <1>2. ParsedOK' /\ FoundOK'
    BY <1>1, CmdKept
  <1>3. Types' /\ DataOK' /\ ProcOK'
    BY <1>1 DEF IInv, Types, DataOK, ProcOK, BoosterNice, DaemonDir, cmdVars
  <1> QED
    BY <1>1, <1>2, <1>3, CacheKept DEF IInv


\* launchProcess(): the priority is lowered to the invoker's, the file is
\* loaded by its full path, and main() is called in $PWD.
LEMMA LaunchStep == IInv /\ Launch => IInv'
  <1> SUFFICES ASSUME IInv, Launch PROVE IInv'
    OBVIOUS
  <1> DEFINE file == Full(appData.file, proc.cwd)
             low == RestorePriority(proc)
  <1>1. /\ pc = "initialized" /\ ipc = "connect" /\ pc' \in {"main", "dead"}
        /\ UNCHANGED <<cmdVars, start, dp, cacheVars, asked>>
    BY DEF Launch, IInv, FoundOK
  <1>2. ParsedOK' /\ FoundOK'
    BY <1>1, CmdKept
  <1>3. CacheTypes' /\ ViewsOK' /\ AskedOK'
    BY <1>1, CacheKept
  <1>4. CASE pc' = "dead"
    <2>1. UNCHANGED <<appData, proc>>
      BY <1>4 DEF Launch
    <2>2. Types' /\ DataOK' /\ ProcOK'
      BY <1>1, <1>4, <2>1 DEF IInv, Types, DataOK, ProcOK, cmdVars
    <2> QED
      BY <1>2, <1>3, <2>2 DEF IInv
  <1>5. CASE pc' = "main"
    <2>1. /\ proc' = [low EXCEPT !.loaded = file,
                                 !.cwd = IF proc.pwd \in user.dirs THEN proc.pwd ELSE @]
          /\ appData' = [appData EXCEPT !.flags = DlopenFlags]
      BY <1>5 DEF Launch
    <2>2. file = req.file /\ req.file \in Bases \X Rests
      <3>1. appData.file = SearchProgram /\ SearchProgram # None /\ req.file = SearchProgram
        BY <1>1 DEF IInv, DataOK, FoundOK
      <3> QED
        BY <3>1, Searched DEF IInv, Types
    <2>3. /\ low \in [nice : Int, old : Int, cwd : Bases, pwd : Bases \cup {None},
                       loaded : (Bases \X Rests) \cup {None}]
          /\ low.nice = IF BoosterNice < user.nice THEN user.nice ELSE BoosterNice
          /\ low.cwd = DaemonDir
      <3>1. proc.nice = BoosterNice /\ appData.prio = user.nice /\ proc.cwd = DaemonDir
        BY <1>1 DEF IInv, DataOK, ProcOK
      <3>2. BoosterNice \in Int /\ user.nice \in Int
        BY <3>1 DEF IInv, Types
      <3>3. low = IF proc.nice < user.nice THEN [proc EXCEPT !.nice = user.nice] ELSE proc
        BY <3>1, <3>2 DEF RestorePriority, SetPriority
      <3> HIDE DEF low
      <3> QED
        BY <3>1, <3>2, <3>3 DEF IInv, Types
    <2>4. proc.pwd = user.pwd /\ user.pwd \in Bases \cup {None} /\ user.dirs \subseteq Bases
      BY <1>1, UserFacts DEF IInv, ProcOK, Types
    <2> HIDE DEF low, file
    <2>5. /\ proc' \in [nice : Int, old : Int, cwd : Bases, pwd : Bases \cup {None},
                         loaded : (Bases \X Rests) \cup {None}]
          /\ proc'.nice = low.nice /\ proc'.loaded = req.file
          /\ proc'.cwd = IF user.pwd \in user.dirs THEN user.pwd ELSE DaemonDir
      BY <2>1, <2>2, <2>3, <2>4
    <2>6. DlopenFlags \in SUBSET {"GLOBAL", "LOCAL", "DEEP"}
      BY DEF DlopenFlags
    <2>7. /\ appData' \in [options : SUBSET Magics, sendPid : BOOLEAN,
                            file : (Bases \X Rests) \cup {None}, argc : Nat, prio : Int,
                            delay : Delays, flags : SUBSET {"GLOBAL", "LOCAL", "DEEP"}]
          /\ appData'.options = appData.options /\ appData'.sendPid = appData.sendPid
          /\ appData'.file = appData.file /\ appData'.prio = appData.prio
          /\ appData'.delay = appData.delay /\ appData'.flags = DlopenFlags
      BY <2>1, <2>6 DEF IInv, Types
    <2>8. Types'
      BY <1>1, <2>5, <2>7 DEF IInv, Types, cmdVars
    <2>9. DataOK'
      BY <1>1, <2>7 DEF IInv, DataOK, DlopenFlags, cmdVars
    <2>10. ProcOK'
      BY <1>1, <1>5, <2>3, <2>5 DEF ProcOK, BoosterNice, DaemonDir, cmdVars
    <2> QED
      BY <1>2, <1>3, <2>8, <2>9, <2>10 DEF IInv
  <1> QED
    BY <1>1, <1>4, <1>5

\* The application uses the cache; the rest of the state stays.
LEMMA MainKept ==
    ASSUME IInv, pc = "main", UNCHANGED <<cmdVars, fdVars, pc, appData, proc>>
    PROVE  ParsedOK' /\ FoundOK' /\ DataOK' /\ ProcOK' /\ (asked' \in Nat => Types')
  <1>1. ParsedOK' /\ FoundOK'
    BY CmdKept DEF IInv, FoundOK
  <1>2. DataOK'
    BY DEF IInv, DataOK, DlopenFlags, cmdVars
  <1>3. ProcOK'
    BY DEF IInv, ProcOK, BoosterNice, DaemonDir, cmdVars, fdVars
  <1>4. asked' \in Nat => Types'
    BY DEF IInv, Types, cmdVars, fdVars
  <1> QED
    BY <1>1, <1>2, <1>3, <1>4

\* The application asks the cache for the view.
LEMMA AskViewStep == IInv /\ AskView => IInv'
  <1> SUFFICES ASSUME IInv, AskView PROVE IInv'
    OBVIOUS
  <1>1. pc = "main" /\ QDeclarativeView
        /\ UNCHANGED <<cmdVars, fdVars, pc, appData, proc, asked>>
    BY DEF AskView
  <1>2. ParsedOK' /\ FoundOK' /\ DataOK' /\ ProcOK' /\ Types'
    BY <1>1, MainKept DEF IInv, Types
  <1>3. /\ cache \in [populated : BOOLEAN, app : {"none", "cached", "own"},
                       initialArgc : 1..ARGV_LIMIT, initialArgv : [1..ARGV_LIMIT -> Int],
                       own : Nat, view : {NoView, 1}, made : Nat, path : {"none", "argv0"},
                       named : SUBSET {1}]
        /\ views \in Seq(Nat) /\ Len(views) \in Nat /\ DOMAIN views = 1..Len(views)
    BY DEF IInv, CacheTypes
  <1> DEFINE given == IF cache.view # NoView THEN cache.view ELSE cache.made + 1
  <1>4. given \in Nat /\ views' = Append(views, given)
    BY <1>1, <1>3 DEF QDeclarativeView, NoView
  <1>5. /\ cache' \in [populated : BOOLEAN, app : {"none", "cached", "own"},
                        initialArgc : 1..ARGV_LIMIT, initialArgv : [1..ARGV_LIMIT -> Int],
                        own : Nat, view : {NoView, 1}, made : Nat, path : {"none", "argv0"},
                        named : SUBSET {1}]
        /\ cache'.view = NoView
        /\ cache'.made = IF cache.view # NoView THEN cache.made ELSE cache.made + 1
        /\ cache'.populated = cache.populated /\ cache'.app = cache.app
        /\ cache'.initialArgc = cache.initialArgc /\ cache'.initialArgv = cache.initialArgv
        /\ cache'.own = cache.own /\ cache'.path = cache.path
        /\ cache'.named = cache.named
    <2>1. CASE cache.view # NoView
      BY <1>1, <1>3, <2>1 DEF QDeclarativeView
    <2>2. CASE cache.view = NoView
      <3>1. cache' = [cache EXCEPT !.made = cache.made + 1]
        BY <1>1, <2>2 DEF QDeclarativeView
      <3>2. cache.made + 1 \in Nat
        BY <1>3
      <3> QED
        BY <1>3, <2>2, <3>1, <3>2
    <2> QED
      BY <2>1, <2>2
  <1> HIDE DEF given
  <1>6. /\ views' \in Seq(Nat) /\ DOMAIN views' = 1..(Len(views) + 1)
        /\ \A i \in 1..Len(views) : views'[i] = views[i]
        /\ views'[Len(views) + 1] = given
    BY <1>3, <1>4
  <1>7. CacheTypes'
    BY <1>5, <1>6 DEF CacheTypes
  <1>8. ViewsOK'
    <2>1. /\ \A i \in DOMAIN views : views[i] \in Nat /\ views[i] # given
          /\ \A i \in DOMAIN views : views[i] <= cache'.made
          /\ given <= cache'.made
      <3>1. CASE cache.view # NoView
        <4>1. views = <<>> /\ cache.made = 1 /\ cache'.made = 1 /\ given = 1
          BY <1>3, <1>5, <3>1 DEF IInv, ViewsOK, given
        <4> QED
          BY <4>1
      <3>2. CASE cache.view = NoView
        BY <1>3, <1>5, <3>2 DEF IInv, ViewsOK, given
      <3> QED
        BY <3>1, <3>2
    <2> DEFINE last == Len(views) + 1
    <2>2. /\ \A i \in DOMAIN views' : i \in DOMAIN views \/ i = last
          /\ \A i \in DOMAIN views : views'[i] = views[i]
          /\ views'[last] = given
      BY <1>3, <1>6
    <2> HIDE DEF last
    <2>3. \A i, j \in DOMAIN views' : views'[i] = views'[j] => i = j
      <3>1. \A i, j \in DOMAIN views : views[i] = views[j] => i = j
        BY DEF IInv, ViewsOK
      <3> QED
        BY <2>1, <2>2, <3>1, Zenon
    <2>4. \A i \in DOMAIN views' : views'[i] <= cache'.made
      BY <2>1, <2>2, Zenon
    <2>5. cache'.populated => views' # <<>> /\ views'[1] = 1
      <3>1. CASE cache.view # NoView
        <4>1. given = 1 /\ views = <<>>
          BY <1>3, <3>1 DEF IInv, ViewsOK, given
        <4> QED
          BY <1>6, <4>1
      <3>2. CASE cache.view = NoView
        <4>1. cache.populated => 1 \in DOMAIN views /\ views[1] = 1
          BY <1>3, <3>2 DEF IInv, ViewsOK
        <4> QED
          BY <1>3, <1>5, <1>6, <4>1
      <3> QED
        BY <3>1, <3>2
    <2>6. cache'.named # {} => cache'.populated
      BY <1>5 DEF IInv, ViewsOK
    <2> QED
      BY <1>1, <1>5, <2>3, <2>4, <2>5, <2>6 DEF ViewsOK
  <1>9. AskedOK'
    BY <1>1, <1>5 DEF IInv, AskedOK, cmdVars, fdVars
  <1> QED
    BY <1>2, <1>7, <1>8, <1>9 DEF IInv


\* The application asks the cache for the QApplication.
LEMMA AskApplicationStep == IInv /\ AskApplication => IInv'
  <1> SUFFICES ASSUME IInv, AskApplication PROVE IInv'
    OBVIOUS
  <1>1. PICK argc \in 1..appData.argc : QApplication(argc) /\ asked' = argc
    BY DEF AskApplication
  <1>2. /\ pc = "main" /\ UNCHANGED <<cmdVars, fdVars, pc, appData, proc>> /\ views' = views
        /\ argc \in Nat \ {0} /\ asked' \in Nat
    BY <1>1 DEF AskApplication, QApplication, IInv, Types
  <1>3. ParsedOK' /\ FoundOK' /\ DataOK' /\ ProcOK' /\ Types'
    BY <1>2, MainKept
  <1>4. cache \in [populated : BOOLEAN, app : {"none", "cached", "own"},
                       initialArgc : 1..ARGV_LIMIT, initialArgv : [1..ARGV_LIMIT -> Int],
                       own : Nat, view : {NoView, 1}, made : Nat, path : {"none", "argv0"},
                       named : SUBSET {1}]
    BY DEF IInv, CacheTypes
  <1>5. CASE cache.app = "none"
    <2>1. cache' = [cache EXCEPT !.app = "own", !.own = argc]
      BY <1>1, <1>5 DEF QApplication
    <2>2. CacheTypes'
      BY <1>2, <1>4, <2>1 DEF IInv, CacheTypes
    <2>3. /\ cache'.app = "own" /\ cache'.own = argc /\ cache'.populated = cache.populated
          /\ cache'.view = cache.view /\ cache'.made = cache.made
          /\ cache'.named = cache.named
      BY <1>4, <2>1
    <2>4. ViewsOK'
      BY <1>2, <1>5, <2>3 DEF IInv, ViewsOK
    <2>5. AskedOK'
      BY <1>1, <1>2, <1>5, <2>3 DEF IInv, AskedOK, cmdVars, fdVars
    <2> QED
      BY <1>3, <2>2, <2>4, <2>5 DEF IInv
  <1>6. CASE cache.app # "none"
    <2> DEFINE argv == [i \in 1..ARGV_LIMIT |->
                          IF i <= argc /\ cache.app = "cached" THEN i ELSE cache.initialArgv[i]]
               num == IF argc < ARGV_LIMIT THEN argc ELSE ARGV_LIMIT
               c1 == [cache EXCEPT !.initialArgv = argv, !.initialArgc = num]
               own == IF cache.app = "own" THEN argc ELSE cache.own
               path == IF cache.populated THEN "argv0" ELSE cache.path
               named == cache.named \cup ({cache.view} \ {NoView})
    <2>1. cache' = [CopyArguments(cache, argc) EXCEPT
                      !.own = IF cache.app = "own" THEN argc ELSE @,
                      !.named = @ \cup ({cache.view} \ {NoView}),
                      !.path = IF cache.populated THEN "argv0" ELSE @]
      BY <1>1, <1>6 DEF QApplication
    <2>2. CopyArguments(cache, argc) = c1
      BY DEF CopyArguments
    <2>3. argv \in [1..ARGV_LIMIT -> Int] /\ num \in 1..ARGV_LIMIT
      BY <1>2, <1>4, CacheAssumption
    <2>4. cache.app = "cached" => \A i \in 1..num : argv[i] = i
      BY <1>2, CacheAssumption
    <2> HIDE DEF argv, num
    <2>5. /\ c1 \in [populated : BOOLEAN, app : {"none", "cached", "own"},
                       initialArgc : 1..ARGV_LIMIT, initialArgv : [1..ARGV_LIMIT -> Int],
                       own : Nat, view : {NoView, 1}, made : Nat, path : {"none", "argv0"},
                       named : SUBSET {1}]
          /\ c1.populated = cache.populated /\ c1.app = cache.app /\ c1.initialArgc = num
          /\ c1.initialArgv = argv /\ c1.own = cache.own /\ c1.view = cache.view
          /\ c1.made = cache.made /\ c1.path = cache.path /\ c1.named = cache.named
      BY <1>4, <2>3
    <2> HIDE DEF c1
    <2>6. cache' = [c1 EXCEPT !.own = own, !.named = named, !.path = path]
      BY <2>1, <2>2, <2>5
    <2>7. own \in Nat /\ named \in SUBSET {1} /\ path \in {"none", "argv0"}
      BY <1>2, <1>4
    <2> HIDE DEF own, named, path
    <2>8. /\ cache' \in [populated : BOOLEAN, app : {"none", "cached", "own"},
                       initialArgc : 1..ARGV_LIMIT, initialArgv : [1..ARGV_LIMIT -> Int],
                       own : Nat, view : {NoView, 1}, made : Nat, path : {"none", "argv0"},
                       named : SUBSET {1}]
          /\ cache'.populated = cache.populated /\ cache'.app = cache.app
          /\ cache'.initialArgc = num /\ cache'.initialArgv = argv /\ cache'.own = own
          /\ cache'.view = cache.view /\ cache'.made = cache.made
          /\ cache'.path = path /\ cache'.named = named
      BY <2>5, <2>6, <2>7
    <2>9. CacheTypes'
      BY <1>2, <2>8 DEF IInv, CacheTypes
    <2>10. ViewsOK'
      <3>1. named # {} => cache.populated
        BY <1>4 DEF IInv, ViewsOK, AskedOK, named
      <3> QED
        BY <1>2, <2>8, <3>1 DEF IInv, ViewsOK
    <2>11. AskedOK'
      <3>0. cache.populated <=> req.type = "d" /\ ~start.boot
        BY <1>2 DEF IInv, AskedOK
      <3>3. UNCHANGED <<req, start>>
        BY <1>2 DEF cmdVars, fdVars
      <3>1. CASE cache.app = "own"
        BY <1>1, <1>2, <2>8, <3>0, <3>1, <3>3 DEF IInv, AskedOK, own, path
      <3>2. CASE cache.app = "cached"
        <4>1. cache.populated /\ path = "argv0" /\ (cache.view # NoView => cache.view \in named)
          BY <3>2 DEF IInv, AskedOK, path, named
        <4> QED
          BY <1>1, <1>2, <2>4, <2>8, <3>0, <3>2, <3>3, <4>1 DEF AskedOK, num
      <3> QED
        BY <1>4, <1>6, <3>1, <3>2
    <2> QED
      BY <1>3, <2>9, <2>10, <2>11 DEF IInv
  <1> QED
    BY <1>5, <1>6

-----------------------------------------------------------------------------
(* The theorems                                                            *)

\* The invariant holds at first.
LEMMA InitInv == Init => IInv
  <1> SUFFICES ASSUME Init PROVE IInv
    OBVIOUS
  <1>1. user \in Users /\ start \in Starts
    BY DEF Init, CmdInit, FdInit
  <1>2. /\ typed = [flags |-> {}, type |-> None, delay |-> None, respawn |-> None]
        /\ req = [type |-> None, wait |-> TRUE, magic |-> {"WAIT"}, delay |-> 0,
                  respawn |-> RESPAWN_DELAY, file |-> None]
        /\ ipc = "options" /\ code = None
    BY DEF Init, CmdInit
  <1>3. /\ pc = "none" /\ appData = NoData /\ asked = 0
        /\ proc = [nice |-> start.nice, old |-> 0, cwd |-> DaemonDir,
                   pwd |-> start.cwd, loaded |-> None]
    BY DEF Init, DaemonDir
  <1>4. {0, RESPAWN_DELAY} \subseteq Delays /\ IntMod \in Nat
    BY CommandLineAssumption DEF Delays, RESPAWN_DELAY, MAX_RESPAWN_DELAY
  <1>5. Types
    <2>1. start.nice \in Int /\ start.cwd \in Bases /\ DaemonDir \in Bases
      BY <1>1, StartFacts DEF DaemonDir
    <2>2. req \in [type : AppTypes \cup {None}, wait : BOOLEAN, magic : SUBSET Magics,
                   delay : Delays, respawn : Delays, file : (Bases \X Rests) \cup {None}]
      BY <1>2, <1>4 DEF Magics
    <2>3. typed \in [flags : SUBSET Flags, type : AppTypes \cup {"x", None},
                     delay : Numbers \cup {None}, respawn : Numbers \cup {None}]
      BY <1>2
    <2>4. appData \in [options : SUBSET Magics, sendPid : BOOLEAN,
                       file : (Bases \X Rests) \cup {None}, argc : Nat, prio : Int,
                       delay : Delays, flags : SUBSET {"GLOBAL", "LOCAL", "DEEP"}]
      BY <1>3, <1>4 DEF NoData
    <2>5. proc \in [nice : Int, old : Int, cwd : Bases, pwd : Bases \cup {None},
                    loaded : (Bases \X Rests) \cup {None}]
      BY <1>3, <2>1
    <2> QED
      BY <1>1, <1>2, <1>3, <2>2, <2>3, <2>4, <2>5 DEF Types
  <1>6. ParsedOK
    BY <1>2 DEF ParsedOK, AsTyped, RESPAWN_DELAY, MAX_RESPAWN_DELAY
  <1>7. FoundOK
    <2>1. code # 127
      BY <1>2, CommandLineAssumption
    <2> QED
      BY <1>2, <1>3, <2>1 DEF FoundOK
  <1>8. DataOK /\ ProcOK
    BY <1>3 DEF DataOK, ProcOK
  <1>9. CacheTypes /\ ViewsOK /\ AskedOK
    <2> DEFINE argv == [i \in 1..ARGV_LIMIT |-> Empty]
    <2>1. argv \in [1..ARGV_LIMIT -> Int] /\ ARGV_LIMIT \in 1..ARGV_LIMIT
      BY CacheAssumption DEF Empty
    <2>2. /\ cache = [populated |-> FALSE, app |-> "none", initialArgc |-> ARGV_LIMIT,
                      initialArgv |-> argv, own |-> 0, view |-> NoView, made |-> 0,
                      path |-> "none", named |-> {}]
          /\ views = <<>>
      BY DEF Init, CacheInit
    <2> HIDE DEF argv
    <2>3. CacheTypes
      BY <2>1, <2>2 DEF CacheTypes
    <2>4. ViewsOK
      BY <2>2 DEF ViewsOK
    <2>5. AskedOK
      BY <1>3, <2>2 DEF AskedOK
    <2> QED
      BY <2>3, <2>4, <2>5
  <1> QED
    BY <1>5, <1>6, <1>7, <1>8, <1>9 DEF IInv


\* Every step keeps the invariant.
LEMMA StepInv == IInv /\ [Next]_vars => IInv'
  <1> SUFFICES ASSUME IInv, [Next]_vars PROVE IInv'
    OBVIOUS
  <1>1. CASE UNCHANGED vars
    <2>1. UNCHANGED <<user, typed, req, ipc, count, code, start, cache, views, pc, appData,
                      proc, asked>>
      BY <1>1 DEF vars, cmdVars, fdVars, cacheVars
    <2>2. Types' /\ ParsedOK' /\ FoundOK'
      <3>1. Types' /\ ParsedOK'
        BY <2>1 DEF IInv, Types, ParsedOK, AsTyped
      <3>2. SearchProgram' = SearchProgram /\ DirectoryFirst' = DirectoryFirst
        BY <2>1 DEF SearchProgram, DirectoryFirst, Hits, KindAt, Full
      <3>3. FoundOK'
        BY <2>1, <3>2 DEF IInv, FoundOK, KindAt
      <3> QED
        BY <3>1, <3>3
    <2>3. DataOK' /\ ProcOK'
      BY <2>1 DEF IInv, DataOK, DlopenFlags, ProcOK, BoosterNice, DaemonDir
    <2>4. CacheTypes' /\ ViewsOK' /\ AskedOK'
      BY <2>1 DEF IInv, CacheTypes, ViewsOK, AskedOK
    <2> QED
      BY <2>2, <2>3, <2>4 DEF IInv
  <1> QED
    BY <1>1, CommandLineStep, ForkStep, AcceptStep, ReceiveStep, ClosePipeStep, LaunchStep,
       AskApplicationStep, AskViewStep DEF Next

\* The inductive invariant holds in every state of every launch.
THEOREM Invariance == Spec => []IInv
  BY InitInv, StepInv, PTL DEF Spec

\* Whatever was typed in whatever order, and however wide the integers are:
\* the delays of main() are the typed ones, and the respawn delay that the
\* daemon will sleep is between 1 and the maximum.
THEOREM DelaysKept == Spec => []DelaysAsTyped
  <1>1. IInv => DelaysAsTyped
    BY DEF IInv, FoundOK, ParsedOK, DataOK, DelaysAsTyped
  <1> QED
    BY <1>1, Invariance, PTL

\* Equivalent truth values are equal.
LEMMA SameTruth == \A a, b \in BOOLEAN : (a <=> b) => a = b
  BY Zenon

\* The options reach dlopen(), the single-instance check and both sides'
\* decision on whether the invoker waits.
THEOREM OptionsKept == Spec => []OptionsHonoured
  <1>1. IInv => OptionsHonoured
    <2> SUFFICES ASSUME IInv, pc = "main"
                 PROVE  /\ req.wait = appData.sendPid
                        /\ req.wait = ("n" \notin typed.flags)
                        /\ appData.flags = {IF "G" \in typed.flags THEN "GLOBAL" ELSE "LOCAL"}
                                              \cup (IF "D" \in typed.flags THEN {"DEEP"} ELSE {})
                        /\ ("SINGLE" \in appData.options) = ("s" \in typed.flags)
                        /\ req.type = typed.type
      BY DEF OptionsHonoured
    <2>1. /\ req.wait \in BOOLEAN
          /\ req.wait <=> "n" \notin typed.flags
          /\ "WAIT" \in req.magic <=> req.wait
          /\ "GLOBAL" \in req.magic <=> "G" \in typed.flags
          /\ "DEEP" \in req.magic <=> "D" \in typed.flags
          /\ "SINGLE" \in req.magic <=> "s" \in typed.flags
          /\ req.type = typed.type
      BY DEF IInv, Types, FoundOK, ParsedOK
    <2>2. /\ appData.options = req.magic /\ appData.sendPid = ("WAIT" \in req.magic)
          /\ appData.flags = DlopenFlags
      BY DEF IInv, DataOK
    <2>3. appData.flags = {IF "G" \in typed.flags THEN "GLOBAL" ELSE "LOCAL"}
                            \cup (IF "D" \in typed.flags THEN {"DEEP"} ELSE {})
      BY <2>1, <2>2 DEF DlopenFlags
    <2>4. req.wait = appData.sendPid
      <3>1. appData.sendPid <=> req.wait
        BY <2>1, <2>2
      <3>2. appData.sendPid \in BOOLEAN
        BY DEF IInv, Types
      <3> QED
        BY <2>1, <3>1, <3>2, SameTruth, Zenon
    <2>5. req.wait = ("n" \notin typed.flags)
      <3>1. ("n" \notin typed.flags) \in BOOLEAN
        OBVIOUS
      <3> QED
        BY <2>1, <3>1, SameTruth, Zenon
    <2>6. ("SINGLE" \in appData.options) = ("s" \in typed.flags)
      BY <2>1, <2>2
    <2> QED
      BY <2>1, <2>3, <2>4, <2>5, <2>6, Zenon
  <1> QED
    BY <1>1, Invariance, PTL

\* The nice value of the application is the largest of its invoker's, the
\* daemon's and, without privileges, the booster's own 10.
THEOREM PriorityKept == Spec => []RunsAtItsPriority
  <1>1. IInv => RunsAtItsPriority
    <2> SUFFICES ASSUME IInv, pc = "main"
                 PROVE  proc.nice = Max({user.nice, start.nice}
                                          \cup (IF start.priv THEN {} ELSE {10}))
      BY DEF RunsAtItsPriority
    <2> DEFINE S == {user.nice, start.nice} \cup (IF start.priv THEN {} ELSE {10})
    <2>1. user.nice \in Int /\ start.nice \in Int
      BY UserFacts, StartFacts DEF IInv, Types
    <2>2. proc.nice = IF BoosterNice < user.nice THEN user.nice ELSE BoosterNice
      BY DEF IInv, ProcOK
    <2>3. proc.nice \in S /\ \A y \in S : proc.nice >= y
      BY <2>1, <2>2 DEF BoosterNice
    <2>4. S \subseteq Int
      BY <2>1
    <2> HIDE DEF S
    <2>5. \A x \in S : (\A y \in S : x >= y) => x = proc.nice
      <3> SUFFICES ASSUME NEW x \in S, \A y \in S : x >= y PROVE x = proc.nice
        OBVIOUS
      <3>1. x >= proc.nice /\ proc.nice >= x
        BY <2>3, Zenon
      <3>2. x \in Int /\ proc.nice \in Int
        BY <2>3, <2>4, Zenon
      <3> QED
        BY <3>1, <3>2
    <2>6. Max(S) = proc.nice
      BY <2>3, <2>5 DEF Max
    <2> QED
      BY <2>6 DEF S
  <1> QED
    BY <1>1, Invariance, PTL


\* Where a shell would find a bare name, if PATH has no empty element and the
\* first hit of search_program() is a program.
LEMMA AsTheShell ==
    ASSUME user \in Users, user.path # None, <<>> \notin Range(user.path), Hits # {},
           KindAt(Full(user.path[Min(Hits)], user.cwd)) = "prog"
    PROVE  ShellFinds = Full(user.path[Min(Hits)], user.cwd)
  <1> DEFINE at(e) == IF e = <<>> THEN <<user.cwd, "">> ELSE Full(e, user.cwd)
             progs == {k \in DOMAIN user.path : KindAt(at(user.path[k])) = "prog"}
  <1>1. ShellFinds = IF user.path = None \/ progs = {} THEN None ELSE at(user.path[Min(progs)])
    BY DEF ShellFinds
  <1>2. \A k \in DOMAIN user.path : user.path[k] # <<>>
    BY DEF Range
  <1>3. /\ Min(Hits) \in Hits /\ \A k \in Hits : Min(Hits) <= k
        /\ Hits \subseteq Nat
    BY LeastHit
  <1>4. progs \subseteq Hits
    BY <1>2 DEF Hits
  <1>5. Min(Hits) \in progs
    BY <1>2, <1>3 DEF Hits
  <1>6. at(user.path[Min(Hits)]) = Full(user.path[Min(Hits)], user.cwd)
    BY <1>2, <1>3 DEF Hits
  <1> HIDE DEF at, progs
  <1>7. Min(progs) \in progs /\ \A k \in progs : Min(progs) <= k
    BY <1>3, <1>4, <1>5, Least
  <1>8. Min(progs) <= Min(Hits) /\ Min(Hits) <= Min(progs)
    BY <1>3, <1>4, <1>5, <1>7, Zenon
  <1>9. Min(progs) = Min(Hits)
    <2>1. Min(progs) \in Nat /\ Min(Hits) \in Nat
      BY <1>3, <1>4, <1>7, Zenon
    <2> QED
      BY <1>8, <2>1
  <1> QED
    BY <1>1, <1>5, <1>6, <1>9

\* What the search passes over is not there for a shell either, unless by an
\* empty element of PATH.
LEMMA NotForTheShell ==
    ASSUME user \in Users, SearchProgram = None
    PROVE  ShellFinds = None \/ (<<>> \in Range(user.path) /\ ShellFinds = <<user.cwd, "">>)
  <1> DEFINE at(e) == IF e = <<>> THEN <<user.cwd, "">> ELSE Full(e, user.cwd)
             progs == {k \in DOMAIN user.path : KindAt(at(user.path[k])) = "prog"}
  <1>1. ShellFinds = IF user.path = None \/ progs = {} THEN None ELSE at(user.path[Min(progs)])
    BY DEF ShellFinds
  <1>2. CASE user.path # None /\ progs # {}
    <2>1. user.bare
      BY UserFacts, FullPath DEF SearchProgram
    <2>2. user.path \in Seq(Paths \cup {<<>>}) /\ user.cwd \in Bases
      BY <1>2, UserFacts
    <2>3. Hits = {}
      <3>1. ASSUME Hits # {} PROVE FALSE
        <4>1. SearchProgram = Full(user.path[Min(Hits)], user.cwd)
          BY <1>2, <2>1, <3>1 DEF SearchProgram
        <4>2. user.path[Min(Hits)] \in Paths
          BY <1>2, <3>1, LeastHit
        <4> QED
          BY <2>2, <4>1, <4>2, FullPath
      <3> QED
        BY <3>1
    <2>4. progs \subseteq Nat
      <3>1. progs \subseteq DOMAIN user.path
        BY Zenon
      <3> HIDE DEF progs, at
      <3>2. DOMAIN user.path \subseteq Nat
        BY <2>2
      <3> QED
        BY <3>1, <3>2
    <2>5. \A k \in progs : k \in DOMAIN user.path /\ user.path[k] = <<>>
      BY <2>3 DEF Hits
    <2> HIDE DEF progs
    <2>6. Min(progs) \in progs
      BY <1>2, <2>4, Least
    <2>7. user.path[Min(progs)] = <<>> /\ <<>> \in Range(user.path)
      BY <2>5, <2>6 DEF Range
    <2>8. at(user.path[Min(progs)]) = <<user.cwd, "">>
      BY <2>7
    <2> QED
      BY <1>1, <1>2, <2>7, <2>8
  <1> QED
    BY <1>1, <1>2

\* The booster loads the file that the user meant, main() is called in $PWD or,
\* if that cannot be entered, where the daemon was started, and a program is
\* given up for lost only for the reasons that RightProgram names.
THEOREM ProgramKept == Spec => []RightProgram
  <1>1. IInv => RightProgram
    <2> SUFFICES ASSUME IInv PROVE RightProgram
      OBVIOUS
    <2>1. user \in Users
      BY DEF IInv, Types
    <2>2. ASSUME pc = "main"
          PROVE  /\ proc.loaded = SearchProgram /\ SearchProgram # None
                 /\ KindAt(SearchProgram) \in {"prog", "data"}
                 /\ proc.cwd = IF user.pwd \in user.dirs THEN user.pwd ELSE DaemonDir
      BY <2>2 DEF IInv, FoundOK, ProcOK
    <2>3. ASSUME pc = "main", ~user.bare
          PROVE  proc.loaded = Full(user.word, user.cwd)
      BY <2>1, <2>2, <2>3, Searched
    <2>4. ASSUME pc = "main", user.bare, <<>> \notin Range(user.path)
          PROVE  proc.loaded = ShellFinds
      <3>1. /\ user.path # None /\ Hits # {}
            /\ SearchProgram = Full(user.path[Min(Hits)], user.cwd)
            /\ KindAt(SearchProgram) \in {"prog", "dir"}
        BY <2>1, <2>2, <2>4, Searched
      <3>2. KindAt(SearchProgram) = "prog"
        BY <2>2, <2>4, <3>1
      <3> QED
        BY <2>1, <2>2, <2>4, <3>1, <3>2, AsTheShell
    <2>5. ASSUME pc = "main"
          PROVE  proc.cwd = IF user.pwd \in user.dirs THEN user.pwd
                            ELSE IF start.daemon THEN "/" ELSE start.cwd
      BY <2>2, <2>5 DEF DaemonDir
    <2>6. ipc = "lost" =>
            ShellFinds = None \/ (<<>> \in Range(user.path) /\ ShellFinds = <<user.cwd, "">>)
      BY <2>1, NotForTheShell DEF IInv, FoundOK
    <2> DEFINE Offers(k, kind) == /\ user.path[k] # <<>>
                                  /\ KindAt(Full(user.path[k], user.cwd)) = kind
    <2>7. ASSUME code = 127, user.bare
          PROVE  \E k \in DOMAIN user.path :
                   Offers(k, "dir") /\ \A j \in 1..(k - 1) : ~Offers(j, "prog")
      <3>1. /\ user.path # None /\ Hits # {}
            /\ KindAt(Full(user.path[Min(Hits)], user.cwd)) = "dir"
        BY <2>7 DEF IInv, FoundOK, DirectoryFirst
      <3> DEFINE first == Min(Hits)
      <3>2. /\ first \in Hits /\ \A k \in Hits : first <= k
            /\ first \in Nat /\ user.path \in Seq(Paths \cup {<<>>})
        BY <2>1, <3>1, LeastHit, UserFacts
      <3>3. first \in DOMAIN user.path /\ Offers(first, "dir")
        BY <3>1, <3>2 DEF Hits
      <3> HIDE DEF first
      <3>4. ASSUME NEW j \in 1..(first - 1), Offers(j, "prog") PROVE FALSE
        <4>1. j \in DOMAIN user.path
          BY <3>2, <3>3
        <4>2. j \in Hits
          BY <3>4, <4>1 DEF Hits
        <4> QED
          BY <3>2, <4>2
      <3> QED
        BY <3>3, <3>4
    <2> HIDE DEF Offers
    <2> QED
      BY <2>3, <2>4, <2>5, <2>6, <2>7 DEF RightProgram, Offers
  <1> QED
    BY <1>1, Invariance, PTL

\* After qApplication() the application's own arguments are there;
\* applicationFilePath() names the file that was loaded in the cases that
\* CacheAnswers lists and in no other; no view is given away twice, and none but
\* the first has the application's WM_CLASS.
THEOREM CacheRight == Spec => []CacheAnswers
  <1>1. IInv => CacheAnswers
    <2> SUFFICES ASSUME IInv PROVE CacheAnswers
      OBVIOUS
    <2>1. /\ ARGV_LIMIT \in Nat \ {0} /\ asked \in Nat /\ user \in Users
          /\ cache.initialArgc \in 1..ARGV_LIMIT
          /\ cache.initialArgv \in [1..ARGV_LIMIT -> Int]
          /\ cache.app \in {"none", "cached", "own"} /\ cache.path \in {"none", "argv0"}
      BY CacheAssumption DEF IInv, Types, CacheTypes
    <2>2. ASSUME asked # 0
          PROVE  Arguments = [i \in 1..(IF cache.populated THEN Min({asked, ARGV_LIMIT})
                                        ELSE asked) |-> i]
      <3>1. CASE cache.app = "cached"
        <4> DEFINE n == cache.initialArgc
        <4>1. /\ n = IF asked < ARGV_LIMIT THEN asked ELSE ARGV_LIMIT
              /\ \A i \in 1..n : cache.initialArgv[i] = i
              /\ cache.populated
          BY <2>2, <3>1 DEF IInv, AskedOK
        <4>2. n \in {asked, ARGV_LIMIT} /\ \A k \in {asked, ARGV_LIMIT} : n <= k
          BY <2>1, <4>1
        <4>3. Min({asked, ARGV_LIMIT}) = n
          <5>1. \A x \in {asked, ARGV_LIMIT} :
                  (\A y \in {asked, ARGV_LIMIT} : x =< y) => x = n
            BY <2>1, <4>1
          <5> QED
            BY <4>2, <5>1 DEF Min
        <4>4. SubSeq(cache.initialArgv, 1, n) = [i \in 1..n |-> i]
          <5>1. n \in Nat /\ n >= 1 /\ n <= ARGV_LIMIT
            BY <2>1
          <5>2. SubSeq(cache.initialArgv, 1, n) = [i \in 1..n |-> cache.initialArgv[i]]
            BY <2>1, <5>1
          <5> QED
            BY <4>1, <5>2
        <4> QED
          BY <3>1, <4>1, <4>3, <4>4 DEF Arguments
      <3>2. CASE cache.app = "own"
        BY <3>2 DEF IInv, AskedOK, Arguments
      <3>3. cache.app # "none"
        BY <2>2 DEF IInv, AskedOK
      <3> QED
        BY <2>1, <3>1, <3>2, <3>3
    <2>3. ASSUME asked # 0
          PROVE  PathIsRight <=> /\ req.type = "d" /\ ~start.boot
                                 /\ ~user.bare
                                 /\ user.word[1] = Rel => proc.cwd = user.cwd
      <3>1. /\ pc = "main"
            /\ cache.populated <=> req.type = "d" /\ ~start.boot
            /\ proc.loaded = SearchProgram /\ SearchProgram # None
        BY <2>3 DEF IInv, AskedOK, FoundOK, ProcOK
      <3>2. CASE cache.populated
        <4>1. ApplicationFilePath = "argv0"
          BY <2>1, <2>3, <3>2 DEF IInv, AskedOK, ApplicationFilePath
        <4>2. ~user.bare => proc.loaded = Full(user.word, user.cwd)
          BY <2>1, <3>1, Searched
        <4>3. /\ user.word[1] # Rel => Full(user.word, proc.cwd) = Full(user.word, user.cwd)
              /\ user.word[1] = Rel => /\ Full(user.word, proc.cwd)[1] = proc.cwd
                                       /\ Full(user.word, user.cwd)[1] = user.cwd
              /\ proc.cwd = user.cwd => Full(user.word, proc.cwd) = Full(user.word, user.cwd)
          BY DEF Full
        <4> QED
          BY <3>1, <3>2, <4>1, <4>2, <4>3 DEF PathIsRight
      <3>3. CASE ~cache.populated
        BY <3>1, <3>3 DEF PathIsRight, ApplicationFilePath
      <3> QED
        BY <3>2, <3>3
    <2>4. \A i, j \in DOMAIN views : views[i] = views[j] => i = j
      BY DEF IInv, ViewsOK
    <2>5. asked # 0 /\ cache.view # NoView => cache.view \in cache.named
      BY DEF IInv, ViewsOK, AskedOK
    <2>6. ASSUME NEW i \in DOMAIN views, views[i] \in cache.named
          PROVE  i = 1 /\ cache.populated
      <3>1. cache.named \subseteq {1} /\ views \in Seq(Nat)
        BY DEF IInv, CacheTypes
      <3>2. views[i] = 1 /\ cache.populated /\ cache.view = NoView /\ views # <<>>
        BY <2>6, <3>1 DEF IInv, ViewsOK
      <3>3. views[1] = 1 /\ 1 \in DOMAIN views
        BY <3>1, <3>2 DEF IInv, ViewsOK
      <3> QED
        BY <2>4, <3>2, <3>3
    <2> QED
      BY <2>2, <2>3, <2>4, <2>5, <2>6 DEF CacheAnswers
  <1> QED
    BY <1>1, Invariance, PTL

-----------------------------------------------------------------------------
(* Descriptors and bounds                                                  *)

\* What the booster keeps for the application, besides 0..2.
Kept == ({SockOf(req.type)} \cup HupPair(req.type, start.boot))
          \cup (IF "WAIT" \in req.magic THEN {"conn"} ELSE {})
Rest == IF "WAIT" \in req.magic THEN Kept ELSE Kept \ {SockOf(req.type)}

\* The tables, stage by stage.
FdOK ==
    /\ Fits(dp, DaemonHas, 15, Standard(start))
    /\ bp \in Processes
    /\ ipc = "connect" => req.type \in AppTypes
    /\ pc = "waiting" => Fits(bp, BoosterHas(req.type), 15, Standard(start))
    /\ pc = "accepted" => Fits(bp, Accepted(req.type, start.boot), 18, Standard(start))
    /\ pc = "received" =>
         Fits(bp, (Kept \cup {"boosterW"}) \cup IOs, 21, Standard(start))
    /\ pc = "initialized" => Fits(bp, Kept \cup IOs, 21, Standard(start))
    /\ pc = "main" /\ Standard(start) => HandedOver(bp, Rest)

\* Counters and the numbers of the views.
BoundsOK ==
    /\ count \in 0..MaxOptions /\ code \in {None, 0, 1, 127}
    /\ Len(views) <= MaxViews /\ cache.made <= Len(views) + 1
    /\ \A i \in DOMAIN views : views[i] >= 1

\* The daemon's own table: start-up leaves it with what it opened.
LEMMA InitFd == Init => FdOK /\ BoundsOK
  <1> SUFFICES ASSUME Init PROVE FdOK /\ BoundsOK
    OBVIOUS
  <1>1. /\ start \in Starts /\ dp = InitSockets(StartDaemon(start), start.fresh) /\ bp = dp
        /\ pc = "none" /\ ipc = "options" /\ count = 0 /\ code = None
        /\ views = <<>> /\ cache.made = 0
    BY DEF Init, FdInit, CmdInit, CacheInit
  <1>2. StartType(start)
    BY <1>1, DescriptorsAssumption
  <1>3. Fits(dp, DaemonHas, 15, Standard(start))
    BY <1>1, <1>2, DaemonFits
  <1>4. FdOK
    BY <1>1, <1>3 DEF FdOK, Fits
  <1>5. BoundsOK
    BY <1>1, CommandLineAssumption, CacheAssumption DEF BoundsOK
  <1> QED
    BY <1>4, <1>5

\* The options do not touch the tables; a booster is there once there is a type.
LEMMA CommandLineFd ==
    ASSUME IInv, FdOK, BoundsOK, CommandLine,
           UNCHANGED <<fdVars, cacheVars, pc, appData, proc, asked>>
    PROVE  FdOK' /\ BoundsOK'
  <1>1. /\ ipc = "options" /\ pc = "none"
        /\ UNCHANGED <<start, dp, bp, pc, cache, views>>
    BY DEF IInv, FoundOK, CommandLine, WrongName, ParseOption, NoProgram, Resolve, fdVars,
           cacheVars
  <1>2. /\ count' \in 0..MaxOptions
        /\ code' \in {None, 0, 1, 127}
        /\ ipc' = "connect" => req'.type \in AppTypes
    <2>1. count \in 0..MaxOptions /\ code \in {None, 0, 1, 127} /\ MaxOptions \in Nat
      BY CommandLineAssumption DEF BoundsOK
    <2>2. CASE WrongName \/ NoProgram
      BY <2>1, <2>2 DEF WrongName, NoProgram, Leave
    <2>3. CASE ParseOption
      <3>1. count' = count + 1 /\ count < MaxOptions
        BY <2>3 DEF ParseOption
      <3>2. (\E c \in {0, 1} : Leave(c)) \/ (\E r : Parsed(r))
        BY <2>3 DEF ParseOption, Flag, Flags, RespawnOption
      <3> QED
        BY <1>1, <2>1, <3>1, <3>2 DEF Leave, Parsed
    <2>4. CASE Resolve
      <3>1. CASE ipc' = "connect"
        <4>1. req.type # None /\ req' = [req EXCEPT !.file = SearchProgram] /\ code' = code
          BY <2>4, <3>1 DEF Resolve, Leave
        <4>2. count' = 0
          BY <2>4 DEF Resolve
        <4> QED
          BY <2>1, <4>1, <4>2 DEF IInv, Types
      <3>2. CASE ipc' # "connect"
        <4>1. Leave(1) \/ Leave(127) \/ code' = 1
          BY <2>4, <3>2 DEF Resolve
        <4>2. count' = 0
          BY <2>4 DEF Resolve
        <4> QED
          BY <2>1, <3>2, <4>1, <4>2 DEF Leave
      <3> QED
        BY <3>1, <3>2
    <2> QED
      BY <2>2, <2>3, <2>4 DEF CommandLine
  <1>3. FdOK'
    BY <1>1, <1>2 DEF FdOK
  <1>4. BoundsOK'
    BY <1>1, <1>2 DEF BoundsOK
  <1> QED
    BY <1>3, <1>4

\* A step of the booster leaves the request and the counters alone.
LEMMA BoosterBounds ==
    ASSUME BoundsOK, UNCHANGED <<count, code, views>>, cache'.made <= Len(views) + 1
    PROVE  BoundsOK'
  BY DEF BoundsOK

\* A fork copies the table, and the booster closes the sockets of the others.
LEMMA ForkFd == IInv /\ FdOK /\ BoundsOK /\ ForkBooster => FdOK' /\ BoundsOK'
  <1> SUFFICES ASSUME IInv, FdOK, BoundsOK, ForkBooster PROVE FdOK' /\ BoundsOK'
    OBVIOUS
  <1>1. /\ ipc = "connect" /\ pc' = "waiting" /\ bp' = ChildCloses(dp, req.type)
        /\ UNCHANGED <<ipc, req, start, dp, count, code, views>>
        /\ cache' = cache \/ cache' = Populate(cache)
    BY DEF ForkBooster, cmdVars
  <1>2. req.type \in {"m", "q", "d"}
    BY <1>1 DEF FdOK, AppTypes
  <1>3. Fits(bp', BoosterHas(req.type), 15, Standard(start))
    BY <1>1, <1>2, ForkFits DEF FdOK
  <1>4. FdOK'
    BY <1>1, <1>3 DEF FdOK, Fits
  <1>5. cache'.made <= Len(views) + 1
    <2>1. views \in Seq(Nat) /\ cache.made <= Len(views) + 1
      BY DEF IInv, CacheTypes, BoundsOK
    <2>2. cache' = Populate(cache) => cache'.made = 1
      BY DEF IInv, CacheTypes, Populate
    <2> QED
      BY <1>1, <2>1, <2>2
  <1> QED
    BY <1>1, <1>4, <1>5, BoosterBounds

\* The steps up to main() do not touch the cache.
LEMMA BoosterFrame ==
    ASSUME IInv, BoundsOK, UNCHANGED <<cmdVars, start, dp, cacheVars>>
    PROVE  BoundsOK' /\ UNCHANGED <<ipc, req, start, dp>>
  <1>1. UNCHANGED <<ipc, req, start, dp, count, code, views, cache>>
    BY DEF cmdVars, cacheVars
  <1> QED
    BY <1>1 DEF BoundsOK

\* accept() adds the connection.
LEMMA AcceptFd == IInv /\ FdOK /\ BoundsOK /\ Accept => FdOK' /\ BoundsOK'
  <1> SUFFICES ASSUME IInv, FdOK, BoundsOK, Accept PROVE FdOK' /\ BoundsOK'
    OBVIOUS
  <1>1. /\ pc = "waiting" /\ pc' = "accepted"
        /\ bp' \in AcceptedBy(bp, req.type, start.boot)
        /\ UNCHANGED <<cmdVars, start, dp, cacheVars>>
    BY DEF Accept
  <1>2. BoundsOK' /\ UNCHANGED <<ipc, req, start, dp>>
    BY <1>1, BoosterFrame
  <1>3. req.type \in {"m", "q", "d"}
    BY <1>1 DEF IInv, FoundOK, FdOK, AppTypes
  <1>4. Fits(bp', Accepted(req.type, start.boot), 18, Standard(start))
    BY <1>1, <1>3, AcceptFits DEF FdOK
  <1>5. FdOK'
    BY <1>1, <1>2, <1>4 DEF FdOK, Fits
  <1> QED
    BY <1>2, <1>5

\* The sets that the stages hold.
LEMMA KeptFacts ==
    ASSUME req.type \in {"m", "q", "d"}
    PROVE  /\ Accepted(req.type, start.boot) \in SUBSET Plain
           /\ Accepted(req.type, start.boot) \cap IOs = {}
           /\ Kept \in SUBSET Plain /\ Kept \cap IOs = {} /\ Kept \cap Socks = {SockOf(req.type)}
           /\ "boosterW" \in Plain /\ "boosterW" \notin Kept \cup IOs
           /\ SockOf(req.type) \in Socks /\ SockOf(req.type) \notin IOs \cup {"boosterW", "conn"}
           /\ "WAIT" \in req.magic => Accepted(req.type, start.boot) = Kept \cup {"boosterW"}
           /\ "WAIT" \notin req.magic =>
                Accepted(req.type, start.boot) \ {"conn"} = Kept \cup {"boosterW"}
           /\ "conn" \in Accepted(req.type, start.boot)
  <1> DEFINE s == SockOf(req.type)
             h == HupPair(req.type, start.boot)
  <1>1. s \in Socks
    BY SocketOf
  <1>2. h \subseteq {"hup0", "hup1"}
    BY DEF HupPair
  <1>3. /\ Kept = ({s} \cup h) \cup (IF "WAIT" \in req.magic THEN {"conn"} ELSE {})
        /\ Accepted(req.type, start.boot) = ({"boosterW", s} \cup {"conn"}) \cup h
    BY DEF Kept, Accepted, BoosterHas
  <1> HIDE DEF s, h
  <1>4. /\ {"boosterW", "conn", "hup0", "hup1"} \cup Socks \subseteq Plain
        /\ {"boosterW", "conn", "hup0", "hup1"} \cap (IOs \cup Socks) = {}
        /\ Socks \cap IOs = {} /\ "boosterW" \notin {"conn", "hup0", "hup1"}
        /\ "conn" \notin {"hup0", "hup1"}
    BY DEF Plain, Objects, IOs, Socks, Pipes
  <1> HIDE DEF Kept, Accepted
  <1>5. /\ Kept \subseteq Plain /\ Kept \cap IOs = {} /\ Kept \cap Socks = {s}
        /\ "boosterW" \notin Kept
    BY <1>1, <1>2, <1>3, <1>4
  <1>6. /\ Accepted(req.type, start.boot) \subseteq Plain
        /\ Accepted(req.type, start.boot) \cap IOs = {}
        /\ "conn" \in Accepted(req.type, start.boot)
    BY <1>1, <1>2, <1>3, <1>4
  <1>7. s \in Socks /\ s \notin IOs \cup {"boosterW", "conn"}
    BY <1>1, <1>4
  <1>8. "WAIT" \in req.magic => Accepted(req.type, start.boot) = Kept \cup {"boosterW"}
    BY <1>3
  <1>9. "WAIT" \notin req.magic => Accepted(req.type, start.boot) \ {"conn"} = Kept \cup {"boosterW"}
    BY <1>2, <1>3, <1>4, <1>7
  <1> QED
    BY <1>4, <1>5, <1>6, <1>7, <1>8, <1>9 DEF s

\* The request adds the invoker's three standard descriptors.
LEMMA ReceiveFd == IInv /\ FdOK /\ BoundsOK /\ ReceiveApplicationData => FdOK' /\ BoundsOK'
  <1> SUFFICES ASSUME IInv, FdOK, BoundsOK, ReceiveApplicationData PROVE FdOK' /\ BoundsOK'
    OBVIOUS
  <1>1. /\ pc = "accepted" /\ pc' = "received"
        /\ bp' = IF "WAIT" \in req.magic THEN ReceiveIO(bp) ELSE Close(ReceiveIO(bp), "conn")
        /\ UNCHANGED <<cmdVars, start, dp, cacheVars>>
    BY DEF ReceiveApplicationData
  <1>2. BoundsOK' /\ UNCHANGED <<ipc, req, start, dp>>
    BY <1>1, BoosterFrame
  <1>3. req.type \in {"m", "q", "d"}
    BY <1>1 DEF IInv, FoundOK, FdOK, AppTypes
  <1> DEFINE A == Accepted(req.type, start.boot)
             F == Standard(start)
             K == (Kept \cup {"boosterW"}) \cup IOs
  <1>4. /\ A \in SUBSET Plain /\ A \cap IOs = {} /\ "conn" \in A /\ "conn" \notin IOs
        /\ "WAIT" \in req.magic => A \cup IOs = K
        /\ "WAIT" \notin req.magic => (A \ {"conn"}) \cup IOs = K
        /\ A \cup IOs \in SUBSET Plain
    <2>1. "conn" \notin IOs /\ IOs \subseteq Plain
      BY DEF IOs, Plain, Objects
    <2> QED
      BY <1>3, <2>1, KeptFacts
  <1>5. Fits(bp, A, 18, F)
    BY <1>1 DEF FdOK
  <1> HIDE DEF A, F
  <1>6. Fits(ReceiveIO(bp), A \cup IOs, 21, F)
    BY <1>4, <1>5, IOFits
  <1>7. Fits(Close(ReceiveIO(bp), "conn"), (A \cup IOs) \ {"conn"}, 21, F)
    BY <1>4, <1>6, FitsClose DEF Close
  <1>8. "WAIT" \notin req.magic => (A \cup IOs) \ {"conn"} = K
    <2>1. (A \cup IOs) \ {"conn"} = (A \ {"conn"}) \cup IOs
      BY <1>4
    <2> QED
      BY <1>4, <2>1
  <1>9. Fits(bp', K, 21, F)
    BY <1>1, <1>4, <1>6, <1>7, <1>8
  <1>10. Kept' = Kept
    BY <1>2 DEF Kept
  <1>11. FdOK'
    BY <1>1, <1>2, <1>9, <1>10 DEF FdOK, Fits, F
  <1> QED
    BY <1>2, <1>11

\* The booster gives up its end of the pipe to the daemon.
LEMMA ClosePipeFd == IInv /\ FdOK /\ BoundsOK /\ ClosePipe => FdOK' /\ BoundsOK'
  <1> SUFFICES ASSUME IInv, FdOK, BoundsOK, ClosePipe PROVE FdOK' /\ BoundsOK'
    OBVIOUS
  <1>1. /\ pc = "received" /\ pc' = "initialized" /\ bp' = Close(bp, "boosterW")
        /\ UNCHANGED <<cmdVars, start, dp, cacheVars>>
    BY DEF ClosePipe
  <1>2. BoundsOK' /\ UNCHANGED <<ipc, req, start, dp>>
    BY <1>1, BoosterFrame
  <1>3. req.type \in {"m", "q", "d"}
    BY <1>1 DEF IInv, FoundOK, FdOK, AppTypes
  <1> DEFINE F == Standard(start)
             K == (Kept \cup {"boosterW"}) \cup IOs
  <1>4. K \in SUBSET Plain /\ {"boosterW"} \in SUBSET K /\ K \ {"boosterW"} = Kept \cup IOs
    <2>1. IOs \subseteq Plain
      BY DEF IOs, Plain, Objects
    <2> QED
      BY <1>3, <2>1, KeptFacts
  <1>5. Fits(bp, K, 21, F)
    BY <1>1 DEF FdOK
  <1> HIDE DEF K, F
  <1>6. Fits(bp', K \ {"boosterW"}, 21, F)
    BY <1>1, <1>4, <1>5, FitsClose DEF Close
  <1>7. Kept' = Kept
    BY <1>2 DEF Kept
  <1>8. FdOK'
    BY <1>1, <1>2, <1>4, <1>6, <1>7 DEF FdOK, Fits, F
  <1> QED
    BY <1>2, <1>8

\* launchProcess() moves the received descriptors to 0, 1 and 2.
LEMMA LaunchFd == IInv /\ FdOK /\ BoundsOK /\ Launch => FdOK' /\ BoundsOK'
  <1> SUFFICES ASSUME IInv, FdOK, BoundsOK, Launch PROVE FdOK' /\ BoundsOK'
    OBVIOUS
  <1>1. pc = "initialized" /\ UNCHANGED <<cmdVars, start, dp, cacheVars>>
    BY DEF Launch
  <1>2. BoundsOK' /\ UNCHANGED <<ipc, req, start, dp>>
    BY <1>1, BoosterFrame
  <1>3. req.type \in {"m", "q", "d"}
    BY <1>1 DEF IInv, FoundOK, FdOK, AppTypes
  <1>4. CASE pc' = "dead"
    <2>1. bp' = bp
      BY <1>4 DEF Launch
    <2> QED
      BY <1>2, <1>4, <2>1 DEF FdOK
  <1>5. CASE pc' # "dead"
    <2> DEFINE p == IF appData.sendPid THEN bp ELSE CloseAllSockets(bp)
               K == Kept \cup IOs
               o == SockOf(req.type)
    <2>1. pc' = "main" /\ bp' = Close(DupIO(p), "log")
      BY <1>5 DEF Launch
    <2>2. appData.sendPid <=> "WAIT" \in req.magic
      BY <1>1 DEF IInv, DataOK
    <2>3. bp \in Processes /\ (Standard(start) => Has(bp, K))
      BY <1>1 DEF FdOK, Fits
    <2>4. /\ K \in SUBSET Plain /\ K \cap Socks = {o} /\ o \in Socks
          /\ Rest \in SUBSET Plain /\ Rest \cap IOs = {}
          /\ "WAIT" \in req.magic => K = Rest \cup IOs
          /\ "WAIT" \notin req.magic => K \ {o} = Rest \cup IOs
      <3>1. IOs \subseteq Plain /\ IOs \cap Socks = {}
        BY DEF IOs, Plain, Objects, Socks
      <3>2. Rest = IF "WAIT" \in req.magic THEN Kept ELSE Kept \ {o}
        BY DEF Rest
      <3> QED
        BY <1>3, <3>1, <3>2, KeptFacts
    <2> HIDE DEF K, o
    <2>5. p \in Processes /\ (Standard(start) => Has(p, Rest \cup IOs))
      <3>1. CASE appData.sendPid
        BY <2>2, <2>3, <2>4, <3>1
      <3>2. CASE ~appData.sendPid
        <4>1. /\ CloseAllSockets(bp) \in Processes
              /\ Has(bp, K) => Has(CloseAllSockets(bp), K \ {o})
          BY <2>3, <2>4, SocketsClosed
        <4> QED
          BY <2>2, <2>3, <2>4, <3>2, <4>1
      <3> QED
        BY <3>1, <3>2
    <2> HIDE DEF p
    <2>6. bp' \in Processes /\ (Standard(start) => HandedOver(bp', Rest))
      BY <2>1, <2>4, <2>5, Launched
    <2>7. Rest' = Rest
      BY <1>2 DEF Rest, Kept
    <2>8. FdOK'
      BY <1>2, <2>1, <2>6, <2>7 DEF FdOK
    <2> QED
      BY <1>2, <2>8
  <1> QED
    BY <1>4, <1>5, <1>2

\* The application's calls only touch the cache.
LEMMA AskFd ==
    ASSUME IInv, FdOK, BoundsOK, AskApplication \/ AskView
    PROVE  FdOK' /\ BoundsOK'
  <1>1. UNCHANGED <<ipc, req, count, code, start, dp, bp, pc>>
    BY DEF AskApplication, AskView, cmdVars, fdVars
  <1>2. FdOK'
    <2>1. Rest' = Rest /\ Kept' = Kept
      BY <1>1 DEF Rest, Kept
    <2> QED
      BY <1>1, <2>1 DEF FdOK
  <1>3. /\ views \in Seq(Nat) /\ cache.made \in Nat
        /\ cache.view \in {NoView, 1} /\ MaxViews \in Nat
    BY CacheAssumption DEF IInv, CacheTypes
  <1>4. CASE AskApplication
    <2>1. views' = views
      BY <1>4 DEF AskApplication, QApplication
    <2>2. cache'.made = cache.made
      BY <1>4 DEF AskApplication, QApplication, CopyArguments, IInv, CacheTypes
    <2> QED
      BY <1>1, <1>2, <2>1, <2>2 DEF BoundsOK
  <1>5. CASE AskView
    <2> DEFINE v == IF cache.view # NoView THEN cache.view ELSE cache.made + 1
    <2>1. Len(views) < MaxViews /\ views' = Append(views, v)
      BY <1>5 DEF AskView, QDeclarativeView
    <2>2. v \in Nat /\ v >= 1
      BY <1>3 DEF NoView
    <2>3. cache'.made <= cache.made + 1
      BY <1>3, <1>5 DEF AskView, QDeclarativeView, IInv, CacheTypes
    <2>4. cache'.made \in Nat
      BY <1>3, <1>5 DEF AskView, QDeclarativeView, IInv, CacheTypes
    <2> HIDE DEF v
    <2>5. /\ Len(views') = Len(views) + 1 /\ DOMAIN views' = 1..(Len(views) + 1)
          /\ \A i \in DOMAIN views' : views'[i] = IF i \in DOMAIN views THEN views[i] ELSE v
      BY <1>3, <2>1, <2>2
    <2> QED
      BY <1>1, <1>2, <1>3, <2>1, <2>2, <2>3, <2>4, <2>5 DEF BoundsOK
  <1> QED
    BY <1>4, <1>5

\* Every step keeps the facts about the tables.
LEMMA StepFd == IInv /\ FdOK /\ BoundsOK /\ [Next]_vars => FdOK' /\ BoundsOK'
  <1> SUFFICES ASSUME IInv, FdOK, BoundsOK, [Next]_vars PROVE FdOK' /\ BoundsOK'
    OBVIOUS
  <1>1. CASE UNCHANGED vars
    <2>1. UNCHANGED <<ipc, req, count, code, start, dp, bp, pc, cache, views>>
      BY <1>1 DEF vars, cmdVars, fdVars, cacheVars
    <2>2. Rest' = Rest /\ Kept' = Kept
      BY <2>1 DEF Rest, Kept
    <2> QED
      BY <2>1, <2>2 DEF FdOK, BoundsOK
  <1> QED
    BY <1>1, CommandLineFd, ForkFd, AcceptFd, ReceiveFd, ClosePipeFd, LaunchFd, AskFd DEF Next

\* The tables and the counters keep their invariant.
THEOREM TablesKept == Spec => [](FdOK /\ BoundsOK)
  BY InitFd, StepFd, Invariance, PTL DEF Spec

\* Every variable of the launch keeps its type; in particular no open() finds
\* the table full.
THEOREM Typing == Spec => []TypeOK
  <1>1. IInv /\ FdOK /\ BoundsOK => TypeOK
    <2> SUFFICES ASSUME IInv, FdOK, BoundsOK PROVE TypeOK
      OBVIOUS
    <2>1. CmdTypeOK
      <3>1. user \in Users /\ UserType(user)
        BY AppViewAssumption DEF IInv, Types
      <3>2. /\ typed.flags \subseteq Flags /\ typed.type \in AppTypes \cup {"x", None}
            /\ {typed.delay, typed.respawn} \subseteq Numbers \cup {None}
        BY DEF IInv, Types
      <3>3. /\ req.type \in AppTypes \cup {None} /\ req.wait \in BOOLEAN
            /\ req.magic \subseteq {"WAIT", "GLOBAL", "DEEP", "SINGLE"}
            /\ {req.delay, req.respawn} \subseteq 0..(IntMod - 1)
        BY DEF IInv, Types, Magics, Delays
      <3>4. req.file \in Paths \cup {None}
        BY DEF IInv, Types, Paths
      <3>5. ipc \in {"options", "connect", "lost", "over"}
        BY DEF IInv, Types
      <3> QED
        BY <3>1, <3>2, <3>3, <3>4, <3>5 DEF CmdTypeOK, BoundsOK
    <2>2. FdTypeOK
      BY DEF FdTypeOK, IInv, Types, FdOK, Fits, Processes, Values
    <2>3. CacheTypeOK
      <3>1. /\ cache.populated \in BOOLEAN /\ cache.named \subseteq {1}
            /\ cache.app \in {"none", "cached", "own"} /\ cache.path \in {"none", "argv0"}
            /\ cache.initialArgc \in 1..ARGV_LIMIT /\ cache.own \in Nat
            /\ DOMAIN cache.initialArgv = 1..ARGV_LIMIT
            /\ cache.view \in {NoView, 1} /\ cache.made \in Nat /\ views \in Seq(Nat)
        BY DEF IInv, CacheTypes
      <3>2. Len(views) <= MaxViews /\ cache.made <= Len(views) + 1 /\ MaxViews \in Nat
        BY CacheAssumption DEF BoundsOK
      <3>3. cache.view \in Nat /\ cache.made \in 0..(MaxViews + 1)
        BY <3>1, <3>2 DEF NoView
      <3>4. \A i \in 1..Len(views) : views[i] \in 1..(MaxViews + 1)
        <4>1. \A i \in DOMAIN views : views[i] >= 1 /\ views[i] <= cache.made
          BY DEF IInv, ViewsOK, BoundsOK
        <4>2. \A i \in 1..Len(views) : i \in DOMAIN views /\ views[i] \in Nat
          BY <3>1
        <4> QED
          BY <3>2, <3>3, <4>1, <4>2
      <3>5. views \in Seq(1..(MaxViews + 1))
        <4>1. Len(views) \in Nat /\ views = [i \in 1..Len(views) |-> views[i]]
          BY <3>1
        <4>2. [i \in 1..Len(views) |-> views[i]] \in Seq(1..(MaxViews + 1))
          BY <3>4, <4>1
        <4> QED
          BY <4>1, <4>2, Zenon
      <3> QED
        BY <3>1, <3>2, <3>3, <3>5 DEF CacheTypeOK
    <2>4. /\ pc \in {"none", "waiting", "accepted", "received", "initialized", "main", "dead"}
          /\ appData.options \subseteq {"WAIT", "GLOBAL", "DEEP", "SINGLE"}
          /\ appData.sendPid \in BOOLEAN /\ appData.file \in Paths \cup {None}
          /\ appData.delay \in 0..(IntMod - 1)
          /\ appData.flags \subseteq {"GLOBAL", "LOCAL", "DEEP"}
          /\ proc.nice \in Int /\ proc.old \in Int
          /\ proc.cwd \in Bases /\ proc.pwd \in Bases \cup {None}
          /\ proc.loaded \in (Bases \X Rests) \cup {None}
          /\ asked \in Nat
      BY DEF IInv, Types, Magics, Delays, Paths
    <2> QED
      BY <2>1, <2>2, <2>3, <2>4 DEF TypeOK
  <1> QED
    BY <1>1, Invariance, TablesKept, PTL

\* However the daemon was started with its standard descriptors open, and
\* whichever thread of the m-booster is faster: the application has its
\* invoker's, and nothing else but what it needs.
THEOREM StdioKept == Spec => []StdioHandedOver
  <1>1. IInv /\ FdOK => StdioHandedOver
    <2> SUFFICES ASSUME IInv, FdOK, pc = "main", start.open = 0..2
                 PROVE  /\ \A i \in 0..2 : bp.tab[i] = IO[i + 1]
                        /\ appData.sendPid => bp.tab[bp.num["conn"]] = "conn"
                        /\ \A n \in Fd \ 0..2 : bp.tab[n] # Closed =>
                              \/ bp.tab[n] \in {"conn", SockOf(req.type)} /\ appData.sendPid
                              \/ bp.tab[n] \in {"hup0", "hup1"} /\ req.type = "m" /\ ~start.boot
                        /\ \A o \in {"lock"} \cup Pipes \cup Socks : dp.tab[dp.num[o]] = o
      BY DEF StdioHandedOver
    <2>1. Standard(start) /\ HandedOver(bp, Rest) /\ Has(dp, DaemonHas)
      BY DEF FdOK, Fits, Standard
    <2>2. appData.sendPid <=> "WAIT" \in req.magic
      BY DEF IInv, DataOK
    <2>3. appData.sendPid => "conn" \in Rest
      BY <2>2 DEF Rest, Kept
    <2>4. \A o \in Rest :
             \/ o \in {"conn", SockOf(req.type)} /\ appData.sendPid
             \/ o \in {"hup0", "hup1"} /\ req.type = "m" /\ ~start.boot
      BY <2>2 DEF Rest, Kept, HupPair
    <2>5. \A o \in {"lock"} \cup Pipes \cup Socks : dp.tab[dp.num[o]] = o
      BY <2>1 DEF Has, DaemonHas
    <2> QED
      BY <2>1, <2>3, <2>4, <2>5 DEF HandedOver
  <1> QED
    BY <1>1, Invariance, TablesKept, PTL

=============================================================================

----------------------------- MODULE CommandLine -----------------------------
(***************************************************************************)
(* The invoker before it connects: main() and get_delay() of invoker.c,    *)
(* search_program() of search.c.  It turns the words a user typed into a   *)
(* request, or gives up with an exit code.                                 *)
(*                                                                         *)
(* A path is <<base, rest>>: base is an absolute directory, or Rel for a   *)
(* path that starts at the working directory.  The program's own name is   *)
(* left out: a path stands for the program in that directory.              *)
(***************************************************************************)
EXTENDS Integers, Sequences, FiniteSetsExt

CONSTANTS
    Bases,        \* absolute directories
    Rests,        \* what may follow a base
    Rel,          \* the base of a relative path
    None,         \* PATH or PWD unset, no type, nothing found, nothing typed
    Users,        \* who calls the invoker, and where: see UserType
    Numbers,      \* values typed after --delay and --respawn
    IntMod,       \* 2^(bits of unsigned int); scaled down, over the maximum
    MaxOptions    \* bound: options on a command line

Paths   == (Bases \cup {Rel}) \X Rests
AppTypes == {"m", "q", "d"}

RESPAWN_DELAY     == 3
MAX_RESPAWN_DELAY == 10

ASSUME CommandLineAssumption ==
    /\ Rel \notin Bases
    /\ None \notin Bases \cup AppTypes \cup Paths \cup Numbers \cup {0, 1, 127}
    /\ Numbers \subseteq Int
    /\ IntMod \in Nat /\ IntMod > MAX_RESPAWN_DELAY /\ MaxOptions \in Nat

VARIABLES
    user,    \* see UserType; never changes
    typed,   \* what the options said, each as typed last
    req,     \* what main() makes of them: app_type, wait_term, magic_options ...
    ipc,     \* where main() is
    count,   \* options parsed so far
    code     \* exit code, once main() has given up

cmdVars == <<user, typed, req, ipc, count, code>>

\* cwd, $PWD and the nice value of the invoker; $PATH; the first argument, a
\* bare name if it has no slash; the number of arguments from there on; what
\* is where on the disk; the directories that can be entered; 2^(bits of
\* unsigned long).
UserType(u) ==
    /\ u.cwd \in Bases /\ u.pwd \in Bases \cup {None} /\ u.nice \in Int
    /\ u.path = None \/ u.path \in Seq(Paths \cup {<<>>})
    /\ u.bare \in BOOLEAN /\ u.word \in Paths /\ u.argc \in Nat \ {0}
    /\ DOMAIN u.disk \subseteq Bases \X Rests
    /\ \A p \in DOMAIN u.disk : u.disk[p] \in {"prog", "data", "dir"}
    /\ u.dirs \subseteq Bases /\ u.ulong \in Nat /\ u.ulong >= IntMod

Flags == {"h", "c", "w", "n", "G", "D", "s", "?"}
Options ==
    [opt : Flags] \cup [opt : {"t"}, type : AppTypes \cup {"x"}]
                  \cup [opt : {"d", "r"}, num : Numbers]

-----------------------------------------------------------------------------
(* Numbers                                                                 *)

\* strtoul(): clipped with ERANGE when too large, a negative one wraps.
Strtoul(v) ==
    LET max == user.ulong - 1
    IN IF v > max \/ -v > max THEN [value |-> max, range |-> TRUE]
       ELSE [value |-> v % user.ulong, range |-> FALSE]

\* Mutant: the variable is as wide as the result.
GetDelayWide(v) == Strtoul(v).value

\* get_delay(): the result is cut to unsigned int before it is compared with
\* ULONG_MAX.  0 is an error.
GetDelay(v) ==
    LET s == Strtoul(v)
        delay == s.value % IntMod
    IN IF s.range /\ delay = user.ulong - 1 THEN 0 ELSE delay

-----------------------------------------------------------------------------
(* The program                                                             *)

KindAt(p) == IF p \in DOMAIN user.disk THEN user.disk[p] ELSE "none"

\* Path p, seen from working directory dir.
Full(p, dir) == IF p[1] = Rel THEN <<dir, p[2]>> ELSE p

\* The elements of PATH where search_program() would stop: strtok_r() skips
\* empty ones, and access(X_OK) is true of a directory too.
Hits == {k \in DOMAIN user.path :
           user.path[k] # <<>> /\ KindAt(Full(user.path[k], user.cwd)) \in {"prog", "dir"}}

\* Mutant: what was found is not merged with the working directory.
SearchProgramAsFound ==
    IF ~user.bare THEN user.word
    ELSE IF user.path = None \/ Hits = {} THEN None
    ELSE user.path[Min(Hits)]

\* search_program().
SearchProgram ==
    IF ~user.bare THEN Full(user.word, user.cwd)
    ELSE IF user.path = None \/ Hits = {} THEN None
    ELSE Full(user.path[Min(Hits)], user.cwd)

-----------------------------------------------------------------------------
(* main()                                                                  *)

CmdInit ==
    /\ user \in Users
    /\ typed = [flags |-> {}, type |-> None, delay |-> None, respawn |-> None]
    /\ req = [type |-> None, wait |-> TRUE, magic |-> {"WAIT"}, delay |-> 0,
              respawn |-> RESPAWN_DELAY, file |-> None]
    /\ ipc = "options" /\ count = 0 /\ code = None

Leave(c) == ipc' = "over" /\ code' = c /\ UNCHANGED req
Parsed(r) == req' = r /\ UNCHANGED <<ipc, code>>

\* Mutant: only the invoker's own variable is cleared.
NoWaitOfMagic(r) == [r EXCEPT !.wait = FALSE]

\* Option n.
NoWaitOf(r) == [r EXCEPT !.wait = FALSE, !.magic = r.magic \ {"WAIT"}]

Flag(f) ==
    CASE f \in {"h", "c"} -> Leave(0)
      [] f = "?" -> Leave(1)
      [] f = "w" -> Parsed(req)
      [] f = "n" -> Parsed(NoWaitOf(req))
      [] f = "G" -> Parsed([req EXCEPT !.magic = @ \cup {"GLOBAL"}])
      [] f = "D" -> Parsed([req EXCEPT !.magic = @ \cup {"DEEP"}])
      [] f = "s" -> Parsed([req EXCEPT !.magic = @ \cup {"SINGLE"}])

\* Mutant: the maximum is not looked at.
RespawnOptionAny(v) ==
    IF GetDelay(v) = 0 THEN Leave(1)
    ELSE Parsed([req EXCEPT !.respawn = GetDelay(v)])

\* Option r.
RespawnOption(v) ==
    IF GetDelay(v) = 0 \/ GetDelay(v) > MAX_RESPAWN_DELAY THEN Leave(1)
    ELSE Parsed([req EXCEPT !.respawn = GetDelay(v)])

\* One round of the getopt_long() loop.
ParseOption ==
    /\ ipc = "options" /\ count < MaxOptions
    /\ count' = count + 1
    /\ \E o \in Options :
         \/ /\ o.opt \in Flags /\ Flag(o.opt)
            /\ typed' = [typed EXCEPT !.flags = @ \cup {o.opt}]
         \/ /\ o.opt = "t"
            /\ IF o.type \in AppTypes THEN Parsed([req EXCEPT !.type = o.type])
               ELSE Leave(1)
            /\ typed' = [typed EXCEPT !.type = o.type]
         \/ /\ o.opt = "d"
            /\ IF GetDelay(o.num) = 0 THEN Leave(1)
               ELSE Parsed([req EXCEPT !.delay = GetDelay(o.num)])
            /\ typed' = [typed EXCEPT !.delay = o.num]
         \/ /\ o.opt = "r"
            /\ RespawnOption(o.num)
            /\ typed' = [typed EXCEPT !.respawn = o.num]
    /\ UNCHANGED user

\* Called by a name that is not its own, as over a symbolic link.
WrongName ==
    /\ ipc = "options" /\ count = 0 /\ Leave(1)
    /\ UNCHANGED <<user, typed, count>>

\* Without a program name, usage.
NoProgram ==
    /\ ipc = "options" /\ Leave(1)
    /\ UNCHANGED <<user, typed, count>>

\* The options end: the program is looked for and checked, then the type.
\* "lost": search_program() ended the process.
Resolve ==
    /\ ipc = "options"
    /\ LET p == SearchProgram
       IN IF p = None THEN ipc' = "lost" /\ code' = 1 /\ UNCHANGED req
          ELSE IF KindAt(Full(p, user.cwd)) \in {"none", "dir"} THEN Leave(127)
          ELSE IF req.type = None THEN Leave(1)
          ELSE ipc' = "connect" /\ req' = [req EXCEPT !.file = p] /\ UNCHANGED code
    /\ count' = 0
    /\ UNCHANGED <<user, typed>>

CommandLine == WrongName \/ ParseOption \/ NoProgram \/ Resolve

CmdTypeOK ==
    /\ user \in Users /\ UserType(user)
    /\ typed.flags \subseteq Flags /\ typed.type \in AppTypes \cup {"x", None}
    /\ {typed.delay, typed.respawn} \subseteq Numbers \cup {None}
    /\ req.type \in AppTypes \cup {None} /\ req.wait \in BOOLEAN
    /\ req.magic \subseteq {"WAIT", "GLOBAL", "DEEP", "SINGLE"}
    /\ {req.delay, req.respawn} \subseteq 0..(IntMod - 1)
    /\ req.file \in Paths \cup {None}
    /\ ipc \in {"options", "connect", "lost", "over"} /\ count \in 0..MaxOptions
    /\ code \in {None, 0, 1, 127}
=============================================================================

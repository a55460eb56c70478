-------------------------- MODULE MDeclarativeCache --------------------------
(***************************************************************************)
(* The cache of the QDeclarative booster: a QApplication and a view that   *)
(* are made before the application is known, and handed out to it.         *)
(*                                                                         *)
(* Argument i of the application is the number i; the name that populate() *)
(* makes up is PreInit, an empty argument Empty.                           *)
(***************************************************************************)
EXTENDS Integers, Sequences

CONSTANTS
    ARGV_LIMIT,   \* 32 in the code, scaled down
    MaxViews      \* bound: views the application asks for

ASSUME CacheAssumption == ARGV_LIMIT \in Nat \ {0} /\ MaxViews \in Nat

PreInit == 0
Empty   == -1
NoView  == 0

VARIABLES
    cache,   \* the fields of MDeclarativeCachePrivate
    views    \* the views handed out, in order

cacheVars == <<cache, views>>

\* qApplicationInstance is "none", "cached" (made by populate()) or "own".
\* own is the argc of an own one (it keeps a reference to the application's),
\* path what appFilePath is copied from: nothing yet, or argv[0].  named: the
\* views whose windows were given the application's WM_CLASS.
CacheInit ==
    /\ cache = [populated |-> FALSE, app |-> "none", initialArgc |-> ARGV_LIMIT,
                initialArgv |-> [i \in 1..ARGV_LIMIT |-> Empty], own |-> 0,
                view |-> NoView, made |-> 0, path |-> "none", named |-> {}]
    /\ views = <<>>

\* populate().
Populate(c) ==
    [c EXCEPT !.populated = TRUE,
              !.initialArgv = [i \in 1..ARGV_LIMIT |-> IF i = 1 THEN PreInit ELSE Empty],
              !.app = "cached", !.view = 1, !.made = 1]

\* Mutant: QCoreApplication keeps its argument count.
CopyArgumentsKeepsCount(c, argc) ==
    [c EXCEPT !.initialArgv = [i \in 1..ARGV_LIMIT |-> IF i <= argc THEN i ELSE @[i]]]

\* Arguments are copied to where the QApplication looks for them, which is
\* initialArgv if populate() made it; initialArgc is set in any case.
CopyArguments(c, argc) ==
    [c EXCEPT !.initialArgv = [i \in 1..ARGV_LIMIT |->
                                 IF i <= argc /\ c.app = "cached" THEN i ELSE @[i]],
              !.initialArgc = IF argc < ARGV_LIMIT THEN argc ELSE ARGV_LIMIT]

\* qApplication(argc, argv).
QApplication(argc) ==
    /\ IF cache.app = "none"
       THEN cache' = [cache EXCEPT !.app = "own", !.own = argc]
       ELSE cache' = [CopyArguments(cache, argc) EXCEPT
                        !.own = IF cache.app = "own" THEN argc ELSE @,
                        !.named = @ \cup ({cache.view} \ {NoView}),
                        !.path = IF cache.populated THEN "argv0" ELSE @]
    /\ UNCHANGED views

\* qDeclarativeView(): the cached view is given away once.
QDeclarativeView ==
    /\ Len(views) < MaxViews
    /\ cache' = IF cache.view # NoView THEN [cache EXCEPT !.view = NoView]
                ELSE [cache EXCEPT !.made = @ + 1]
    /\ views' = Append(views, IF cache.view # NoView THEN cache.view ELSE cache.made + 1)

\* QCoreApplication::arguments().
Arguments ==
    IF cache.app = "cached" THEN SubSeq(cache.initialArgv, 1, cache.initialArgc)
    ELSE [i \in 1..cache.own |-> i]

\* applicationFilePath().  If the cache was not populated it is what Qt finds
\* in /proc, which is the launcher's, whatever application runs.
ApplicationFilePath == IF cache.populated THEN cache.path ELSE "launcher"

CacheTypeOK ==
    /\ cache.populated \in BOOLEAN /\ cache.named \subseteq 1..(MaxViews + 1)
    /\ cache.app \in {"none", "cached", "own"} /\ cache.path \in {"none", "argv0"}
    /\ cache.initialArgc \in 1..ARGV_LIMIT /\ cache.own \in Nat
    /\ DOMAIN cache.initialArgv = 1..ARGV_LIMIT
    /\ cache.view \in Nat /\ cache.made \in 0..(MaxViews + 1)
    /\ views \in Seq(1..(MaxViews + 1)) /\ Len(views) <= MaxViews
=============================================================================

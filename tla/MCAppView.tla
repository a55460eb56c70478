------------------------------ MODULE MCAppView ------------------------------
(***************************************************************************)
(* AppView for TLC: users and ways to start the daemon.                    *)
(***************************************************************************)
EXTENDS AppView, TLC

User(word, bare, path, disk, pwd, nice, argc, ulong) ==
    [cwd |-> "home", pwd |-> pwd, nice |-> nice, path |-> path, bare |-> bare,
     word |-> word, argc |-> argc, disk |-> disk, dirs |-> Bases \ {"gone"},
     ulong |-> ulong]

Bin  == <<"bin", "">>
Home == <<"home", "">>
Sub  == <<Rel, "sub">>
At   == [rest \in {"", "sub"} |-> <<"home", rest>>]

MCUsers ==
    { User(Bin, FALSE, <<>>, Bin :> "prog", "home", 0, 1, 64),
      User(Sub, FALSE, <<>>, At["sub"] :> "prog" @@ <<"/", "sub">> :> "data", "home", 5, 3, 16),
      User(Sub, FALSE, <<>>, At["sub"] :> "data", None, 15, 4, 64),
      User(Bin, FALSE, <<>>, Bin :> "dir", "home", 0, 1, 64),
      User(Bin, TRUE, <<<<>>, Bin, Home>>, Bin :> "data" @@ Home :> "prog", "home", 0, 2, 16),
      User(Bin, TRUE, <<Sub, Bin>>, At["sub"] :> "prog" @@ Bin :> "prog" @@ <<"/", "sub">> :> "prog",
           "/", 12, 4, 64),
      User(Bin, TRUE, <<Bin, Home>>, Bin :> "dir" @@ Home :> "prog", "home", 0, 1, 64),
      User(Bin, TRUE, None, Bin :> "prog", "home", 0, 1, 64),
      User(Bin, TRUE, <<Home, Bin>>, Bin :> "prog", None, 3, 3, 16),
      User(Sub, FALSE, <<>>, At["sub"] :> "prog", "gone", 0, 2, 64),
      User(Bin, TRUE, <<<<>>, Bin>>, Bin :> "data" @@ Home :> "prog", "home", 0, 1, 64) }

\* An unsigned int has 4 bits here, an unsigned long 4 or 6.
MCNumbers == {-11, 0, 5, 11, 21, 100}

Started(open, quiet, daemon, boot, fresh, nice, priv) ==
    [open |-> open, quiet |-> quiet, daemon |-> daemon, boot |-> boot, fresh |-> fresh,
     nice |-> nice, priv |-> priv, cwd |-> "opt"]

MCStarts ==
    { Started(0..2, FALSE, FALSE, FALSE, FALSE, 0, TRUE),
      Started(0..2, TRUE, FALSE, TRUE, TRUE, 0, TRUE),
      Started(0..2, FALSE, TRUE, FALSE, TRUE, 4, FALSE),
      Started(0..2, TRUE, TRUE, TRUE, FALSE, 12, FALSE),
      Started({1, 2}, FALSE, FALSE, FALSE, FALSE, 0, TRUE),
      Started({}, TRUE, TRUE, FALSE, TRUE, 4, TRUE) }
=============================================================================

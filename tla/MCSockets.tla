------------------------------ MODULE MCSockets ------------------------------
(***************************************************************************)
(* Sockets for TLC: the plugin directories and the invokers explored.      *)
(***************************************************************************)
EXTENDS Sockets

Plugin(t, n) == [good |-> TRUE, type |-> t, sock |-> n]
Broken(t)    == [good |-> FALSE, type |-> t, sock |-> t]

Shipped  == <<Plugin("m", "m"), Plugin("q", "q")>>
Replaced == <<Broken("q"), Plugin("m", "x"), Plugin("m", "m")>>
OneName  == <<Plugin("m", "m"), Plugin("q", "m")>>

\* Two invokers that compete for the boosters of one type, or that are served
\* at the same time by boosters of two.
Rivals == [i1 |-> "m", i2 |-> "m"]
Others == [i1 |-> "m", i2 |-> "q"]

MCSettings == {<<Shipped, Rivals>>, <<Shipped, Others>>,
               <<Replaced, Rivals>>, <<OneName, Rivals>>}
=============================================================================

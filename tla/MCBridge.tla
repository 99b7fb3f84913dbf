------------------------------ MODULE MCBridge ------------------------------
(* An instance of Bridge for TLC: a Room publication and a transfer, messages *)
(* that ask for one of them with or without publishing onchain, and one of a  *)
(* channel the bridge does not attest.                                        *)
EXTENDS Bridge

Ask(op, channel, subject, onchain) ==
    [op |-> op, channel |-> channel, subject |-> subject, onchain |-> onchain]

Pub == Ask("room", "main", "pub", FALSE)
Move == Ask("transfer", "none", "move", FALSE)
PubOnchain == Ask("room", "main", "pub", TRUE)
Refused == Ask("room", "side", "pub", FALSE)

Scenario(mode, first, second) == [from |-> mode, message |-> [a |-> first, b |-> second]]
MCScenarios == {Scenario("cre", Pub, Pub), Scenario("cre", Pub, Move), Scenario("cre", PubOnchain, Pub),
                Scenario("contract", Pub, Pub), Scenario("contract", Move, Refused)}
MCPolicy == [ops |-> {"room", "transfer"}, channels |-> {"main", "none"}]
MCRooms == {"pub"}

\* Two signer sets with f = 1: a rotation replaces node 1 by node 3.
MCSigners == <<{1, 2}, {2, 3}>>
Copy(subject, kind, sigs) == [subject |-> subject, kind |-> kind, sigs |-> sigs]
MCSubmissions == {Copy("pub", "closure", {1, 2}), Copy("move", "huge", {2, 3})}
MCMaxFaults == [cre |-> 1, contract |-> 1]

=============================================================================

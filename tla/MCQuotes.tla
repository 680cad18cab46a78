------------------------------ MODULE MCQuotes ------------------------------
(***************************************************************************)
(* A small instance of Quotes for TLC.  Two listings are on the feed, as   *)
(* many as the slice reaches within the floor, one of them in a second     *)
(* currency too, and ticks overlap.  Then a tick dies, or a position       *)
(* moves: a third listing comes on the feed, and is out of reach, or the   *)
(* first one is left to the position that no quote marks.  To keep the     *)
(* instance small it is one or the other, and from then on no tick begins  *)
(* beside another.                                                         *)
(***************************************************************************)
EXTENDS Quotes

OneMarket   == {Listings}
AllInPounds == [l \in Listings |-> "GBP"]
FirstTwo    == {<<1, "GBP">>, <<1, "USD">>, <<2, "GBP">>}

Feeds == {FirstTwo, FirstTwo \cup {<<3, "GBP">>}, FirstTwo \ {<<1, "GBP">>}}

Beside(t) == \E u \in Ticks \ {t} : tick[u].pc # "idle"

Bounded == /\ feed' \in Feeds /\ moves' + deaths' <= 1
           /\ moves + deaths = 1 =>
                \A t \in Ticks : Beside(t) /\ tick[t].pc = "idle" => tick'[t].pc = "idle"

MCSpec == Init /\ [][Next /\ Bounded]_vars /\ Fairness
=============================================================================

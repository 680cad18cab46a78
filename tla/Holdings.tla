------------------------------ MODULE Holdings ------------------------------
(***************************************************************************)
(* One long-term position and everybody who writes it: the trader, in      *)
(* several tabs, through the price field, the close button, the switch to  *)
(* the feed and the form that corrects a holding; and the quote refresh,   *)
(* on its timer.  Nothing serialises them, and two of the trader's writes  *)
(* are made from something read earlier: the form carries back every       *)
(* value it was drawn with, and closing computes its result from a row it  *)
(* has read.  Quotes says when the refresh marks a position; here it may   *)
(* at any time.                                                            *)
(*                                                                         *)
(* Source: src/lib/db/long-positions.ts, src/app/(app)/long/.              *)
(***************************************************************************)
EXTENDS Integers

CONSTANTS
  Tabs,          \* the trader's open tabs
  Figures,       \* what a holding is made of: quantity, buy price and fees
  Prices,        \* prices per unit
  BuyPrice,      \* the price per unit among the figures
  MaxTime        \* bound: where the clock of the model stops

ASSUME BuyPriceIsOne == BuyPrice \in [Figures -> Prices]
ASSUME TimeIsANumber == MaxTime \in Nat

NoPrice == -1
ASSUME NoPriceIsNone == NoPrice \notin Prices

VARIABLES
  row,      \* the row of long_positions
  tab,      \* what each tab has on the screen, or is in the middle of
  now,      \* the clock
  sold,     \* history: the price the trader last said it was sold at
  checked,  \* history: when somebody last vouched for the stored price
  overtaken,\* history: the price is from a form that somebody else overtook
  torn      \* history: the result is of figures that were edited meanwhile

history == <<sold, checked, overtaken, torn>>
vars == <<row, tab, now, history>>

\* A result stands for what it was worked out from: the arithmetic, on decimals
\* that are read as floats, is left out, and with it the sell price that the
\* form divides back out of the result.
Results == [figs: Figures, sell: Prices]
NoResult == [of |-> "nothing"]

RealizedPnlOnClose(figs, sell) == [figs |-> figs, sell |-> sell]

\* Where a position is in its life.  A closed one has a result, and only it.
States == {"none", "open", "closed", "gone"}

Row == [is: States, figs: Figures, price: Prices, stamp: 0 .. MaxTime,
        source: {"auto", "manual"}, realized: Results \cup {NoResult}]

\* A tab shows the list, or a form drawn with the stored price, or waits for
\* its save or its close to be written.
Blank == [pc |-> "idle"]
Drawn == [pc: {"form"}, drawn: Prices]
Saving == [pc: {"saving"}, drawn: Prices,
           compared: Prices,            \* the price the save compared it with
           figs: Figures, price: Prices, sold: Prices \cup {NoPrice},
           at: 0 .. MaxTime, changed: BOOLEAN]
Closing == [pc: {"closing"}, figs: Figures, sold: Prices, at: 0 .. MaxTime]

-----------------------------------------------------------------------------
Open == row.is = "open"
Exists == row.is \in {"open", "closed"}

Init ==
  \E figs \in Figures, p \in Prices:
    /\ row = [is |-> "none", figs |-> figs, price |-> p, stamp |-> 0,
              source |-> "manual", realized |-> NoResult]
    /\ tab = [t \in Tabs |-> Blank]
    /\ now = 0 /\ checked = 0 /\ sold = NoPrice
    /\ overtaken = FALSE /\ torn = FALSE

\* Worth what it was bought for, until somebody says otherwise.
Create(figs, source) ==
  /\ row.is = "none"
  /\ row' = [is |-> "open", figs |-> figs, price |-> BuyPrice[figs],
             stamp |-> now, source |-> source, realized |-> NoResult]
  /\ checked' = now
  /\ UNCHANGED <<tab, now, sold, overtaken, torn>>

\* The mark-to-market by hand takes the position off the feed.
UpdateCurrentPrice(p) ==
  /\ Open
  /\ row' = [row EXCEPT !.price = p, !.stamp = now, !.source = "manual"]
  /\ checked' = now /\ overtaken' = FALSE
  /\ UNCHANGED <<tab, now, sold, torn>>

SetPriceSource(source) ==
  /\ Open
  /\ row' = [row EXCEPT !.source = source]
  /\ UNCHANGED <<tab, now, history>>

TrackAllOpenPositions ==
  /\ Open /\ row.source = "manual"
  /\ row' = [row EXCEPT !.source = "auto"]
  /\ UNCHANGED <<tab, now, history>>

\* A quote is of an instant of its own, which may lie a while back.
ApplyQuote(p, asOf) ==
  /\ Open /\ row.source = "auto"
  /\ row' = [row EXCEPT !.price = p, !.stamp = asOf]
  /\ checked' = asOf /\ overtaken' = FALSE
  /\ UNCHANGED <<tab, now, sold, torn>>

-----------------------------------------------------------------------------
(***************************************************************************)
(* Closing: closePositionAction reads the row and works out the result,    *)
(* closeLongPosition writes it if the position is still open.              *)
(***************************************************************************)
ReadToClose(t, sell) ==
  /\ tab[t].pc = "idle" /\ Open
  /\ tab' = [tab EXCEPT ![t] =
               [pc |-> "closing", figs |-> row.figs, sold |-> sell, at |-> now]]
  /\ UNCHANGED <<row, now, history>>

\* Mutant: a close does not ask whether the position is open.
CloseLongPosition_Anyway(t) ==
  /\ tab[t].pc = "closing"
  /\ tab' = [tab EXCEPT ![t] = Blank]
  /\ row' = [row EXCEPT
                !.is = "closed", !.price = tab[t].sold, !.stamp = tab[t].at,
                !.realized = RealizedPnlOnClose(tab[t].figs, tab[t].sold)]
  /\ sold' = tab[t].sold /\ checked' = tab[t].at
  /\ overtaken' = FALSE /\ torn' = (tab[t].figs # row.figs)
  /\ UNCHANGED now

CloseLongPosition(t) ==
  /\ tab[t].pc = "closing"
  /\ tab' = [tab EXCEPT ![t] = Blank]
  /\ IF Open
     THEN /\ row' = [row EXCEPT
                       !.is = "closed", !.price = tab[t].sold,
                       !.stamp = tab[t].at,
                       !.realized = RealizedPnlOnClose(tab[t].figs, tab[t].sold)]
          /\ sold' = tab[t].sold /\ checked' = tab[t].at
          /\ overtaken' = FALSE /\ torn' = (tab[t].figs # row.figs)
     ELSE UNCHANGED <<row, history>>
  /\ UNCHANGED now

-----------------------------------------------------------------------------
(***************************************************************************)
(* Correcting: the form is drawn with the values of the row and sends all  *)
(* of them back, those the trader left alone included.                     *)
(***************************************************************************)
DrawForm(t) ==
  /\ tab[t].pc = "idle" /\ Exists
  /\ tab' = [tab EXCEPT ![t] = [pc |-> "form", drawn |-> row.price]]
  /\ UNCHANGED <<row, now, history>>

\* updateLongPosition reads the stored price, to know whether this is another.
Compare(t, figs, p, sell) ==
  /\ tab[t].pc = "form" /\ Exists
  /\ tab' = [tab EXCEPT ![t] =
               [pc |-> "saving", drawn |-> tab[t].drawn, compared |-> row.price,
                figs |-> figs, price |-> p, sold |-> sell, at |-> now,
                changed |-> row.price # p]]
  /\ UNCHANGED <<row, now, history>>

Undisturbed(t) ==
  /\ tab[t].drawn = tab[t].compared
  /\ tab[t].compared = row.price

\* Mutant: every save stamps the price.
Edited_AlwaysStamps(t) ==
  [is |-> IF tab[t].sold = NoPrice THEN "open" ELSE "closed",
   figs |-> tab[t].figs, price |-> tab[t].price,
   stamp |-> tab[t].at, source |-> "manual",
   realized |-> IF tab[t].sold = NoPrice THEN NoResult
                ELSE RealizedPnlOnClose(tab[t].figs, tab[t].sold)]

\* Mutant: the result is of the figures before the edit.
Edited_FromTheStoredFigures(t) ==
  [is |-> IF tab[t].sold = NoPrice THEN "open" ELSE "closed",
   figs |-> tab[t].figs, price |-> tab[t].price,
   stamp |-> IF tab[t].changed THEN tab[t].at ELSE row.stamp,
   source |-> IF tab[t].changed THEN "manual" ELSE row.source,
   realized |-> IF tab[t].sold = NoPrice THEN NoResult
                ELSE RealizedPnlOnClose(row.figs, tab[t].sold)]

\* The row as the form has it.  An empty close reopens the position.
Edited(t) ==
  [is |-> IF tab[t].sold = NoPrice THEN "open" ELSE "closed",
   figs |-> tab[t].figs,
   price |-> tab[t].price,
   stamp |-> IF tab[t].changed THEN tab[t].at ELSE row.stamp,
   source |-> IF tab[t].changed THEN "manual" ELSE row.source,
   realized |-> IF tab[t].sold = NoPrice THEN NoResult
                ELSE RealizedPnlOnClose(tab[t].figs, tab[t].sold)]

Save(t) ==
  /\ tab[t].pc = "saving"
  /\ tab' = [tab EXCEPT ![t] = Blank]
  /\ IF Exists
     THEN /\ row' = Edited(t)
          /\ sold' = tab[t].sold /\ torn' = FALSE
          /\ checked' = IF tab[t].price # tab[t].drawn THEN tab[t].at ELSE checked
          /\ overtaken' = IF Undisturbed(t)
                          THEN overtaken /\ tab[t].price = tab[t].drawn
                          ELSE TRUE
     ELSE UNCHANGED <<row, history>>
  /\ UNCHANGED now

Delete ==
  /\ Exists
  /\ row' = [row EXCEPT !.is = "gone"]
  /\ UNCHANGED <<tab, now, history>>

Cancel(t) ==
  /\ tab[t].pc = "form"
  /\ tab' = [tab EXCEPT ![t] = Blank]
  /\ UNCHANGED <<row, now, history>>

Tick ==
  /\ now < MaxTime
  /\ now' = now + 1
  /\ UNCHANGED <<row, tab, history>>

Next ==
  \/ \E figs \in Figures, source \in {"auto", "manual"}: Create(figs, source)
  \/ \E p \in Prices: UpdateCurrentPrice(p)
  \/ \E source \in {"auto", "manual"}: SetPriceSource(source)
  \/ TrackAllOpenPositions
  \/ \E p \in Prices, asOf \in 0 .. now: ApplyQuote(p, asOf)
  \/ \E t \in Tabs, p \in Prices: ReadToClose(t, p)
  \/ \E t \in Tabs: CloseLongPosition(t)
  \/ \E t \in Tabs: DrawForm(t)
  \/ \E t \in Tabs, figs \in Figures, p \in Prices, sell \in Prices \cup {NoPrice}:
       Compare(t, figs, p, sell)
  \/ \E t \in Tabs: Save(t)
  \/ \E t \in Tabs: Cancel(t)
  \/ Delete
  \/ Tick

Spec == Init /\ [][Next]_vars

-----------------------------------------------------------------------------
\* The types of the row, the tabs and the history; only a closed position has
\* a result.
TypeOK ==
  /\ row \in Row
  /\ row.is \in {"none", "open"} => row.realized = NoResult
  /\ tab \in [Tabs -> {Blank} \cup Drawn \cup Saving \cup Closing]
  /\ now \in 0 .. MaxTime
  /\ sold \in Prices \cup {NoPrice}
  /\ checked \in 0 .. MaxTime
  /\ overtaken \in BOOLEAN /\ torn \in BOOLEAN

\* The stamp beside a price says when somebody last vouched for that price:
\* a save that changed it, a typed mark, a sale or a quote -- and a save that
\* only corrected the quantity is none of these.  The save infers which it
\* was by comparing with the row and not with what the form was drawn with,
\* so it holds as long as nobody moved the price under the form.
StampTellsTheAge == Exists /\ ~overtaken => row.stamp = checked

\* The result beside a closed position is that of the figures and of the sale
\* it is shown with: "a correction to the buy price has to move the realised
\* result with it".  It is so through any sequence of closes, corrections and
\* reopenings, unless a correction came between a close's read and its write.
\* (Of this result closeLongPosition says that it "should not change" when the
\* buy price is edited; updatePositionAction means it to, and does it.)
ResultFollowsTheFigures ==
  row.is = "closed" /\ ~torn => row.realized = RealizedPnlOnClose(row.figs, sold)

\* A gain that was banked stays as it is, whichever tab closes the position
\* again and however late the feed is, until the trader corrects or deletes it.
GainsStayBanked ==
  [][row.is = "closed" /\ row' # row => row'.is = "gone" \/ \E t \in Tabs: Save(t)]_vars
=============================================================================

-------------------------- MODULE Holdings_proofs --------------------------
(***************************************************************************)
(* Proofs about Holdings, for any tabs, figures, prices and length of      *)
(* time.                                                                   *)
(***************************************************************************)
EXTENDS Holdings, TLAPS

\* A save knows whether its price is another than the one it compared with.
ComparedInv ==
  \A t \in Tabs: tab[t].pc = "saving" =>
    (tab[t].changed <=> tab[t].compared # tab[t].price)

-----------------------------------------------------------------------------
(***************************************************************************)
(* Types.                                                                  *)
(***************************************************************************)
LEMMA SavedRow ==
  ASSUME TypeOK, NEW t \in Tabs, tab[t].pc = "saving"
  PROVE  /\ tab[t] \in Saving
         /\ Edited(t) \in Row
         /\ Edited(t).is \in {"open", "closed"}
         /\ Edited(t).is = "open" => Edited(t).realized = NoResult
<1>1. tab[t] \in Saving
  BY DEF TypeOK, Blank, Drawn, Closing, Saving
<1>2. tab[t].sold \in Prices => RealizedPnlOnClose(tab[t].figs, tab[t].sold) \in Results
  BY <1>1 DEF Saving, RealizedPnlOnClose, Results
<1>3. QED BY <1>1, <1>2 DEF TypeOK, Edited, Row, States, Saving

LEMMA ClosingTab ==
  ASSUME TypeOK, NEW t \in Tabs, tab[t].pc = "closing"
  PROVE  /\ tab[t] \in Closing
         /\ RealizedPnlOnClose(tab[t].figs, tab[t].sold) \in Results
<1>1. tab[t] \in Closing
  BY DEF TypeOK, Blank, Drawn, Closing, Saving
<1>2. QED BY <1>1 DEF Closing, RealizedPnlOnClose, Results

LEMMA InitTypes == Init => TypeOK
<1> SUFFICES ASSUME Init PROVE TypeOK
  OBVIOUS
<1>1. PICK figs \in Figures, p \in Prices:
        row = [is |-> "none", figs |-> figs, price |-> p, stamp |-> 0,
               source |-> "manual", realized |-> NoResult]
  BY DEF Init
<1>2. /\ tab = [t \in Tabs |-> Blank] /\ now = 0 /\ checked = 0
      /\ sold = NoPrice /\ overtaken = FALSE /\ torn = FALSE
  BY DEF Init
<1>3. row \in Row /\ row.is = "none" /\ row.realized = NoResult
  BY <1>1, TimeIsANumber DEF Row, States
<1>4. tab \in [Tabs -> {Blank} \cup Drawn \cup Saving \cup Closing]
  BY <1>2
<1>5. overtaken \in BOOLEAN /\ torn \in BOOLEAN
  BY <1>2, Zenon
<1>6. /\ now \in 0 .. MaxTime /\ checked \in 0 .. MaxTime
      /\ sold \in Prices \cup {NoPrice}
  BY <1>2, TimeIsANumber
<1>7. QED BY <1>3, <1>4, <1>5, <1>6 DEF TypeOK

LEMMA StepTypes == TypeOK /\ [Next]_vars => TypeOK'
<1> SUFFICES ASSUME TypeOK, [Next]_vars PROVE TypeOK'
  OBVIOUS
<1> USE TimeIsANumber
<1>1. CASE UNCHANGED vars
  BY <1>1 DEF vars, history, TypeOK
<1>2. ASSUME NEW figs \in Figures, NEW source \in {"auto", "manual"},
             Create(figs, source)
      PROVE TypeOK'
  BY <1>2, BuyPriceIsOne DEF Create, TypeOK, Row, States
<1>3. ASSUME NEW p \in Prices, UpdateCurrentPrice(p) PROVE TypeOK'
  BY <1>3 DEF UpdateCurrentPrice, Open, TypeOK, Row
<1>4. ASSUME NEW source \in {"auto", "manual"}, SetPriceSource(source)
      PROVE TypeOK'
  BY <1>4 DEF SetPriceSource, Open, history, TypeOK, Row
<1>5. CASE TrackAllOpenPositions
  BY <1>5 DEF TrackAllOpenPositions, Open, history, TypeOK, Row
<1>6. ASSUME NEW p \in Prices, NEW asOf \in 0 .. now, ApplyQuote(p, asOf)
      PROVE TypeOK'
  <2>1. asOf \in 0 .. MaxTime
    BY DEF TypeOK
  <2>2. QED BY <1>6, <2>1 DEF ApplyQuote, Open, TypeOK, Row
<1>7. ASSUME NEW t \in Tabs, NEW p \in Prices, ReadToClose(t, p) PROVE TypeOK'
  <2>1. [pc |-> "closing", figs |-> row.figs, sold |-> p, at |-> now] \in Closing
    BY DEF TypeOK, Row, Closing
  <2>2. QED BY <1>7, <2>1 DEF ReadToClose, history, TypeOK
<1>8. ASSUME NEW t \in Tabs, CloseLongPosition(t) PROVE TypeOK'
  <2>1. tab[t] \in Closing /\ RealizedPnlOnClose(tab[t].figs, tab[t].sold) \in Results
    BY <1>8, ClosingTab DEF CloseLongPosition
  <2>2. CASE Open
    BY <1>8, <2>1, <2>2 DEF CloseLongPosition, Closing, TypeOK, Row, States
  <2>3. CASE ~Open
    BY <1>8, <2>3 DEF CloseLongPosition, history, TypeOK
  <2>4. QED BY <2>2, <2>3
<1>9. ASSUME NEW t \in Tabs, DrawForm(t) PROVE TypeOK'
  <2>1. [pc |-> "form", drawn |-> row.price] \in Drawn
    BY DEF TypeOK, Row, Drawn
  <2>2. QED BY <1>9, <2>1 DEF DrawForm, history, TypeOK
<1>10. ASSUME NEW t \in Tabs, NEW figs \in Figures, NEW p \in Prices,
              NEW sell \in Prices \cup {NoPrice}, Compare(t, figs, p, sell)
       PROVE TypeOK'
  <2>1. tab[t] \in Drawn
    BY <1>10 DEF Compare, TypeOK, Blank, Drawn, Closing, Saving
  <2>2. [pc |-> "saving", drawn |-> tab[t].drawn, compared |-> row.price,
         figs |-> figs, price |-> p, sold |-> sell, at |-> now,
         changed |-> row.price # p] \in Saving
    BY <2>1 DEF TypeOK, Row, Drawn, Saving
  <2>3. QED BY <1>10, <2>2 DEF Compare, history, TypeOK
<1>11. ASSUME NEW t \in Tabs, Save(t) PROVE TypeOK'
  <2>1. tab[t].pc = "saving"
    BY <1>11 DEF Save
  <2>2. /\ tab[t] \in Saving /\ Edited(t) \in Row
        /\ Edited(t).is \in {"open", "closed"}
        /\ Edited(t).is = "open" => Edited(t).realized = NoResult
    BY <2>1, SavedRow
  <2>3. CASE Exists
    <3>1. row' = Edited(t) /\ sold' = tab[t].sold /\ torn' = FALSE
      BY <1>11, <2>3 DEF Save
    <3>2. checked' \in 0 .. MaxTime
      BY <1>11, <2>2, <2>3 DEF Save, TypeOK, Saving
    <3>3. overtaken' \in BOOLEAN
      BY <1>11, <2>3, Zenon DEF Save, TypeOK
    <3>4. tab' \in [Tabs -> {Blank} \cup Drawn \cup Saving \cup Closing] /\ now' = now
      BY <1>11 DEF Save, TypeOK
    <3>5. QED BY <2>2, <3>1, <3>2, <3>3, <3>4 DEF TypeOK, Saving
  <2>4. CASE ~Exists
    BY <1>11, <2>4 DEF Save, history, TypeOK
  <2>5. QED BY <2>3, <2>4
<1>12. ASSUME NEW t \in Tabs, Cancel(t) PROVE TypeOK'
  BY <1>12 DEF Cancel, history, TypeOK
<1>13. CASE Delete
  BY <1>13 DEF Delete, Exists, history, TypeOK, Row, States
<1>14. CASE Tick
  BY <1>14 DEF Tick, history, TypeOK, Row, Saving, Closing
<1>15. QED
  BY <1>1, <1>2, <1>3, <1>4, <1>5, <1>6, <1>7, <1>8, <1>9, <1>10, <1>11, <1>12,
     <1>13, <1>14 DEF Next

\* The types of the row, the tabs and the history (the columns and forms of
\* long-positions.ts): an open position never has a result.
THEOREM TypeCorrect == Spec => []TypeOK
<1>1. QED BY InitTypes, StepTypes, PTL DEF Spec

-----------------------------------------------------------------------------
(***************************************************************************)
(* The stamp and the result.                                               *)
(***************************************************************************)
LEMMA StepCompared == TypeOK /\ ComparedInv /\ [Next]_vars => ComparedInv'
<1> SUFFICES ASSUME TypeOK, ComparedInv, [Next]_vars, NEW u \in Tabs,
                    tab'[u].pc = "saving"
             PROVE  tab'[u].changed <=> tab'[u].compared # tab'[u].price
  BY DEF ComparedInv
<1>1. ASSUME tab'[u] = tab[u]
      PROVE  tab'[u].changed <=> tab'[u].compared # tab'[u].price
  BY <1>1, Zenon DEF ComparedInv
<1>2. ASSUME NEW t \in Tabs, t # u, NEW x, tab' = [tab EXCEPT ![t] = x]
      PROVE  tab'[u] = tab[u]
  BY <1>2 DEF TypeOK
<1>3. ASSUME NEW x, tab' = [tab EXCEPT ![u] = x], x.pc # "saving" PROVE FALSE
  BY <1>3 DEF TypeOK
<1>4. CASE UNCHANGED tab
  BY <1>4, <1>1
<1>5. ASSUME NEW t \in Tabs, \/ CloseLongPosition(t) \/ Save(t) \/ Cancel(t)
      PROVE  tab'[u] = tab[u]
  <2>1. tab' = [tab EXCEPT ![t] = Blank]
    BY <1>5 DEF CloseLongPosition, Save, Cancel
  <2>2. Blank.pc # "saving"
    BY DEF Blank
  <2>3. QED BY <1>2, <1>3, <2>1, <2>2
<1>6. ASSUME NEW t \in Tabs, NEW p \in Prices, ReadToClose(t, p)
      PROVE  tab'[u] = tab[u]
  BY <1>6, <1>2, <1>3 DEF ReadToClose
<1>7. ASSUME NEW t \in Tabs, DrawForm(t) PROVE tab'[u] = tab[u]
  BY <1>7, <1>2, <1>3 DEF DrawForm
<1>8. ASSUME NEW t \in Tabs, NEW figs \in Figures, NEW p \in Prices,
             NEW sell \in Prices \cup {NoPrice}, Compare(t, figs, p, sell)
      PROVE  tab'[u].changed <=> tab'[u].compared # tab'[u].price
  <2>1. CASE t # u
    BY <1>8, <2>1, <1>1, <1>2 DEF Compare
  <2>2. CASE t = u
    <3>1. tab'[u] = [pc |-> "saving", drawn |-> tab[t].drawn,
                     compared |-> row.price, figs |-> figs, price |-> p,
                     sold |-> sell, at |-> now, changed |-> row.price # p]
      BY <1>8, <2>2 DEF Compare, TypeOK
    <3>2. tab'[u].changed <=> row.price # p
      <4> DEFINE b == (row.price # p)
      <4>1. b \in BOOLEAN
        BY Zenon
      <4> HIDE DEF b
      <4>2. [pc |-> "saving", drawn |-> tab[t].drawn, compared |-> row.price,
             figs |-> figs, price |-> p, sold |-> sell, at |-> now,
             changed |-> b].changed = b
        BY <4>1
      <4>3. tab'[u].changed = b
        BY <3>1, <4>2, Zenon DEF b
      <4>4. QED BY <4>1, <4>3, Zenon DEF b
    <3>3. tab'[u].compared = row.price /\ tab'[u].price = p
      BY <3>1
    <3>4. QED BY <3>2, <3>3, Zenon
  <2>3. QED BY <2>1, <2>2
<1>9. CASE Next
  <2>1. \/ UNCHANGED tab
        \/ \E t \in Tabs: CloseLongPosition(t) \/ Save(t) \/ Cancel(t)
        \/ \E t \in Tabs, p \in Prices: ReadToClose(t, p)
        \/ \E t \in Tabs: DrawForm(t)
        \/ \E t \in Tabs, figs \in Figures, p \in Prices,
              sell \in Prices \cup {NoPrice}: Compare(t, figs, p, sell)
    BY <1>9 DEF Next, Create, UpdateCurrentPrice, SetPriceSource, Tick, Delete,
                TrackAllOpenPositions, ApplyQuote
  <2>2. QED BY <2>1, <1>1, <1>4, <1>5, <1>6, <1>7, <1>8
<1>10. QED BY <1>4, <1>9 DEF vars

LEMMA StepStamp ==
  TypeOK /\ ComparedInv /\ StampTellsTheAge /\ [Next]_vars => StampTellsTheAge'
<1> SUFFICES ASSUME TypeOK, ComparedInv, StampTellsTheAge, [Next]_vars
             PROVE  StampTellsTheAge'
  OBVIOUS
<1>1. ASSUME row' = row, UNCHANGED history PROVE StampTellsTheAge'
  BY <1>1 DEF StampTellsTheAge, Exists, history
<1>2. ASSUME NEW figs \in Figures, NEW source \in {"auto", "manual"},
             Create(figs, source)
      PROVE StampTellsTheAge'
  BY <1>2 DEF Create, StampTellsTheAge
<1>3. ASSUME NEW p \in Prices, UpdateCurrentPrice(p) PROVE StampTellsTheAge'
  BY <1>3 DEF UpdateCurrentPrice, StampTellsTheAge, TypeOK, Row
<1>4. ASSUME NEW source \in {"auto", "manual"}, SetPriceSource(source)
      PROVE StampTellsTheAge'
  BY <1>4 DEF SetPriceSource, history, StampTellsTheAge, Exists, TypeOK, Row
<1>5. CASE TrackAllOpenPositions
  BY <1>5 DEF TrackAllOpenPositions, history, StampTellsTheAge, Exists, TypeOK, Row
<1>6. ASSUME NEW p \in Prices, NEW asOf \in 0 .. now, ApplyQuote(p, asOf)
      PROVE StampTellsTheAge'
  BY <1>6 DEF ApplyQuote, StampTellsTheAge, TypeOK, Row
<1>7. ASSUME NEW t \in Tabs, CloseLongPosition(t) PROVE StampTellsTheAge'
  <2>1. CASE Open
    BY <1>7, <2>1 DEF CloseLongPosition, StampTellsTheAge, TypeOK, Row
  <2>2. CASE ~Open
    BY <1>7, <2>2, <1>1 DEF CloseLongPosition
  <2>3. QED BY <2>1, <2>2
<1>8. ASSUME NEW t \in Tabs, Save(t) PROVE StampTellsTheAge'
  <2>1. CASE ~Exists
    BY <1>8, <2>1, <1>1 DEF Save
  <2>2. CASE Exists /\ ~Undisturbed(t)
    BY <1>8, <2>2 DEF Save, StampTellsTheAge
  <2>3. CASE Exists /\ Undisturbed(t)
    <3>1. tab[t].changed <=> tab[t].price # tab[t].drawn
      BY <1>8, <2>3, Zenon DEF Save, ComparedInv, Undisturbed
    <3>2. row'.stamp = IF tab[t].changed THEN tab[t].at ELSE row.stamp
      BY <1>8, <2>3 DEF Save, Edited
    <3>3. checked' = IF tab[t].price # tab[t].drawn THEN tab[t].at ELSE checked
      BY <1>8, <2>3 DEF Save
    <3>4. overtaken' = (overtaken /\ tab[t].price = tab[t].drawn)
      BY <1>8, <2>3, Zenon DEF Save
    <3>5. CASE tab[t].price # tab[t].drawn
      BY <3>1, <3>2, <3>3, <3>5 DEF StampTellsTheAge
    <3>6. CASE tab[t].price = tab[t].drawn
      <4>1. row'.stamp = row.stamp /\ checked' = checked
        BY <3>1, <3>2, <3>3, <3>6
      <4>2. ~overtaken' => ~overtaken
        BY <3>4, <3>6, Zenon
      <4>3. QED BY <2>3, <4>1, <4>2 DEF StampTellsTheAge
    <3>7. QED BY <3>5, <3>6
  <2>4. QED BY <2>1, <2>2, <2>3
<1>9. CASE Delete
  BY <1>9 DEF Delete, history, StampTellsTheAge, Exists, TypeOK, Row
<1>10. ASSUME NEW t \in Tabs,
              \/ \E p \in Prices: ReadToClose(t, p)
              \/ DrawForm(t) \/ Cancel(t)
              \/ \E figs \in Figures, p \in Prices, sell \in Prices \cup {NoPrice}:
                   Compare(t, figs, p, sell)
       PROVE StampTellsTheAge'
  BY <1>10, <1>1 DEF ReadToClose, DrawForm, Cancel, Compare
<1>11. CASE Tick \/ UNCHANGED vars
  BY <1>11, <1>1 DEF Tick, vars, history
<1>12. QED
  BY <1>2, <1>3, <1>4, <1>5, <1>6, <1>7, <1>8, <1>9, <1>10, <1>11 DEF Next

LEMMA StepResult == TypeOK /\ ResultFollowsTheFigures /\ [Next]_vars => ResultFollowsTheFigures'
<1> SUFFICES ASSUME TypeOK, ResultFollowsTheFigures, [Next]_vars PROVE ResultFollowsTheFigures'
  OBVIOUS
<1>1. ASSUME row'.is = "closed" => row' = row, UNCHANGED <<sold, torn>>
      PROVE ResultFollowsTheFigures'
  BY <1>1 DEF ResultFollowsTheFigures, RealizedPnlOnClose
<1>2. ASSUME NEW figs \in Figures, NEW source \in {"auto", "manual"},
             Create(figs, source)
      PROVE ResultFollowsTheFigures'
  BY <1>2, <1>1 DEF Create
<1>3. ASSUME NEW p \in Prices, UpdateCurrentPrice(p) PROVE ResultFollowsTheFigures'
  BY <1>3, <1>1 DEF UpdateCurrentPrice, Open, TypeOK, Row
<1>4. ASSUME NEW source \in {"auto", "manual"},
             SetPriceSource(source) \/ TrackAllOpenPositions
      PROVE ResultFollowsTheFigures'
  BY <1>4, <1>1 DEF SetPriceSource, TrackAllOpenPositions, Open, history, TypeOK, Row
<1>5. ASSUME NEW p \in Prices, NEW asOf \in 0 .. now, ApplyQuote(p, asOf)
      PROVE ResultFollowsTheFigures'
  BY <1>5, <1>1 DEF ApplyQuote, Open, TypeOK, Row
<1>6. ASSUME NEW t \in Tabs, CloseLongPosition(t) PROVE ResultFollowsTheFigures'
  <2>1. CASE Open
    <3>1. tab[t] \in Closing
      BY <1>6, ClosingTab DEF CloseLongPosition
    <3>2. /\ row'.figs = row.figs /\ sold' = tab[t].sold
          /\ row'.realized = RealizedPnlOnClose(tab[t].figs, tab[t].sold)
      BY <1>6, <2>1 DEF CloseLongPosition, TypeOK, Row
    <3>3. torn' = (tab[t].figs # row.figs)
      BY <1>6, <2>1, Zenon DEF CloseLongPosition
    <3>4. ~torn' => tab[t].figs = row.figs
      BY <3>3, Zenon
    <3>5. QED BY <3>1, <3>2, <3>4 DEF ResultFollowsTheFigures, Closing, RealizedPnlOnClose
  <2>2. CASE ~Open
    BY <1>6, <2>2, <1>1 DEF CloseLongPosition, history
  <2>3. QED BY <2>1, <2>2
<1>7. ASSUME NEW t \in Tabs, Save(t) PROVE ResultFollowsTheFigures'
  <2>1. CASE Exists
    <3>1. tab[t] \in Saving
      BY <1>7, SavedRow DEF Save
    <3>2. row' = Edited(t) /\ sold' = tab[t].sold
      BY <1>7, <2>1 DEF Save
    <3>3. QED BY <3>1, <3>2 DEF ResultFollowsTheFigures, Edited, Saving, RealizedPnlOnClose
  <2>2. CASE ~Exists
    BY <1>7, <2>2, <1>1 DEF Save, history
  <2>3. QED BY <2>1, <2>2
<1>8. CASE Delete
  BY <1>8, <1>1 DEF Delete, history, TypeOK, Row
<1>9. ASSUME NEW t \in Tabs,
             \/ \E p \in Prices: ReadToClose(t, p)
             \/ DrawForm(t) \/ Cancel(t)
             \/ \E figs \in Figures, p \in Prices, sell \in Prices \cup {NoPrice}:
                  Compare(t, figs, p, sell)
      PROVE ResultFollowsTheFigures'
  BY <1>9, <1>1 DEF ReadToClose, DrawForm, Cancel, Compare, history
<1>10. CASE Tick \/ UNCHANGED vars
  BY <1>10, <1>1 DEF Tick, vars, history
<1>11. QED
  BY <1>2, <1>3, <1>4, <1>5, <1>6, <1>7, <1>8, <1>9, <1>10 DEF Next

\* The stamp beside a price (valueUpdatedAt, long-positions.ts) is the time
\* somebody last vouched for it, as long as nobody moved it under a form.
THEOREM StampIsHonest == Spec => []StampTellsTheAge
<1>1. Init => StampTellsTheAge
  BY DEF Init, StampTellsTheAge
<1>2. Init => ComparedInv
  BY DEF Init, ComparedInv, Blank
<1>3. QED
  BY <1>1, <1>2, InitTypes, StepTypes, StepCompared, StepStamp, PTL DEF Spec

\* The stored result of a closed position is the one realizedPnlOnClose gives
\* for the figures beside it and the price it was last said to be sold at; what
\* realizedPnlOnClose computes from them is left open.
THEOREM ResultsFollow == Spec => []ResultFollowsTheFigures
<1>1. Init => ResultFollowsTheFigures
  BY DEF Init, ResultFollowsTheFigures
<1>2. QED BY <1>1, InitTypes, StepTypes, StepResult, PTL DEF Spec

\* A banked gain stays until the trader corrects or deletes the position: the
\* conditional updates of long-positions.ts see to it, whoever is late.
THEOREM GainsBanked == Spec => GainsStayBanked
<1>1. ASSUME TypeOK, [Next]_vars, row.is = "closed", row' # row
      PROVE  row'.is = "gone" \/ \E t \in Tabs: Save(t)
  BY <1>1 DEF Next, vars, Create, UpdateCurrentPrice, SetPriceSource, Open,
     TrackAllOpenPositions, ApplyQuote, ReadToClose, CloseLongPosition, DrawForm,
     Compare, Cancel, Tick, Delete, TypeOK, Row
<1>2. TypeOK /\ [Next]_vars =>
        [row.is = "closed" /\ row' # row
           => row'.is = "gone" \/ \E t \in Tabs: Save(t)]_vars
  BY <1>1
<1>3. QED BY <1>2, TypeCorrect, PTL DEF Spec, GainsStayBanked
=============================================================================

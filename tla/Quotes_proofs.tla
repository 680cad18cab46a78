--------------------------- MODULE Quotes_proofs ---------------------------
(* Proofs about Quotes, for any number of listings and overlapping ticks. *)
EXTENDS Quotes, WellFoundedInduction, TLAPS

USE SizesAssumption, ListingsAssumption DEF Listings, Ticks

\* The front of a non-empty slice is one of its listings.
LEMMA LeastIsOne ==
  ASSUME NEW S \in SUBSET Listings, S # {}
  PROVE  Least(S) \in S
<1>1. S \in SUBSET Nat
  OBVIOUS
<1> DEFINE R == OpToRel(<, Nat)
<1>2. PICK l \in S : \A k \in S : <<k, l>> \notin R
  BY <1>1, NatLessThanWellFounded, WFMin
<1>3. \A j, k \in Nat : <<k, j>> \in R <=> k < j
  BY DEF OpToRel
<1> HIDE DEF R
<1>4. \A k \in S : ~ (k < l)
  BY <1>1, <1>2, <1>3
<1>5. \A k \in S : l <= k
  BY <1>4
<1> QED BY <1>5 DEF Least

\* What each tick has in hand fits where it is.
TickOK(t) ==
    /\ tick[t].pc = "reserve" => tick[t].wanted # {}
    /\ tick[t].pc \in {"write", "mark"} => Answered(tick[t].got) # {}
    /\ tick[t].pc = "touch" => tick[t].asked # {}
    /\ Answered(tick[t].got) \subseteq tick[t].asked
    /\ tick[t].pc \notin {"reserve"} => tick[t].wanted = {}
    /\ tick[t].pc = "idle" => tick[t].asked = {}

TInv == TypeOK /\ \A t \in Ticks : TickOK(t)

LEMMA IdleOK == Idle \in Tick
BY DEF Idle, Tick, PCs, NoAnswers, Answers

LEMMA EndedOK ==
  ASSUME TInv, NEW t \in Ticks, NEW l \in Listings
  PROVE  /\ Ended(t, l) \in Tick
         /\ Ended(t, l).wanted = {}
         /\ Ended(t, l).asked = tick[t].asked \ {l}
         /\ Answered(Ended(t, l).got) = Answered(tick[t].got) \ {l}
         /\ Ended(t, l).pc = NextPC(Ended(t, l).asked, Ended(t, l).got)
<1>1. tick[t] \in Tick
  BY DEF TInv, TypeOK
<1>2. [tick[t].got EXCEPT ![l] = "none"] \in [Listings -> Answers]
  BY <1>1 DEF Tick, Answers
<1>3. tick[t].asked \ {l} \in SUBSET Listings
  BY <1>1 DEF Tick
<1>4. NextPC(tick[t].asked \ {l}, [tick[t].got EXCEPT ![l] = "none"]) \in PCs
  BY DEF NextPC, PCs
<1>5. Answered([tick[t].got EXCEPT ![l] = "none"]) = Answered(tick[t].got) \ {l}
  BY <1>1 DEF Tick, Answered
<1> QED BY <1>2, <1>3, <1>4, <1>5 DEF Ended, Tick

\* A tick that has just been moved on by NextPC is in order.
LEMMA NextIsOK ==
  ASSUME NEW asked, NEW got, Answered(got) \subseteq asked
  PROVE  /\ NextPC(asked, got) \in {"write", "touch", "idle"}
         /\ NextPC(asked, got) = "write" => Answered(got) # {}
         /\ NextPC(asked, got) = "touch" => asked # {}
         /\ NextPC(asked, got) = "idle" => asked = {}
BY DEF NextPC

LEMMA BucketStays ==
  ASSUME bucket \in Bucket(Budget, Window)
  PROVE  /\ Consumed(bucket, Budget, Window) \in Bucket(Budget, Window)
         /\ Older(bucket) \in Bucket(Budget, Window)
         /\ Pruned(bucket) \in Bucket(Budget, Window)
BY DEF Bucket, Consumed, Older, Pruned, NoBucket, Expired

\* What a credit costs: an allowed request has the next number of its window.
LEMMA NextCredit ==
  ASSUME bucket \in Bucket(Budget, Window),
         Allowed(Consumed(bucket, Budget, Window), Budget)
  PROVE  /\ Consumed(bucket, Budget, Window).count \in 1..Budget
         /\ ~Expired(bucket) => Consumed(bucket, Budget, Window).count = bucket.count + 1
         /\ Expired(bucket) => Consumed(bucket, Budget, Window).count = 1
BY DEF Bucket, Consumed, Allowed, Expired

LEMMA TInit == Init => TInv
<1> SUFFICES ASSUME Init PROVE TInv
  OBVIOUS
<1>1. Idle \in Tick
  BY IdleOK
<1>2. NoBucket \in Bucket(Budget, Window)
  BY DEF NoBucket, Bucket
<1>3. TypeOK
  BY <1>1, <1>2 DEF Init, TypeOK, Quote, NoQuote, Idle
<1>4. Answered(NoAnswers) = {}
  BY DEF Answered, NoAnswers
<1>5. \A t \in Ticks : TickOK(t)
  BY <1>4 DEF Init, TickOK, Idle
<1> QED BY <1>3, <1>5 DEF TInv

LEMMA LookTyped ==
  ASSUME TInv, NEW t \in Ticks, NEW STATE rows, NEW STATE since, since \in [Listings -> 0..Floor], Look(t, rows, since)
  PROVE  /\ tick' \in [Ticks -> Tick]
         /\ ago' \in [Listings -> 0..Floor]
         /\ \A u \in Ticks : TickOK(u)'
<1>1. Wanted(rows) \subseteq Listings
  BY DEF Wanted, Due, tracked, TInv, TypeOK
<1>2. ago' \in [Listings -> 0..Floor]
  BY DEF Look
<1>3. CASE Wanted(rows) = {}
  BY <1>2, <1>3 DEF Look, TInv, TypeOK, TickOK
<1>4. CASE Wanted(rows) # {}
  <2> DEFINE r == [Idle EXCEPT !.pc = "reserve", !.wanted = Wanted(rows)]
  <2>0. Idle \in Tick /\ Idle.asked = {} /\ Idle.got = NoAnswers
    BY IdleOK DEF Idle
  <2>1. /\ r \in Tick /\ r.pc = "reserve" /\ r.wanted = Wanted(rows)
        /\ r.asked = {} /\ r.got = NoAnswers
    BY <1>1, <2>0 DEF Tick, PCs
  <2>2. r \in Tick
    BY <2>1
  <2>3. tick' = [tick EXCEPT ![t] = r]
    BY <1>4 DEF Look
  <2>4. Answered(r.got) = {}
    BY <2>1 DEF Answered, NoAnswers
  <2> HIDE DEF r
  <2>5. \A u \in Ticks : tick'[u] = IF u = t THEN r ELSE tick[u]
    BY <2>3 DEF TInv, TypeOK
  <2>6. r.pc = "reserve" /\ r.wanted # {} /\ r.asked = {}
    BY <2>1, <1>4
  <2>7. ASSUME NEW u \in Ticks PROVE TickOK(u)'
    BY <2>4, <2>5, <2>6 DEF TickOK, TInv
  <2> QED BY <1>2, <2>2, <2>3, <2>7 DEF TInv, TypeOK
<1> QED BY <1>3, <1>4

LEMMA TNext == TInv /\ [Next]_vars => TInv'
<1> SUFFICES ASSUME TInv, [Next]_vars PROVE TInv'
  OBVIOUS
<1> USE DEF TInv
<1>ty. /\ quote \in [Listings -> Quote] /\ tick \in [Ticks -> Tick]
       /\ bucket \in Bucket(Budget, Window) /\ ago \in [Listings -> 0..Floor]
       /\ paid \in [Ticks -> SUBSET (1..Budget)] /\ sent \subseteq 1..Budget
       /\ feed \subseteq Positions /\ behind \subseteq feed
       /\ deaths \in 0..MaxDeaths /\ moves \in 0..MaxMoves
  BY DEF TypeOK
<1>one. ASSUME NEW t \in Ticks, NEW r \in Tick, tick' = [tick EXCEPT ![t] = r],
               r.pc = "reserve" => r.wanted # {},
               r.pc \in {"write", "mark"} => Answered(r.got) # {},
               r.pc = "touch" => r.asked # {},
               Answered(r.got) \subseteq r.asked,
               r.pc # "reserve" => r.wanted = {},
               r.pc = "idle" => r.asked = {}
        PROVE  tick' \in [Ticks -> Tick] /\ \A u \in Ticks : TickOK(u)'
  <2>1. \A u \in Ticks : tick'[u] = IF u = t THEN r ELSE tick[u]
    BY <1>one, <1>ty
  <2>2. tick' \in [Ticks -> Tick]
    BY <1>one, <1>ty
  <2>3. ASSUME NEW u \in Ticks PROVE TickOK(u)'
    <3>1. CASE u = t
      BY <2>1, <3>1, <1>one DEF TickOK
    <3>2. CASE u # t
      BY <2>1, <3>2 DEF TickOK
    <3> QED BY <3>1, <3>2
  <2> QED BY <2>2, <2>3
<1>ended. ASSUME NEW t \in Ticks, NEW l \in Listings, tick' = [tick EXCEPT ![t] = Ended(t, l)]
          PROVE  tick' \in [Ticks -> Tick] /\ \A u \in Ticks : TickOK(u)'
  <2>1. PICK r \in Tick : /\ r = Ended(t, l) /\ r.wanted = {}
                          /\ r.asked = tick[t].asked \ {l}
                          /\ Answered(r.got) = Answered(tick[t].got) \ {l}
                          /\ r.pc = NextPC(r.asked, r.got)
    BY EndedOK
  <2>2. Answered(r.got) \subseteq r.asked
    BY <2>1 DEF TickOK
  <2>3. /\ r.pc \in {"write", "touch", "idle"}
        /\ r.pc = "write" => Answered(r.got) # {}
        /\ r.pc = "touch" => r.asked # {}
        /\ r.pc = "idle" => r.asked = {}
    BY <2>1, <2>2, NextIsOK
  <2>4. tick' = [tick EXCEPT ![t] = r]
    BY <1>ended, <2>1
  <2> QED BY <1>one, <2>1, <2>2, <2>3, <2>4
<1>idle. ASSUME NEW t \in Ticks, tick' = [tick EXCEPT ![t] = Idle]
         PROVE  tick' \in [Ticks -> Tick] /\ \A u \in Ticks : TickOK(u)'
  <2>1. Answered(Idle.got) = {} /\ Idle.pc = "idle" /\ Idle.wanted = {} /\ Idle.asked = {}
    BY DEF Idle, Answered, NoAnswers
  <2> QED BY <2>1, <1>idle, <1>one, IdleOK
<1>1. ASSUME NEW t \in Ticks, Timer(t) PROVE TInv'
  <2> DEFINE later == [l \in Listings |-> [quote[l] EXCEPT !.asked = IF @ < Floor THEN @ + 1 ELSE @]]
             since == [l \in Listings |-> IF ago[l] < Floor THEN ago[l] + 1 ELSE ago[l]]
  <2>0. ASSUME NEW l \in Listings
        PROVE [quote[l] EXCEPT !.asked = IF @ < Floor THEN @ + 1 ELSE @] \in Quote
    <3>1. quote[l] \in Quote /\ quote[l].asked \in 0..Floor
      BY <1>ty DEF Quote
    <3>2. (IF quote[l].asked < Floor THEN quote[l].asked + 1 ELSE quote[l].asked) \in 0..Floor
      BY <3>1
    <3> QED BY <3>1, <3>2 DEF Quote
  <2>a. \A l \in Listings : (IF ago[l] < Floor THEN ago[l] + 1 ELSE ago[l]) \in 0..Floor
    BY <1>ty, SizesAssumption
  <2>b. since \in [Listings -> 0..Floor]
    BY <2>a, Zenon
  <2>c. later \in [Listings -> Quote]
    BY <2>0, Zenon
  <2>1. since \in [Listings -> 0..Floor] /\ later \in [Listings -> Quote]
    BY <2>b, <2>c
  <2>2. Look(t, later, since) /\ quote' = later
    BY <1>1 DEF Timer
  <2> HIDE DEF later, since
  <2>3. tick' \in [Ticks -> Tick] /\ ago' \in [Listings -> 0..Floor] /\ \A u \in Ticks : TickOK(u)'
    BY <2>1, <2>2, LookTyped
  <2>4. bucket' \in Bucket(Budget, Window)
    BY <1>1, <1>ty, BucketStays DEF Timer
  <2>5. paid' \in [Ticks -> SUBSET (1..Budget)] /\ sent' \subseteq 1..Budget
    BY <1>1, <1>ty DEF Timer
  <2> QED BY <1>1, <1>ty, <2>1, <2>2, <2>3, <2>4, <2>5 DEF Timer, TypeOK, TickOK
<1>2. ASSUME NEW t \in Ticks, Start(t) PROVE TInv'
  <2>1. Look(t, quote, ago)
    BY <1>2 DEF Start
  <2>2. tick' \in [Ticks -> Tick] /\ ago' \in [Listings -> 0..Floor] /\ \A u \in Ticks : TickOK(u)'
    BY <1>ty, <2>1, LookTyped
  <2> QED BY <1>2, <1>ty, <2>2 DEF Start, TypeOK, TickOK
<1>3. ASSUME NEW t \in Ticks, Reserve(t) PROVE TInv'
  <2> DEFINE l == Least(tick[t].wanted)
             b == Consumed(bucket, Budget, Window)
             more == tick[t].wanted \ {l}
  <2>0. tick[t] \in Tick /\ tick[t].pc = "reserve" /\ tick[t].wanted # {} /\ Answered(tick[t].got) \subseteq tick[t].asked
    BY <1>3, <1>ty DEF Reserve, TickOK
  <2>1. l \in tick[t].wanted /\ l \in Listings /\ more \subseteq Listings
    BY <2>0, LeastIsOne DEF Tick
  <2>2. bucket' = b /\ b \in Bucket(Budget, Window)
    BY <1>3, <1>ty, BucketStays DEF Reserve
  <2>3. paid' \in [Ticks -> SUBSET (1..Budget)]
    BY <1>3, <1>ty, NextCredit DEF Reserve
  <2>4. tick' \in [Ticks -> Tick] /\ \A u \in Ticks : TickOK(u)'
    <3>1. CASE Allowed(b, Budget)
      <4> DEFINE r == [tick[t] EXCEPT !.pc = IF more = {} THEN "fetch" ELSE "reserve",
                                      !.wanted = more, !.asked = @ \cup {l}]
      <4>1. tick' = [tick EXCEPT ![t] = r]
        <5>1. tick' = [tick EXCEPT ![t] =
                 IF Allowed(b, Budget)
                 THEN [tick[t] EXCEPT !.pc = IF more = {} THEN "fetch" ELSE "reserve",
                                      !.wanted = more, !.asked = tick[t].asked \cup {l}]
                 ELSE IF tick[t].asked = {} THEN Idle
                 ELSE [tick[t] EXCEPT !.pc = "fetch", !.wanted = {}]]
          BY <1>3 DEF Reserve
        <5> HIDE DEF b, more, l
        <5> QED BY <5>1, <3>1
      <4>2. /\ r \in Tick /\ r.pc = (IF more = {} THEN "fetch" ELSE "reserve")
            /\ r.wanted = more /\ r.asked = tick[t].asked \cup {l} /\ r.got = tick[t].got
        BY <2>0, <2>1 DEF Tick, PCs
      <4> HIDE DEF r, more, l
      <4> QED BY <4>1, <4>2, <2>0, <1>one
    <3>2. CASE ~Allowed(b, Budget) /\ tick[t].asked = {}
      <4>1. tick' = [tick EXCEPT ![t] = Idle]
        BY <1>3, <3>2 DEF Reserve
      <4> QED BY <4>1, <1>idle
    <3>3. CASE ~Allowed(b, Budget) /\ tick[t].asked # {}
      <4> DEFINE r == [tick[t] EXCEPT !.pc = "fetch", !.wanted = {}]
      <4>1. tick' = [tick EXCEPT ![t] = r]
        BY <1>3, <3>3 DEF Reserve
      <4>2. r \in Tick /\ r.pc = "fetch" /\ r.wanted = {} /\ r.asked = tick[t].asked /\ r.got = tick[t].got
        BY <2>0 DEF Tick, PCs
      <4> HIDE DEF r
      <4> QED BY <4>1, <4>2, <2>0, <1>one
    <3> QED BY <3>1, <3>2, <3>3
  <2> QED BY <1>3, <1>ty, <2>2, <2>3, <2>4 DEF Reserve, TypeOK, TickOK
<1>4. ASSUME NEW t \in Ticks, NEW answers \in [Listings -> Answers], Fetch(t, answers) PROVE TInv'
  <2> DEFINE got == [l \in Listings |-> IF l \in tick[t].asked THEN answers[l] ELSE "none"]
             r   == [tick[t] EXCEPT !.got = got, !.pc = NextPC(tick[t].asked, got)]
  <2>0. tick[t] \in Tick /\ tick[t].pc = "fetch" /\ tick[t].wanted = {}
    BY <1>4, <1>ty DEF Fetch, TickOK
  <2>1. got \in [Listings -> Answers] /\ Answered(got) \subseteq tick[t].asked
    BY DEF Answers, Answered
  <2>2. tick' = [tick EXCEPT ![t] = r]
    BY <1>4, <1>ty DEF Fetch
  <2> HIDE DEF got
  <2>3. NextPC(tick[t].asked, got) \in PCs
    BY DEF NextPC, PCs
  <2>4. /\ r \in Tick /\ r.pc = NextPC(tick[t].asked, got)
        /\ r.wanted = {} /\ r.asked = tick[t].asked /\ r.got = got
    BY <2>0, <2>1, <2>3 DEF Tick
  <2> HIDE DEF r
  <2>5. tick' \in [Ticks -> Tick] /\ \A u \in Ticks : TickOK(u)'
    <3>1. /\ r.pc \in {"write", "touch", "idle"}
          /\ r.pc = "write" => Answered(r.got) # {}
          /\ r.pc = "touch" => r.asked # {}
          /\ r.pc = "idle" => r.asked = {}
          /\ Answered(r.got) \subseteq r.asked
      BY <2>1, <2>4, NextIsOK
    <3> QED BY <2>2, <2>4, <3>1, <1>one
  <2>6. paid' \in [Ticks -> SUBSET (1..Budget)] /\ sent' \subseteq 1..Budget /\ ago' \in [Listings -> 0..Floor]
    BY <1>4, <1>ty DEF Fetch
  <2> QED BY <1>4, <1>ty, <2>5, <2>6 DEF Fetch, TypeOK, TickOK
<1>5. ASSUME NEW t \in Ticks, WriteQuote(t) PROVE TInv'
  <2> DEFINE l == Least(Answered(tick[t].got))
  <2>0. tick[t] \in Tick /\ tick[t].pc = "write" /\ Answered(tick[t].got) # {}
    BY <1>5, <1>ty DEF WriteQuote, TickOK
  <2>1. l \in Answered(tick[t].got) /\ l \in Listings
    BY <2>0, LeastIsOne DEF Answered
  <2>2. quote' \in [Listings -> Quote]
    BY <1>5, <1>ty, <2>1 DEF WriteQuote, Quote
  <2> DEFINE r == [tick[t] EXCEPT !.pc = "mark"]
  <2>3. tick' = [tick EXCEPT ![t] = r]
    BY <1>5 DEF WriteQuote
  <2>4. r \in Tick /\ r.pc = "mark" /\ r.wanted = tick[t].wanted /\ r.asked = tick[t].asked /\ r.got = tick[t].got
    BY <2>0 DEF Tick, PCs
  <2> HIDE DEF r
  <2>5. tick' \in [Ticks -> Tick] /\ \A u \in Ticks : TickOK(u)'
    <3>1. tick[t].wanted = {} /\ Answered(tick[t].got) \subseteq tick[t].asked
      BY <2>0 DEF TickOK
    <3> QED BY <2>0, <2>3, <2>4, <3>1, <1>one
  <2> QED BY <1>5, <1>ty, <2>2, <2>5 DEF WriteQuote, TypeOK, TickOK
<1>6. ASSUME NEW t \in Ticks, Mark(t) PROVE TInv'
  <2> DEFINE l == Least(Answered(tick[t].got))
  <2>0. tick[t].pc = "mark" /\ Answered(tick[t].got) # {} /\ Answered(tick[t].got) \subseteq Listings
    BY <1>6 DEF Mark, TickOK, Answered
  <2>1. l \in Listings
    BY <2>0, LeastIsOne
  <2>2. tick' \in [Ticks -> Tick] /\ \A u \in Ticks : TickOK(u)'
    BY <1>6, <2>1, <1>ended DEF Mark
  <2> QED BY <1>6, <1>ty, <2>2 DEF Mark, TypeOK, TickOK
<1>7. ASSUME NEW t \in Ticks, Touch(t) PROVE TInv'
  <2> DEFINE l == Least(tick[t].asked)
  <2>0. tick[t].pc = "touch" /\ tick[t].asked # {} /\ tick[t].asked \subseteq Listings
    BY <1>7, <1>ty DEF Touch, TickOK, Tick
  <2>1. l \in Listings
    BY <2>0, LeastIsOne
  <2>2. quote' \in [Listings -> Quote]
    <3>1. \A k \in Listings : [quote[k] EXCEPT !.asked = 0] \in Quote
      <4>1. \A k \in Listings : quote[k] \in Quote /\ 0 \in 0..Floor
        BY <1>ty
      <4> QED BY <4>1 DEF Quote
    <3>2. quote' = [quote EXCEPT ![l] = [quote[l] EXCEPT !.asked = 0]]
      BY <1>7, <1>ty, <2>1 DEF Touch
    <3> QED BY <1>ty, <2>1, <3>1, <3>2
  <2>3. tick' \in [Ticks -> Tick] /\ \A u \in Ticks : TickOK(u)'
    BY <1>7, <2>1, <1>ended DEF Touch
  <2> QED BY <1>7, <1>ty, <2>2, <2>3 DEF Touch, TypeOK, TickOK
<1>8. ASSUME NEW t \in Ticks, Die(t) PROVE TInv'
  <2>1. tick' \in [Ticks -> Tick] /\ \A u \in Ticks : TickOK(u)'
    BY <1>8, <1>idle DEF Die
  <2>2. paid' \in [Ticks -> SUBSET (1..Budget)] /\ ago' \in [Listings -> 0..Floor] /\ deaths' \in 0..MaxDeaths
    BY <1>8, <1>ty DEF Die
  <2> QED BY <1>8, <1>ty, <2>1, <2>2 DEF Die, TypeOK, TickOK
<1>9. CASE Sweep
  BY <1>9, <1>ty, BucketStays DEF Sweep, TypeOK, TickOK
<1>10. ASSUME NEW market \in Markets, Close(market) PROVE TInv'
  <2> DEFINE aged(t) == [l \in Listings |-> IF l \in market THEN Aged(tick[t].got[l]) ELSE tick[t].got[l]]
             r(t) == [tick[t] EXCEPT !.got = aged(t)]
  <2>1. tick' = [t \in Ticks |-> r(t)]
    BY <1>10 DEF Close
  <2>2. ASSUME NEW t \in Ticks
        PROVE  aged(t) \in [Listings -> Answers] /\ Answered(aged(t)) = Answered(tick[t].got)
    BY <1>ty DEF Tick, Answers, Aged, Answered
  <2>3. ASSUME NEW t \in Ticks
        PROVE  /\ r(t) \in Tick /\ r(t).pc = tick[t].pc /\ r(t).wanted = tick[t].wanted
               /\ r(t).asked = tick[t].asked /\ r(t).got = aged(t)
    <3>1. tick[t] \in Tick /\ aged(t) \in [Listings -> Answers]
      BY <1>ty, <2>2
    <3> HIDE DEF aged
    <3> QED BY <3>1 DEF Tick
  <2> HIDE DEF r, aged
  <2>4. tick' \in [Ticks -> Tick] /\ \A u \in Ticks : TickOK(u)'
    <3>1. \A t \in Ticks : r(t) \in Tick /\ tick'[t] = r(t)
      BY <2>1, <2>3
    <3>2. ASSUME NEW u \in Ticks PROVE TickOK(u)'
      <4>1. TickOK(u)
        BY DEF TInv
      <4>2. Answered(tick'[u].got) = Answered(tick[u].got)
        BY <3>1, <2>2, <2>3
      <4>3. tick'[u].pc = tick[u].pc /\ tick'[u].wanted = tick[u].wanted /\ tick'[u].asked = tick[u].asked
        BY <3>1, <2>3
      <4> QED BY <4>1, <4>2, <4>3 DEF TickOK
    <3> QED BY <2>1, <3>1, <3>2
  <2>5. quote' \in [Listings -> Quote]
    <3>1. ASSUME NEW l \in Listings
          PROVE  [quote[l] EXCEPT !.fresh = @ /\ l \notin market] \in Quote
      <4>1. quote[l] \in Quote /\ (quote[l].fresh /\ l \notin market) \in BOOLEAN
        BY <1>ty DEF Quote
      <4> QED BY <4>1 DEF Quote
    <3> QED BY <1>10, <3>1 DEF Close
  <2> QED BY <1>10, <1>ty, <2>4, <2>5 DEF Close, TypeOK, TickOK
<1>11. ASSUME NEW p \in Positions, Move(p) PROVE TInv'
  <2>1. feed' \subseteq Positions /\ behind' \subseteq feed' /\ moves' \in 0..MaxMoves
    BY <1>11, <1>ty DEF Move
  <2> QED BY <1>11, <1>ty, <2>1 DEF Move, TypeOK, TickOK
<1>12. CASE UNCHANGED vars
  BY <1>12 DEF vars, TypeOK, TickOK
<1> QED
  BY <1>1, <1>2, <1>3, <1>4, <1>5, <1>6, <1>7, <1>8, <1>9, <1>10, <1>11, <1>12 DEF Next, Step

(***************************************************************************)
(* The types of the cache, the bucket and the ticks: in particular no      *)
(* reservation of refreshDueQuotes passes the budget.                      *)
(***************************************************************************)
THEOREM TypeCorrect == Spec => []TypeOK
<1>1. TInv => TypeOK
  BY DEF TInv
<1> QED BY TInit, TNext, <1>1, PTL DEF Spec

----------------------------------------------------------------------------
(***************************************************************************)
(* The budget.  The credits of a window are numbered; those in use are at  *)
(* most the bucket's count, so the next one is new, and a bucket may be    *)
(* swept only when its window, and every credit of it, is over.            *)
(***************************************************************************)
CInv == /\ CreditsSpentOnce
        /\ \A c \in sent : c <= bucket.count
        /\ \A t \in Ticks : \A c \in paid[t] : c <= bucket.count
        /\ Expired(bucket) => sent = {} /\ \A t \in Ticks : paid[t] = {}

LEMMA CInit == Init => CInv
BY DEF Init, CInv, CreditsSpentOnce

LEMMA CNext == TInv /\ CInv /\ [Next]_vars => CInv'
<1> SUFFICES ASSUME TInv, CInv, [Next]_vars PROVE CInv'
  OBVIOUS
<1>ty. /\ bucket \in Bucket(Budget, Window)
       /\ paid \in [Ticks -> SUBSET (1..Budget)] /\ sent \subseteq 1..Budget
  BY DEF TInv, TypeOK
<1>same. ASSUME UNCHANGED <<bucket, paid, sent>> PROVE CInv'
  BY <1>same DEF CInv, CreditsSpentOnce, Expired
<1>1. ASSUME NEW t \in Ticks, Timer(t) PROVE CInv'
  <2>1. CASE Expired(bucket')
    <3>1. sent' = {} /\ \A u \in Ticks : paid'[u] = {}
      BY <1>1, <2>1 DEF Timer
    <3> QED BY <3>1 DEF CInv, CreditsSpentOnce
  <2>2. CASE ~Expired(bucket')
    <3>1. UNCHANGED <<paid, sent>> /\ bucket'.count = bucket.count
      BY <1>1, <2>2, <1>ty DEF Timer, Older, Bucket
    <3> QED BY <3>1, <2>2 DEF CInv, CreditsSpentOnce
  <2> QED BY <2>1, <2>2
<1>2. ASSUME NEW t \in Ticks, Start(t) PROVE CInv'
  BY <1>2, <1>same DEF Start
<1>3. ASSUME NEW t \in Ticks, Reserve(t) PROVE CInv'
  <2> DEFINE b == Consumed(bucket, Budget, Window)
  <2>0. bucket' = b /\ sent' = sent
    BY <1>3 DEF Reserve
  <2>1. b.left # 0 /\ (~Expired(bucket) => b.count >= bucket.count)
    BY <1>ty DEF Consumed, Bucket, Expired
  <2>2. CASE Allowed(b, Budget)
    <3>1. b.count \in 1..Budget
      BY <1>ty, <2>2, NextCredit
    <3>2. \A u \in Ticks : paid'[u] = IF u = t THEN paid[u] \cup {b.count} ELSE paid[u]
      BY <1>3, <1>ty, <2>2 DEF Reserve
    <3>3. (\A c \in sent : c < b.count) /\ \A u \in Ticks : \A c \in paid[u] : c < b.count
      <4>1. CASE Expired(bucket)
        BY <4>1 DEF CInv
      <4>2. CASE ~Expired(bucket)
        <5>1. b.count = bucket.count + 1 /\ bucket.count \in Nat
          BY <4>2, <1>ty, <2>2, NextCredit DEF Bucket
        <5> QED BY <5>1, <1>ty DEF CInv
      <4> QED BY <4>1, <4>2
    <3> HIDE DEF b
    <3>4. b.count \notin sent /\ \A u \in Ticks : b.count \notin paid[u]
      BY <3>1, <3>3
    <3>5. CreditsSpentOnce'
      <4>1. \A u \in Ticks : paid'[u] \cap sent' = {}
        BY <2>0, <3>2, <3>4 DEF CInv, CreditsSpentOnce
      <4>2. ASSUME NEW u \in Ticks, NEW v \in Ticks \ {u} PROVE paid'[u] \cap paid'[v] = {}
        <5>1. paid[u] \cap paid[v] = {}
          BY DEF CInv, CreditsSpentOnce
        <5>2. b.count \notin paid[u] /\ b.count \notin paid[v] /\ u # v
          BY <3>4
        <5> QED BY <3>2, <5>1, <5>2
      <4> QED BY <4>1, <4>2 DEF CreditsSpentOnce
    <3>6. \A c \in sent' : c <= bucket'.count
      BY <2>0, <3>1, <3>3, <1>ty
    <3>7. \A u \in Ticks : \A c \in paid'[u] : c <= bucket'.count
      <4>1. \A u \in Ticks : \A c \in paid[u] : c <= b.count
        BY <3>1, <3>3, <1>ty
      <4>2. bucket'.count = b.count /\ b.count <= b.count
        BY <2>0, <3>1
      <4>3. ASSUME NEW u \in Ticks, NEW c \in paid'[u] PROVE c <= b.count
        <5>1. c \in paid[u] \/ c = b.count
          BY <3>2
        <5> QED BY <4>1, <4>2, <5>1
      <4> QED BY <4>2, <4>3
    <3>8. ~Expired(bucket)'
      BY <2>0, <2>1 DEF Expired
    <3> QED BY <3>5, <3>6, <3>7, <3>8 DEF CInv
  <2>3. CASE ~Allowed(b, Budget)
    <3>1. paid' = paid
      BY <1>3, <2>3 DEF Reserve
    <3>2. ~Expired(bucket)
      BY <2>3, <1>ty DEF Consumed, Allowed, Expired, Bucket
    <3>3. b.count >= bucket.count /\ b.count \in Nat /\ bucket.count \in Nat
      BY <2>1, <3>2, <1>ty, BucketStays DEF Bucket
    <3> HIDE DEF b
    <3>4. CreditsSpentOnce' /\ (Expired(bucket)' => sent' = {} /\ \A u \in Ticks : paid'[u] = {})
      BY <2>0, <2>1, <3>1 DEF CInv, CreditsSpentOnce, Expired
    <3>5. (\A c \in sent : c <= bucket.count) /\ \A u \in Ticks : \A c \in paid[u] : c <= bucket.count
      BY DEF CInv
    <3>6. (\A c \in sent : c \in Nat) /\ \A u \in Ticks : \A c \in paid[u] : c \in Nat
      BY <1>ty
    <3>7. (\A c \in sent : c <= b.count) /\ \A u \in Ticks : \A c \in paid[u] : c <= b.count
      BY <3>3, <3>5, <3>6
    <3> QED BY <2>0, <3>1, <3>4, <3>7 DEF CInv
  <2> QED BY <2>2, <2>3
<1>4. ASSUME NEW t \in Ticks, NEW answers, Fetch(t, answers) PROVE CInv'
  <2>1. /\ bucket' = bucket /\ sent' = sent \cup paid[t]
        /\ \A u \in Ticks : paid'[u] = IF u = t THEN {} ELSE paid[u]
    BY <1>4, <1>ty DEF Fetch
  <2> QED BY <2>1 DEF CInv, CreditsSpentOnce, Expired
<1>5. ASSUME NEW t \in Ticks, WriteQuote(t) \/ Mark(t) \/ Touch(t) PROVE CInv'
  BY <1>5, <1>same DEF WriteQuote, Mark, Touch
<1>6. ASSUME NEW t \in Ticks, Die(t) PROVE CInv'
  <2>1. bucket' = bucket /\ sent' = sent /\ \A u \in Ticks : paid'[u] = IF u = t THEN {} ELSE paid[u]
    BY <1>6, <1>ty DEF Die
  <2> QED BY <2>1 DEF CInv, CreditsSpentOnce, Expired
<1>7. CASE Sweep
  <2>1. Expired(bucket) /\ UNCHANGED <<paid, sent>>
    BY <1>7 DEF Sweep, Pruned
  <2> QED BY <2>1 DEF CInv, CreditsSpentOnce
<1>8. ASSUME NEW market \in Markets, Close(market) PROVE CInv'
  BY <1>8, <1>same DEF Close
<1>9. ASSUME NEW p \in Positions, Move(p) PROVE CInv'
  BY <1>9, <1>same DEF Move
<1>10. CASE UNCHANGED vars
  BY <1>10, <1>same DEF vars
<1> QED
  BY <1>1, <1>2, <1>3, <1>4, <1>5, <1>6, <1>7, <1>8, <1>9, <1>10 DEF Next, Step

(***************************************************************************)
(* The daily budget is a hard stop, whatever overlaps, dies or is swept.   *)
(***************************************************************************)
THEOREM BudgetHolds == Spec => []CreditsSpentOnce
<1>1. CInv => CreditsSpentOnce
  BY DEF CInv
<1> QED BY TInit, TNext, CInit, CNext, <1>1, PTL DEF Spec

----------------------------------------------------------------------------
(***************************************************************************)
(* The floor.  Under Floor, a listing is held only by ticks that have sent *)
(* their request, and unless one of them has still to write, the cache     *)
(* knows of a request at least as recent; so nobody finds it due.          *)
(***************************************************************************)
Sent == {"write", "mark", "touch"}

Known(l, rows, since) ==
    since[l] < Floor => /\ \A u \in Ticks : Holds(u, l) => tick[u].pc \in Sent
                        /\ rows[l].asked <= since[l] \/ \E u \in Ticks : Holds(u, l)

Written(t, rows, since) ==
    tick[t].pc = "mark" =>
        rows[Least(Answered(tick[t].got))].asked <= since[Least(Answered(tick[t].got))]

FInv == /\ \A l \in Listings : Known(l, quote, ago)
        /\ \A t \in Ticks : Written(t, quote, ago)

LEMMA FInit == Init => FInv
BY DEF Init, FInv, Known, Written, Idle

LEMMA LookKeepsFloor ==
  ASSUME TInv, NEW t \in Ticks, NEW STATE rows, rows \in [Listings -> Quote], NEW STATE since, since \in [Listings -> 0..Floor],
         Look(t, rows, since), quote' = rows,
         \A l \in Listings : Known(l, rows, since),
         \A u \in Ticks : Written(u, rows, since)
  PROVE  FInv'
<1>ty. tick \in [Ticks -> Tick]
  BY DEF TInv, TypeOK
<1>0. ago' = [l \in Listings |-> IF l \in Wanted(rows) /\ ~Alone(t, l) THEN Floor ELSE since[l]]
  BY DEF Look
<1>00. \A l \in Listings : rows[l].asked \in 0..Floor
  BY DEF Quote
<1>w. Wanted(rows) \subseteq Listings /\ \A l \in Wanted(rows) : rows[l].asked = Floor
  BY <1>ty DEF Wanted, Due, tracked, NeedsRefresh
<1>free. \A l \in Listings : ~Holds(t, l)
  BY DEF Look, TInv, TickOK, Holds
<1>1. ASSUME NEW u \in Ticks, u # t PROVE tick'[u] = tick[u]
  BY <1>1, <1>ty DEF Look
<1>2. \/ Wanted(rows) = {} /\ tick'[t] = tick[t]
      \/ tick'[t].pc = "reserve" /\ tick'[t].wanted = Wanted(rows) /\ tick'[t].asked = {}
  <2> DEFINE W == Wanted(rows)
             r == [Idle EXCEPT !.pc = "reserve", !.wanted = W]
  <2>1. tick' = IF W = {} THEN tick ELSE [tick EXCEPT ![t] = r]
    BY DEF Look
  <2>2. r.pc = "reserve" /\ r.wanted = W /\ r.asked = {}
    BY DEF Idle
  <2> HIDE DEF r, W
  <2>3. \/ W = {} /\ tick'[t] = tick[t]
        \/ tick'[t].pc = "reserve" /\ tick'[t].wanted = W /\ tick'[t].asked = {}
    BY <2>1, <2>2, <1>ty
  <2> QED BY <2>3 DEF W
<1>3. ASSUME NEW l \in Listings PROVE Known(l, quote, ago)'
  <2> SUFFICES ASSUME ago'[l] < Floor
               PROVE  /\ \A u \in Ticks : Holds(u, l)' => tick'[u].pc \in Sent
                      /\ quote'[l].asked <= ago'[l] \/ \E u \in Ticks : Holds(u, l)'
    BY DEF Known
  <2>1. ago'[l] = since[l] /\ (l \in Wanted(rows) => Alone(t, l))
    BY <1>0
  <2>2. l \notin Wanted(rows)
    <3> SUFFICES ASSUME l \in Wanted(rows) PROVE FALSE
      OBVIOUS
    <3>1. \A u \in Ticks : ~Holds(u, l)
      BY <2>1, <1>free DEF Alone
    <3>2. rows[l].asked <= since[l]
      BY <2>1, <3>1 DEF Known
    <3> QED BY <2>1, <3>2, <1>w
  <2>3. \A u \in Ticks : Holds(u, l)' <=> Holds(u, l)
    BY <1>1, <1>2, <1>free, <2>2 DEF Holds
  <2>4. \A u \in Ticks : Holds(u, l) => tick'[u].pc = tick[u].pc
    BY <1>1, <1>free
  <2> QED BY <2>1, <2>3, <2>4 DEF Known
<1>4. ASSUME NEW u \in Ticks PROVE Written(u, quote, ago)'
  <2> SUFFICES ASSUME tick'[u].pc = "mark"
               PROVE  quote'[Least(Answered(tick'[u].got))].asked <= ago'[Least(Answered(tick'[u].got))]
    BY DEF Written
  <2>1. tick'[u] = tick[u]
    BY <1>1, <1>2
  <2> DEFINE L == Least(Answered(tick[u].got))
  <2>2. L \in Listings
    BY <2>1, LeastIsOne DEF TInv, TickOK, Answered
  <2>3. rows[L].asked <= since[L]
    BY <2>1 DEF Written
  <2> HIDE DEF L
  <2>4. rows[L].asked <= ago'[L]
    BY <1>0, <1>00, <2>2, <2>3
  <2> QED BY <2>1, <2>4 DEF L
<1> QED BY <1>3, <1>4 DEF FInv

LEMMA FNext == TInv /\ FInv /\ [Next]_vars => FInv'
<1> SUFFICES ASSUME TInv, FInv, [Next]_vars PROVE FInv'
  OBVIOUS
<1>ty. /\ quote \in [Listings -> Quote] /\ tick \in [Ticks -> Tick]
       /\ ago \in [Listings -> 0..Floor]
  BY DEF TInv, TypeOK
<1>as. \A l \in Listings : quote[l].asked \in 0..Floor /\ ago[l] \in 0..Floor
  BY <1>ty DEF Quote
<1>next. TInv'
  BY TNext
<1>same. ASSUME UNCHANGED <<quote, tick, ago>> PROVE FInv'
  BY <1>same DEF FInv, Known, Written, Holds
<1>L. ASSUME NEW t \in Ticks, tick[t].pc \in {"write", "mark"}
      PROVE  /\ Least(Answered(tick[t].got)) \in Listings
             /\ Least(Answered(tick[t].got)) \in tick[t].asked
  BY <1>L, LeastIsOne DEF TInv, TickOK, Answered
<1>1. ASSUME NEW t \in Ticks, Timer(t) PROVE FInv'
  <2> DEFINE later == [l \in Listings |-> [quote[l] EXCEPT !.asked = IF @ < Floor THEN @ + 1 ELSE @]]
             since == [l \in Listings |-> IF ago[l] < Floor THEN ago[l] + 1 ELSE ago[l]]
  <2>1. Look(t, later, since) /\ quote' = later
    BY <1>1 DEF Timer
  <2>2. \A l \in Listings : later[l].asked = IF quote[l].asked < Floor THEN quote[l].asked + 1 ELSE quote[l].asked
    BY <1>ty DEF Quote
  <2>3. \A l \in Listings : since[l] = IF ago[l] < Floor THEN ago[l] + 1 ELSE ago[l]
    OBVIOUS
  <2>4. since \in [Listings -> 0..Floor] /\ later \in [Listings -> Quote]
    <3>1. since \in [Listings -> 0..Floor]
      BY <1>as
    <3> HIDE DEF later
    <3>2. later \in [Listings -> Quote]
      BY <1>next, <2>1 DEF TInv, TypeOK
    <3> QED BY <3>1, <3>2
  <2> HIDE DEF later, since
  <2>5. \A l \in Listings : quote[l].asked <= ago[l] => later[l].asked <= since[l]
    BY <2>2, <2>3, <1>as
  <2>6. \A l \in Listings : since[l] < Floor => ago[l] < Floor
    BY <2>3, <1>as
  <2>7. \A l \in Listings : Known(l, later, since)
    BY <2>5, <2>6 DEF FInv, Known
  <2>8. \A u \in Ticks : Written(u, later, since)
    BY <2>5, <1>L DEF FInv, Written
  <2> QED BY <2>1, <2>4, <2>7, <2>8, LookKeepsFloor
<1>2. ASSUME NEW t \in Ticks, Start(t) PROVE FInv'
  BY <1>2, <1>ty, LookKeepsFloor DEF Start, FInv
<1>3. ASSUME NEW t \in Ticks, Reserve(t) PROVE FInv'
  <2>0. tick[t].pc = "reserve" /\ UNCHANGED <<quote, ago>> /\ tick[t].wanted # {} /\ tick[t].wanted \subseteq Listings
    BY <1>3, <1>ty DEF Reserve, TInv, TickOK, Tick
  <2>1. Least(tick[t].wanted) \in tick[t].wanted
    BY <2>0, LeastIsOne
  <2>2. \A u \in Ticks : u # t => tick'[u] = tick[u]
    BY <1>3, <1>ty DEF Reserve
  <2>3. /\ tick'[t].pc \in {"reserve", "fetch", "idle"}
        /\ tick'[t].wanted \cup tick'[t].asked \subseteq tick[t].wanted \cup tick[t].asked
    <3> DEFINE l == Least(tick[t].wanted)
               more == tick[t].wanted \ {l}
               ok == Allowed(Consumed(bucket, Budget, Window), Budget)
    <3>1. tick' = [tick EXCEPT ![t] =
             IF ok
             THEN [tick[t] EXCEPT !.pc = IF more = {} THEN "fetch" ELSE "reserve",
                                  !.wanted = more, !.asked = tick[t].asked \cup {l}]
             ELSE IF tick[t].asked = {} THEN Idle
             ELSE [tick[t] EXCEPT !.pc = "fetch", !.wanted = {}]]
      BY <1>3 DEF Reserve
    <3>2. l \in tick[t].wanted
      BY <2>1
    <3>3. tick[t] \in Tick
      BY <1>ty
    <3> HIDE DEF ok, l
    <3> QED BY <3>1, <3>2, <3>3, <1>ty DEF Tick, Idle
  <2>4. \A u \in Ticks, l \in Listings : Holds(u, l)' => Holds(u, l)
    BY <2>2, <2>3 DEF Holds
  <2>5. \A l \in Listings : ago[l] < Floor => ~Holds(t, l)
    BY <2>0 DEF FInv, Known, Sent
  <2>6. \A l \in Listings : ago[l] < Floor => \A u \in Ticks : Holds(u, l)' <=> Holds(u, l)
    BY <2>2, <2>4, <2>5 DEF Holds
  <2>7. ASSUME NEW l \in Listings PROVE Known(l, quote, ago)'
    BY <2>0, <2>2, <2>5, <2>6 DEF FInv, Known
  <2>8. ASSUME NEW u \in Ticks PROVE Written(u, quote, ago)'
    BY <2>0, <2>2, <2>3 DEF FInv, Written
  <2> QED BY <2>7, <2>8 DEF FInv
<1>4. ASSUME NEW t \in Ticks, NEW answers, Fetch(t, answers) PROVE FInv'
  <2> DEFINE got == [l \in Listings |-> IF l \in tick[t].asked THEN answers[l] ELSE "none"]
  <2>0. /\ tick[t].pc = "fetch" /\ quote' = quote /\ tick[t].wanted = {} /\ tick[t] \in Tick
        /\ tick' = [tick EXCEPT ![t].got = got, ![t].pc = NextPC(tick[t].asked, got)]
    BY <1>4, <1>ty DEF Fetch, TInv, TickOK
  <2> HIDE DEF got
  <2>1. \A u \in Ticks : u # t => tick'[u] = tick[u]
    BY <2>0, <1>ty
  <2>2. /\ tick'[t].pc = NextPC(tick[t].asked, got)
        /\ tick'[t].wanted = {} /\ tick'[t].asked = tick[t].asked
    BY <2>0, <1>ty DEF Tick
  <2>3. \A u \in Ticks, l \in Listings : Holds(u, l)' <=> Holds(u, l)
    BY <2>0, <2>1, <2>2 DEF Holds
  <2>4. \A l \in Listings : ago'[l] = IF l \notin tick[t].asked THEN ago[l]
                                       ELSE IF Alone(t, l) THEN 0 ELSE Floor
    BY <1>4 DEF Fetch
  <2>5. \A l \in Listings : Holds(t, l) => tick'[t].pc \in Sent
    BY <2>0, <2>2 DEF Holds, NextPC, Sent
  <2>6. ASSUME NEW l \in Listings PROVE Known(l, quote, ago)'
    <3>1. CASE l \notin tick[t].asked
      <4>1. ago'[l] = ago[l] /\ ~Holds(t, l)
        BY <3>1, <2>4, <2>0 DEF Holds
      <4> QED BY <4>1, <2>0, <2>1, <2>3 DEF FInv, Known
    <3>2. CASE l \in tick[t].asked /\ Alone(t, l)
      <4>1. \A u \in Ticks : Holds(u, l)' => u = t
        BY <3>2, <2>3 DEF Alone
      <4>2. Holds(t, l) /\ Holds(t, l)'
        BY <3>2, <2>3 DEF Holds
      <4> QED BY <4>1, <4>2, <2>5 DEF Known
    <3>3. CASE l \in tick[t].asked /\ ~Alone(t, l)
      <4>1. ago'[l] = Floor
        BY <3>3, <2>4
      <4> QED BY <4>1 DEF Known
    <3> QED BY <3>1, <3>2, <3>3
  <2>7. ASSUME NEW u \in Ticks PROVE Written(u, quote, ago)'
    <3> SUFFICES ASSUME tick'[u].pc = "mark"
                 PROVE  quote'[Least(Answered(tick'[u].got))].asked <= ago'[Least(Answered(tick'[u].got))]
      BY DEF Written
    <3>1. u # t
      BY <2>2 DEF NextPC
    <3>2. tick'[u] = tick[u]
      BY <3>1, <2>1
    <3> DEFINE L == Least(Answered(tick[u].got))
    <3>3. L \in Listings /\ L \in tick[u].asked /\ quote[L].asked <= ago[L]
      BY <3>2, <1>L DEF FInv, Written
    <3> HIDE DEF L
    <3>4. L \in tick[t].asked => ~Alone(t, L)
      BY <3>1, <3>3 DEF Alone, Holds
    <3>5. quote[L].asked <= ago'[L]
      BY <2>4, <3>3, <3>4, <1>as
    <3> QED BY <2>0, <3>2, <3>5 DEF L
  <2> QED BY <2>6, <2>7 DEF FInv
<1>5. ASSUME NEW t \in Ticks, WriteQuote(t) PROVE FInv'
  <2> DEFINE L == Least(Answered(tick[t].got))
  <2>0. tick[t].pc = "write" /\ ago' = ago /\ tick' = [tick EXCEPT ![t].pc = "mark"]
    BY <1>5 DEF WriteQuote
  <2>1. L \in Listings /\ L \in tick[t].asked
    BY <2>0, <1>L
  <2>2. quote' = [quote EXCEPT ![L] = [asked |-> 0, fresh |-> tick[t].got[L] = "fresh"]]
    BY <1>5 DEF WriteQuote
  <2> HIDE DEF L
  <2>3. \A l \in Listings : quote'[l].asked = IF l = L THEN 0 ELSE quote[l].asked
    BY <2>1, <2>2, <1>ty
  <2>4. /\ \A u \in Ticks : u # t => tick'[u] = tick[u]
        /\ tick'[t].pc = "mark" /\ tick'[t].wanted = tick[t].wanted
        /\ tick'[t].asked = tick[t].asked /\ tick'[t].got = tick[t].got
    BY <2>0, <1>ty DEF Tick
  <2>5. \A u \in Ticks, l \in Listings : Holds(u, l)' <=> Holds(u, l)
    BY <2>4 DEF Holds
  <2>6. ASSUME NEW l \in Listings PROVE Known(l, quote, ago)'
    BY <2>0, <2>3, <2>4, <2>5, <1>as DEF FInv, Known, Sent
  <2>7. ASSUME NEW u \in Ticks PROVE Written(u, quote, ago)'
    <3>1. CASE u = t
      BY <3>1, <2>0, <2>1, <2>3, <2>4, <1>as DEF Written, L
    <3>2. CASE u # t
      <4> SUFFICES ASSUME tick'[u].pc = "mark"
                   PROVE  quote'[Least(Answered(tick[u].got))].asked <= ago[Least(Answered(tick[u].got))]
        BY <3>2, <2>0, <2>4 DEF Written
      <4> DEFINE M == Least(Answered(tick[u].got))
      <4>1. M \in Listings /\ quote[M].asked <= ago[M]
        BY <3>2, <2>4, <1>L DEF FInv, Written
      <4> HIDE DEF M
      <4>2. quote'[M].asked <= ago[M]
        BY <4>1, <2>3, <1>as
      <4> QED BY <4>2 DEF M
    <3> QED BY <3>1, <3>2
  <2> QED BY <2>6, <2>7 DEF FInv
<1>6. ASSUME NEW t \in Ticks, Mark(t) \/ Touch(t) PROVE FInv'
  <2> DEFINE L == IF tick[t].pc = "mark" THEN Least(Answered(tick[t].got)) ELSE Least(tick[t].asked)
  <2>0. /\ tick[t].pc \in {"mark", "touch"} /\ ago' = ago
        /\ tick' = [tick EXCEPT ![t] = Ended(t, L)]
    BY <1>6 DEF Mark, Touch
  <2>1. L \in Listings /\ L \in tick[t].asked
    <3>1. CASE tick[t].pc = "mark"
      BY <3>1, <1>L
    <3>2. CASE tick[t].pc = "touch"
      <4>1. tick[t].asked # {} /\ tick[t].asked \subseteq Listings
        BY <3>2, <1>ty DEF TInv, TickOK, Tick
      <4> QED BY <3>2, <4>1, LeastIsOne
    <3> QED BY <2>0, <3>1, <3>2
  <2>2. \A l \in Listings : quote'[l].asked = IF l = L /\ tick[t].pc = "touch" THEN 0 ELSE quote[l].asked
    <3>1. CASE Mark(t)
      BY <3>1 DEF Mark
    <3>2. CASE Touch(t)
      <4>1. L = Least(tick[t].asked) /\ tick[t].pc = "touch"
        BY <3>2 DEF Touch
      <4>2. quote' = [quote EXCEPT ![L].asked = 0]
        BY <3>2, <4>1 DEF Touch
      <4> HIDE DEF L
      <4> QED BY <4>1, <4>2, <2>1, <1>ty DEF Quote
    <3> QED BY <1>6, <3>1, <3>2
  <2>m. quote'[L].asked <= ago[L]
    <3>1. CASE tick[t].pc = "mark"
      BY <3>1, <2>1, <2>2 DEF FInv, Written
    <3>2. CASE tick[t].pc = "touch"
      <4> HIDE DEF L
      <4> QED BY <3>2, <2>1, <2>2, <1>as
    <3> QED BY <2>0, <3>1, <3>2
  <2> HIDE DEF L
  <2>3. /\ \A u \in Ticks : u # t => tick'[u] = tick[u]
        /\ tick'[t].wanted = {} /\ tick'[t].asked = tick[t].asked \ {L}
        /\ tick'[t].pc \in {"write", "touch", "idle"}
        /\ tick'[t].asked # {} => tick'[t].pc \in Sent
    BY <2>0, <2>1, <1>ty, EndedOK DEF NextPC, Sent
  <2>4. tick[t].wanted = {} /\ tick[t].pc \in Sent
    BY <2>0 DEF TInv, TickOK, Sent
  <2>5. \A u \in Ticks, l \in Listings : Holds(u, l)' <=> Holds(u, l) /\ ~(u = t /\ l = L)
    BY <2>3, <2>4 DEF Holds
  <2>6. ASSUME NEW l \in Listings PROVE Known(l, quote, ago)'
    <3> SUFFICES ASSUME ago[l] < Floor
                 PROVE  /\ \A u \in Ticks : Holds(u, l)' => tick'[u].pc \in Sent
                        /\ quote'[l].asked <= ago[l] \/ \E u \in Ticks : Holds(u, l)'
      BY <2>0 DEF Known
    <3>1. \A u \in Ticks : Holds(u, l)' => tick'[u].pc \in Sent
      BY <2>3, <2>5 DEF FInv, Known, Holds
    <3>2. CASE l = L
      BY <3>1, <3>2, <2>m
    <3>3. CASE l # L
      BY <3>1, <3>3, <2>2, <2>5 DEF FInv, Known
    <3> QED BY <3>2, <3>3
  <2>7. ASSUME NEW u \in Ticks PROVE Written(u, quote, ago)'
    <3> SUFFICES ASSUME tick'[u].pc = "mark"
                 PROVE  quote'[Least(Answered(tick'[u].got))].asked <= ago[Least(Answered(tick'[u].got))]
      BY <2>0 DEF Written
    <3>1. u # t /\ tick'[u] = tick[u]
      BY <2>3
    <3> DEFINE M == Least(Answered(tick[u].got))
    <3>2. M \in Listings /\ quote[M].asked <= ago[M]
      BY <3>1, <1>L DEF FInv, Written
    <3> HIDE DEF M
    <3>3. quote'[M].asked <= ago[M]
      BY <2>2, <3>2, <1>as
    <3> QED BY <3>1, <3>3 DEF M
  <2> QED BY <2>6, <2>7 DEF FInv
<1>7. ASSUME NEW t \in Ticks, Die(t) PROVE FInv'
  <2>0. /\ quote' = quote /\ \A l \in Listings : ago'[l] = IF l \in tick[t].asked THEN Floor ELSE ago[l]
        /\ \A u \in Ticks : u # t => tick'[u] = tick[u]
        /\ tick'[t] = Idle
    BY <1>7, <1>ty DEF Die
  <2>1. \A l \in Listings : ~Holds(t, l)' /\ \A u \in Ticks : u # t => (Holds(u, l)' <=> Holds(u, l))
    BY <2>0 DEF Holds, Idle
  <2>2. ASSUME NEW l \in Listings PROVE Known(l, quote, ago)'
    <3> SUFFICES ASSUME ago'[l] < Floor
                 PROVE  /\ \A u \in Ticks : Holds(u, l)' => tick'[u].pc \in Sent
                        /\ quote[l].asked <= ago'[l] \/ \E u \in Ticks : Holds(u, l)'
      BY <2>0 DEF Known
    <3>1. l \notin tick[t].asked /\ ago'[l] = ago[l]
      BY <2>0
    <3>2. ~Holds(t, l)
      <4>1. Holds(t, l) => tick[t].pc = "reserve"
        BY <3>1 DEF Holds, TInv, TickOK
      <4> QED BY <3>1, <4>1 DEF FInv, Known, Sent
    <3> QED BY <3>1, <3>2, <2>0, <2>1 DEF FInv, Known
  <2>3. ASSUME NEW u \in Ticks PROVE Written(u, quote, ago)'
    <3> SUFFICES ASSUME tick'[u].pc = "mark"
                 PROVE  quote[Least(Answered(tick'[u].got))].asked <= ago'[Least(Answered(tick'[u].got))]
      BY <2>0 DEF Written
    <3>1. u # t /\ tick'[u] = tick[u]
      BY <2>0 DEF Idle
    <3> DEFINE M == Least(Answered(tick[u].got))
    <3>2. M \in Listings /\ quote[M].asked <= ago[M]
      BY <3>1, <1>L DEF FInv, Written
    <3> HIDE DEF M
    <3>3. quote[M].asked <= ago'[M]
      BY <2>0, <3>2, <1>as
    <3> QED BY <3>1, <3>3 DEF M
  <2> QED BY <2>2, <2>3 DEF FInv
<1>8. CASE Sweep
  BY <1>8, <1>same DEF Sweep
<1>9. ASSUME NEW market \in Markets, Close(market) PROVE FInv'
  <2>0. ago' = ago /\ \A l \in Listings : quote'[l].asked = quote[l].asked
    BY <1>9, <1>ty DEF Close, Quote
  <2>1. ASSUME NEW u \in Ticks
        PROVE  /\ tick'[u].pc = tick[u].pc /\ tick'[u].wanted = tick[u].wanted
               /\ tick'[u].asked = tick[u].asked
               /\ Answered(tick'[u].got) = Answered(tick[u].got)
    <3> DEFINE g == [l \in Listings |-> IF l \in market THEN Aged(tick[u].got[l]) ELSE tick[u].got[l]]
    <3>1. tick'[u] = [tick[u] EXCEPT !.got = g]
      BY <1>9 DEF Close
    <3>2. Answered(g) = Answered(tick[u].got)
      BY <1>ty DEF Answered, Aged
    <3> HIDE DEF g
    <3> QED BY <3>1, <3>2, <1>ty DEF Tick
  <2>2. \A u \in Ticks, l \in Listings : Holds(u, l)' <=> Holds(u, l)
    BY <2>1 DEF Holds
  <2>3. ASSUME NEW l \in Listings PROVE Known(l, quote, ago)'
    BY <2>0, <2>1, <2>2 DEF FInv, Known
  <2>4. ASSUME NEW u \in Ticks PROVE Written(u, quote, ago)'
    BY <2>0, <2>1, <1>L DEF FInv, Written
  <2> QED BY <2>3, <2>4 DEF FInv
<1>10. ASSUME NEW p \in Positions, Move(p) PROVE FInv'
  BY <1>10, <1>same DEF Move
<1>11. CASE UNCHANGED vars
  BY <1>11, <1>same DEF vars
<1> QED
  BY <1>1, <1>2, <1>3, <1>4, <1>5, <1>6, <1>7, <1>8, <1>9, <1>10, <1>11 DEF Next, Step

(***************************************************************************)
(* No listing is asked about twice within MIN_REFETCH_MS, however long the *)
(* holiday, unless two ticks collide on it or one dies with its answer.    *)
(***************************************************************************)
THEOREM FloorKept == Spec => []FloorHolds
<1>1. TInv /\ FInv => FloorHolds
  <2> SUFFICES ASSUME TInv, FInv, NEW t \in Ticks, tick[t].pc = "fetch", NEW l \in tick[t].asked
               PROVE  ago[l] = Floor
    BY DEF FloorHolds
  <2>1. l \in Listings /\ ago[l] \in 0..Floor
    BY DEF TInv, TypeOK, Tick
  <2>2. Holds(t, l)
    BY DEF Holds
  <2>3. ~(ago[l] < Floor)
    BY <2>1, <2>2 DEF FInv, Known, Sent
  <2> QED BY <2>1, <2>3
<1> QED BY TInit, TNext, FInit, FNext, <1>1, PTL DEF Spec
=============================================================================

----------------------------- MODULE MarketLemmas -----------------------------
(***************************************************************************)
(* What the calls to the market do to the pool's standing, for every       *)
(* standing that can come about: the open orders account holds what is     *)
(* free, what the orders lock and what trades have taken from them that    *)
(* nobody has consumed yet.  Each call keeps that, and the lemma about it  *)
(* says what it changes of the funds that the program counts.              *)
(***************************************************************************)
EXTENDS Market, AmmMathLemmas

(* The parts of the sums over orders and events. *)
LockOf == [o \in Order |-> o.lock]

FreesOf == [e \in Event |-> IF e.frees THEN 1 ELSE 0]

FlowOf(s) == [e \in Event |-> Flow(e, s)]

PaidOf(s) == [e \in Event |-> IF e.maker /\ e.side = s THEN e.paid ELSE 0]

GotOf(s) == [e \in Event |-> IF e.maker /\ e.side # s THEN e.got ELSE 0]

(* Taken from the pool's orders, and received for them, by trades that     *)
(* nobody has consumed.                                                    *)
Taken(queue, s) == Weight(PaidOf(s), queue)

Unseen(queue, s) == Weight(GotOf(s), queue)

Balanced(m) ==
  \A s \in Side : m.total[s] = m.free[s] + Locked(m.orders[s]) + Taken(m.queue, s)

Sound == {m \in Standing : Balanced(m)}

-----------------------------------------------------------------------------
LEMMA WeightTypes ==
  /\ LockOf \in [Order -> Nat] /\ FreesOf \in [Event -> Nat]
  /\ LockOf \in [Order -> Int] /\ FreesOf \in [Event -> Int]
  /\ \A s \in Side : /\ FlowOf(s) \in [Event -> Int]
                     /\ PaidOf(s) \in [Event -> Nat] /\ GotOf(s) \in [Event -> Nat]
                     /\ PaidOf(s) \in [Event -> Int] /\ GotOf(s) \in [Event -> Int]
<1>1. LockOf \in [Order -> Nat]
  BY DEF LockOf, Order
<1>2. FreesOf \in [Event -> Nat]
  BY DEF FreesOf, Event
<1>3. ASSUME NEW s \in Side
      PROVE  FlowOf(s) \in [Event -> Int] /\ PaidOf(s) \in [Event -> Nat] /\ GotOf(s) \in [Event -> Nat]
  BY DEF FlowOf, PaidOf, GotOf, Event, Flow
<1>4. \A S : [S -> Nat] \subseteq [S -> Int]
  OBVIOUS
<1> QED
  BY <1>1, <1>2, <1>3, <1>4

(* The sums of Market as sums of these weights. *)
LEMMA LockedIsWeight ==
  ASSUME NEW orders \in Seq(Order)
  PROVE  Locked(orders) = Weight(LockOf, orders)
<1>1. \A i \in DOMAIN orders : orders[i] \in Order
  BY ElementOfSeq, LenProperties
<1>2. [i \in DOMAIN orders |-> orders[i].lock] = [i \in DOMAIN orders |-> LockOf[orders[i]]]
  BY <1>1 DEF LockOf
<1> QED
  BY <1>2 DEF Locked, SumBy, Weight

LEMMA LockedType ==
  ASSUME NEW orders \in Seq(Order)
  PROVE  Locked(orders) \in Nat
<1>1. LockOf \in [Order -> Nat]
  BY WeightTypes
<1>2. Weight(LockOf, orders) \in Nat
  BY <1>1, WeightNat
<1> QED
  BY <1>2, LockedIsWeight

LEMMA EventSumTypes ==
  ASSUME NEW queue \in Seq(Event), NEW s \in Side
  PROVE  Taken(queue, s) \in Nat /\ Unseen(queue, s) \in Nat
<1>1. PaidOf(s) \in [Event -> Nat] /\ GotOf(s) \in [Event -> Nat]
  BY WeightTypes
<1>2. Weight(PaidOf(s), queue) \in Nat /\ Weight(GotOf(s), queue) \in Nat
  BY <1>1, WeightNat
<1> QED
  BY <1>2 DEF Taken, Unseen

LEMMA FreesIsWeight ==
  ASSUME NEW queue \in Seq(Event)
  PROVE  SumBy(LAMBDA e : IF e.frees THEN 1 ELSE 0, queue) = Weight(FreesOf, queue)
<1>1. \A i \in DOMAIN queue : queue[i] \in Event
  BY ElementOfSeq, LenProperties
<1>2. [i \in DOMAIN queue |-> IF queue[i].frees THEN 1 ELSE 0] = [i \in DOMAIN queue |-> FreesOf[queue[i]]]
  BY <1>1 DEF FreesOf
<1> QED
  BY <1>2 DEF SumBy, Weight

LEMMA FlowIsWeight ==
  ASSUME NEW queue \in Seq(Event), NEW s \in Side
  PROVE  SumBy(LAMBDA e : Flow(e, s), queue) = Weight(FlowOf(s), queue)
<1>1. \A i \in DOMAIN queue : queue[i] \in Event
  BY ElementOfSeq, LenProperties
<1>2. [i \in DOMAIN queue |-> Flow(queue[i], s)] = [i \in DOMAIN queue |-> FlowOf(s)[queue[i]]]
  BY <1>1 DEF FlowOf
<1> QED
  BY <1>2 DEF SumBy, Weight

(* What the trades in the queue change is what they received less what     *)
(* they took.                                                              *)
LEMMA FlowIsGotLessPaid ==
  ASSUME NEW queue \in Seq(Event), NEW s \in Side
  PROVE  Weight(FlowOf(s), queue) = Weight(GotOf(s), queue) - Weight(PaidOf(s), queue)
<1>1. \A e \in Event : FlowOf(s)[e] = GotOf(s)[e] - PaidOf(s)[e]
  BY DEF FlowOf, GotOf, PaidOf, Flow, Event
<1>2. FlowOf(s) \in [Event -> Int] /\ GotOf(s) \in [Event -> Int] /\ PaidOf(s) \in [Event -> Int]
  BY WeightTypes
<1> DEFINE w == FlowOf(s)
           u == GotOf(s)
           v == PaidOf(s)
<1>3. IsDifference(w, u, v, Event)
  BY <1>1, <1>2 DEF IsDifference
<1> HIDE DEF u, v, w
<1>4. Weight(w, queue) = Weight(u, queue) - Weight(v, queue)
  BY <1>3, WeightMinus
<1> QED
  BY <1>4 DEF u, v, w

(* A sound standing, part by part.                                         *)
LEMMA Parts ==
  ASSUME NEW m \in Sound, NEW s \in Side
  PROVE  /\ m \in Standing
         /\ m.free[s] \in Nat /\ m.total[s] \in Nat
         /\ m.orders[s] \in Seq(Order) /\ m.queue \in Seq(Event)
         /\ Locked(m.orders[s]) \in Nat /\ Taken(m.queue, s) \in Nat /\ Unseen(m.queue, s) \in Nat
         /\ m.total[s] = m.free[s] + Locked(m.orders[s]) + Taken(m.queue, s)
<1>1. m \in Standing /\ Balanced(m)
  BY DEF Sound
<1>2. m.free[s] \in Nat /\ m.total[s] \in Nat /\ m.orders[s] \in Seq(Order) /\ m.queue \in Seq(Event)
  BY <1>1 DEF Standing, Amount
<1>3. Locked(m.orders[s]) \in Nat
  BY <1>2, LockedType
<1>4. Taken(m.queue, s) \in Nat /\ Unseen(m.queue, s) \in Nat
  BY <1>2, EventSumTypes
<1> QED
  BY <1>1, <1>2, <1>3, <1>4 DEF Balanced

(* calc_exact_vault_in_serum finds what the pool owns on the market.       *)
LEMMA ExactIsOwned ==
  ASSUME NEW m \in Sound, NEW s \in Side
  PROVE  /\ CalcExact(m)[s] = m.free[s] + Locked(m.orders[s]) + Unseen(m.queue, s)
         /\ CalcExact(m)[s] \in Nat
<1>1. CalcExact(m)[s] = m.total[s] + SumBy(LAMBDA e : Flow(e, s), m.queue)
  BY DEF CalcExact
<1>2. SumBy(LAMBDA e : Flow(e, s), m.queue) = Unseen(m.queue, s) - Taken(m.queue, s)
  BY Parts, FlowIsWeight, FlowIsGotLessPaid DEF Unseen, Taken
<1>3. CalcExact(m)[s] = m.total[s] + (Unseen(m.queue, s) - Taken(m.queue, s))
  BY <1>1, <1>2
<1> QED
  BY <1>3, Parts

LEMMA SlotsAre ==
  ASSUME NEW m \in Sound, NEW s \in Side
  PROVE  /\ SlotsUsed(m) = Len(m.orders[s]) + Len(m.orders[Other(s)]) + Weight(FreesOf, m.queue)
         /\ Len(m.orders[s]) \in Nat /\ Len(m.orders[Other(s)]) \in Nat /\ Weight(FreesOf, m.queue) \in Nat
         /\ SlotsUsed(m) \in Nat
<1> DEFINE a == Len(m.orders["coin"])
           b == Len(m.orders["pc"])
           c == Weight(FreesOf, m.queue)
<1>1. "coin" \in Side /\ "pc" \in Side
  BY DEF Side
<1>2. m.orders["coin"] \in Seq(Order) /\ m.orders["pc"] \in Seq(Order) /\ m.queue \in Seq(Event)
  BY <1>1, Parts
<1>3. SlotsUsed(m) = a + b + c
  BY <1>2, FreesIsWeight DEF SlotsUsed
<1>4. c \in Nat
  BY <1>2, WeightNat, WeightTypes
<1>5. a \in Nat /\ b \in Nat
  BY <1>2, LenProperties
<1>6. \/ s = "coin" /\ Other(s) = "pc" /\ Len(m.orders[s]) = a /\ Len(m.orders[Other(s)]) = b
      \/ s = "pc" /\ Other(s) = "coin" /\ Len(m.orders[s]) = b /\ Len(m.orders[Other(s)]) = a
  BY DEF Side, Other
<1> HIDE DEF a, b, c
<1>7. a + b + c \in Nat /\ a + b + c = b + a + c
  BY <1>4, <1>5
<1>8. SlotsUsed(m) = Len(m.orders[s]) + Len(m.orders[Other(s)]) + c
  BY <1>3, <1>6, <1>7
<1> QED
  BY <1>3, <1>4, <1>5, <1>6, <1>7, <1>8 DEF c

LEMMA NoStandingIsSound ==
  /\ NoStanding \in Sound /\ CalcExact(NoStanding) = Zero /\ SlotsUsed(NoStanding) = 0
<1>1. NoStanding \in Standing
  BY DEF NoStanding, Standing, NoOrders, Zero, Amount
<1>2. /\ NoStanding.queue = <<>>
      /\ \A s \in Side : NoStanding.free[s] = 0 /\ NoStanding.total[s] = 0 /\ NoStanding.orders[s] = <<>>
  BY DEF NoStanding, Zero, NoOrders
<1>3. ASSUME NEW s \in Side
      PROVE  Locked(NoStanding.orders[s]) = 0 /\ Taken(NoStanding.queue, s) = 0 /\ Unseen(NoStanding.queue, s) = 0
  <2>1. <<>> \in Seq(Order) /\ Locked(<<>>) = Weight(LockOf, <<>>)
    <3>1. <<>> \in Seq(Order)
      BY EmptySeq
    <3> QED
      BY <3>1, LockedIsWeight
  <2>2. Weight(LockOf, <<>>) = 0 /\ Weight(PaidOf(s), <<>>) = 0 /\ Weight(GotOf(s), <<>>) = 0
    BY WeightEmpty
  <2> QED
    BY <1>2, <2>1, <2>2 DEF Taken, Unseen
<1>4. NoStanding \in Sound
  BY <1>1, <1>2, <1>3 DEF Sound, Balanced
<1>5. \A s \in Side : CalcExact(NoStanding)[s] = 0
  <2> SUFFICES ASSUME NEW s \in Side PROVE CalcExact(NoStanding)[s] = 0
    OBVIOUS
  <2>1. CalcExact(NoStanding)[s] = NoStanding.free[s] + Locked(NoStanding.orders[s]) + Unseen(NoStanding.queue, s)
    BY <1>4, ExactIsOwned
  <2> QED
    BY <1>2, <1>3, <2>1
<1>6. CalcExact(NoStanding) = Zero
  BY <1>5 DEF CalcExact, Zero
<1>7. SlotsUsed(NoStanding) = 0
  <2>1. Weight(FreesOf, NoStanding.queue) = 0
    BY <1>2, WeightEmpty
  <2>2. Len(NoStanding.orders["coin"]) = 0 /\ Len(NoStanding.orders["pc"]) = 0
    BY <1>2 DEF Side
  <2>3. SlotsUsed(NoStanding)
          = Len(NoStanding.orders["coin"]) + Len(NoStanding.orders["pc"]) + Weight(FreesOf, NoStanding.queue)
    <3>1. "coin" \in Side /\ Other("coin") = "pc"
      BY DEF Side, Other
    <3> QED
      BY <1>4, <3>1, SlotsAre
  <2> QED
    BY <2>1, <2>2, <2>3
<1> QED
  BY <1>4, <1>6, <1>7

(* Two standings are worth the same if they are in each token.             *)
LEMMA SameExact ==
  ASSUME NEW m, NEW n, \A s \in Side : CalcExact(m)[s] = CalcExact(n)[s]
  PROVE  CalcExact(m) = CalcExact(n)
BY DEF CalcExact

-----------------------------------------------------------------------------
(* Cancelling adds an event for each order, which only frees its slot.     *)
LEMMA OutEvents ==
  ASSUME NEW k \in Nat
  PROVE  LET outs == [i \in 1 .. k |-> OutEvent] IN
           /\ outs \in Seq(Event)
           /\ Weight(FreesOf, outs) = k
           /\ \A t \in Side : Weight(PaidOf(t), outs) = 0 /\ Weight(GotOf(t), outs) = 0
<1> DEFINE outs == [i \in 1 .. k |-> OutEvent]
<1>1. OutEvent \in Event
  BY DEF OutEvent, Event, Side
<1>2. outs \in Seq(Event) /\ Len(outs) = k /\ \A i \in 1 .. k : outs[i] = OutEvent
  BY <1>1, IsASeq
<1> HIDE DEF outs
<1>3. FreesOf[OutEvent] = 1
  BY <1>1 DEF FreesOf, OutEvent
<1>4. Weight(FreesOf, outs) = 1 * k
  <2>1. \A i \in 1 .. Len(outs) : FreesOf[outs[i]] = 1
    BY <1>2, <1>3
  <2> QED
    BY <1>2, <2>1, WeightTypes, WeightConstant
<1>5. ASSUME NEW t \in Side
      PROVE  Weight(PaidOf(t), outs) = 0 /\ Weight(GotOf(t), outs) = 0
  <2>1. ASSUME NEW w \in [Event -> Int], w[OutEvent] = 0
        PROVE  Weight(w, outs) = 0
    <3>1. \A i \in 1 .. Len(outs) : w[outs[i]] = 0
      BY <1>2, <2>1
    <3>2. Weight(w, outs) = 0 * Len(outs)
      BY <1>2, <2>1, <3>1, WeightConstant
    <3> QED
      BY <1>2, <3>2
  <2>2. PaidOf(t)[OutEvent] = 0 /\ GotOf(t)[OutEvent] = 0
    BY <1>1 DEF PaidOf, GotOf, OutEvent
  <2> QED
    BY <2>1, <2>2, WeightTypes
<1> QED
  BY <1>2, <1>4, <1>5 DEF outs

LEMMA OutsAppended ==
  ASSUME NEW queue \in Seq(Event), NEW k \in Nat
  PROVE  LET longer == queue \o [i \in 1 .. k |-> OutEvent] IN
           /\ longer \in Seq(Event)
           /\ \A t \in Side : Taken(longer, t) = Taken(queue, t) /\ Unseen(longer, t) = Unseen(queue, t)
           /\ Weight(FreesOf, longer) = Weight(FreesOf, queue) + k
<1> DEFINE outs == [i \in 1 .. k |-> OutEvent]
<1>1. /\ outs \in Seq(Event) /\ Weight(FreesOf, outs) = k
      /\ \A t \in Side : Weight(PaidOf(t), outs) = 0 /\ Weight(GotOf(t), outs) = 0
  BY OutEvents
<1> HIDE DEF outs
<1>2. queue \o outs \in Seq(Event)
  BY <1>1, ConcatProperties
<1>3. Weight(FreesOf, queue \o outs) = Weight(FreesOf, queue) + k
  BY <1>1, WeightTypes, WeightConcat
<1>4. ASSUME NEW w \in [Event -> Int], Weight(w, outs) = 0
      PROVE  Weight(w, queue \o outs) = Weight(w, queue)
  <2>1. Weight(w, queue \o outs) = Weight(w, queue) + Weight(w, outs) /\ Weight(w, queue) \in Int
    BY <1>1, WeightConcat, WeightInt
  <2> QED
    BY <1>4, <2>1
<1>5. ASSUME NEW t \in Side
      PROVE  Taken(queue \o outs, t) = Taken(queue, t) /\ Unseen(queue \o outs, t) = Unseen(queue, t)
  BY <1>1, <1>4, WeightTypes DEF Taken, Unseen
<1> QED
  BY <1>2, <1>3, <1>5 DEF outs

-----------------------------------------------------------------------------
(* invoke_dex_cancel_orders_by_client_order_ids returns what the cancelled *)
(* orders lock and changes nothing of what the pool owns on the market.    *)

(* What a cancellation of orders of side s keeps. *)
OnlyUnlocks(m, c, s) ==
  /\ c \in Sound
  /\ c.total = m.total
  /\ CalcExact(c) = CalcExact(m)
  /\ c.free[s] >= m.free[s] /\ c.free[Other(s)] = m.free[Other(s)]
  /\ c.orders[Other(s)] = m.orders[Other(s)]
  /\ Len(c.orders[s]) <= Len(m.orders[s])
  /\ SlotsUsed(c) = SlotsUsed(m)
  /\ \A t \in Side : Taken(c.queue, t) = Taken(m.queue, t) /\ Unseen(c.queue, t) = Unseen(m.queue, t)

(* k orders of side s are gone and what they lock is free.                 *)
Unlocked(m, s, left, back, k) ==
  [m EXCEPT !.orders[s] = left, !.free[s] = @ + back,
            !.queue = @ \o [i \in 1 .. k |-> OutEvent]]

LEMMA UnlockingIsSound ==
  ASSUME NEW m \in Sound, NEW s \in Side, NEW left \in Seq(Order), NEW back \in Nat, NEW k \in Nat,
         Locked(m.orders[s]) = Locked(left) + back, Len(m.orders[s]) = Len(left) + k,
         NEW c, c = Unlocked(m, s, left, back, k)
  PROVE  /\ OnlyUnlocks(m, c, s)
         /\ c.orders[s] = left /\ c.free[s] = m.free[s] + back
<1> DEFINE longer == m.queue \o [i \in 1 .. k |-> OutEvent]
<1>1. m \in Standing /\ s # Other(s) /\ Other(s) \in Side /\ Side = {s, Other(s)}
  BY DEF Sound, Side, Other
<1>2. /\ longer \in Seq(Event)
      /\ \A t \in Side : Taken(longer, t) = Taken(m.queue, t) /\ Unseen(longer, t) = Unseen(m.queue, t)
      /\ Weight(FreesOf, longer) = Weight(FreesOf, m.queue) + k
  BY <1>1, OutsAppended DEF Standing
<1>3. m.free[s] + back \in Nat
  BY Parts
<1> HIDE DEF longer
<1>4. /\ c.total = m.total /\ c.queue = longer
      /\ c.orders = [m.orders EXCEPT ![s] = left] /\ c.free = [m.free EXCEPT ![s] = @ + back]
      /\ c \in Standing
  <2>1. c = [m EXCEPT !.orders[s] = left, !.free[s] = @ + back, !.queue = longer]
    BY DEF Unlocked, longer
  <2>2. /\ c.total = m.total /\ c.queue = longer
        /\ c.orders = [m.orders EXCEPT ![s] = left] /\ c.free = [m.free EXCEPT ![s] = @ + back]
    BY <1>1, <2>1 DEF Standing
  <2>3. c.free \in Amount
    BY <1>1, <1>3, <2>2 DEF Standing, Amount
  <2>4. c.orders \in [Side -> Seq(Order)]
    BY <1>1, <2>2 DEF Standing
  <2>5. c = [free |-> c.free, total |-> c.total, orders |-> c.orders, queue |-> c.queue]
    BY <1>1, <2>1 DEF Standing
  <2>6. c.total \in Amount /\ c.queue \in Seq(Event)
    BY <1>1, <1>2, <2>2 DEF Standing
  <2> QED
    BY <2>2, <2>3, <2>4, <2>5, <2>6 DEF Standing
<1>5. /\ c.orders[s] = left /\ c.free[s] = m.free[s] + back
      /\ c.orders[Other(s)] = m.orders[Other(s)] /\ c.free[Other(s)] = m.free[Other(s)]
  BY <1>1, <1>4 DEF Standing, Amount
<1>6. \A t \in Side : Taken(c.queue, t) = Taken(m.queue, t) /\ Unseen(c.queue, t) = Unseen(m.queue, t)
  BY <1>2, <1>4
<1>7. Locked(left) \in Nat
  BY LockedIsWeight, WeightNat, WeightTypes
<1>8. ASSUME NEW t \in Side
      PROVE  /\ c.total[t] = c.free[t] + Locked(c.orders[t]) + Taken(c.queue, t)
             /\ c.free[t] + Locked(c.orders[t]) = m.free[t] + Locked(m.orders[t])
  <2>1. m.free[t] \in Nat /\ Locked(m.orders[t]) \in Nat /\ Taken(m.queue, t) \in Nat
        /\ m.total[t] = m.free[t] + Locked(m.orders[t]) + Taken(m.queue, t)
    BY Parts
  <2>2. c.total[t] = m.total[t] /\ Taken(c.queue, t) = Taken(m.queue, t)
    BY <1>4, <1>6
  <2>3. c.free[t] + Locked(c.orders[t]) = m.free[t] + Locked(m.orders[t])
    <3>1. CASE t = s
      <4>1. (m.free[s] + back) + Locked(left) = m.free[s] + (Locked(left) + back)
        BY <1>7, <2>1, <3>1
      <4> QED
        BY <1>5, <3>1, <4>1
    <3>2. CASE t = Other(s)
      BY <1>5, <3>2
    <3> QED
      BY <1>1, <3>1, <3>2
  <2> QED
    BY <2>1, <2>2, <2>3
<1>9. c \in Sound
  BY <1>4, <1>8 DEF Sound, Balanced
<1>10. CalcExact(c) = CalcExact(m)
  <2> SUFFICES ASSUME NEW t \in Side PROVE CalcExact(c)[t] = CalcExact(m)[t]
    BY SameExact
  <2>1. CalcExact(c)[t] = c.free[t] + Locked(c.orders[t]) + Unseen(c.queue, t)
    BY <1>9, ExactIsOwned
  <2>2. CalcExact(m)[t] = m.free[t] + Locked(m.orders[t]) + Unseen(m.queue, t)
    BY ExactIsOwned
  <2> QED
    BY <1>6, <1>8, <2>1, <2>2
<1>11. SlotsUsed(c) = SlotsUsed(m)
  <2> DEFINE a == Len(left)
             b == Len(m.orders[Other(s)])
             d == Weight(FreesOf, m.queue)
  <2>1. a \in Nat /\ b \in Nat /\ d \in Nat
    BY SlotsAre, LenProperties
  <2>2. SlotsUsed(m) = (a + k) + b + d
    BY SlotsAre
  <2>3. SlotsUsed(c) = a + b + (d + k)
    BY <1>2, <1>4, <1>5, <1>9, SlotsAre
  <2> HIDE DEF a, b, d
  <2> QED
    BY <2>1, <2>2, <2>3
<1>12. Len(left) <= Len(m.orders[s]) /\ m.free[s] + back >= m.free[s]
  <2>1. Len(left) \in Nat /\ m.free[s] \in Nat
    BY Parts, LenProperties
  <2> QED
    BY <2>1
<1> QED
  BY <1>4, <1>5, <1>6, <1>9, <1>10, <1>11, <1>12 DEF OnlyUnlocks

LEMMA CancelAfterUnlocks ==
  ASSUME NEW m \in Sound, NEW s \in Side, NEW n \in Nat
  PROVE  LET c == CancelAfter(m, s, n) IN
           /\ OnlyUnlocks(m, c, s)
           /\ Len(c.orders[s]) <= n
           /\ n = 0 => c.orders[s] = <<>> /\ c.free[s] = m.free[s] + Locked(m.orders[s])
<1> DEFINE orders == m.orders[s]
           kept == Min({n, Len(orders)})
           left == SubSeq(orders, 1, kept)
           gone == SubSeq(orders, kept + 1, Len(orders))
           back == Locked(gone)
           k == Len(gone)
           c == CancelAfter(m, s, n)
<1>1. orders \in Seq(Order) /\ Len(orders) \in Nat
  BY Parts, LenProperties
<1>2. kept \in 0 .. Len(orders) /\ kept <= n
  BY <1>1 DEF Min
<1>3. c = Unlocked(m, s, left, back, k)
  BY DEF CancelAfter, Unlocked
<1> HIDE DEF kept, c, orders
<1>4. /\ left \in Seq(Order) /\ gone \in Seq(Order) /\ Len(left) = kept
      /\ Weight(LockOf, orders) = Weight(LockOf, left) + Weight(LockOf, gone)
  <2>1. LockOf \in [Order -> Int]
    BY WeightTypes
  <2> QED
    BY <1>1, <1>2, <2>1, WeightSplit
<1>5. Len(gone) = Len(orders) - kept
  <2>1. \A i \in kept + 1 .. Len(orders) : orders[i] \in Order
    BY <1>1, <1>2, ElementOfSeq
  <2> QED
    BY <1>1, <1>2, <2>1, SubSeqProperties
<1> HIDE DEF left, gone
<1>6. Locked(orders) = Locked(left) + Locked(gone) /\ Locked(gone) \in Nat /\ Locked(left) \in Nat
  BY <1>1, <1>4, LockedIsWeight, LockedType
<1>7. Len(orders) = Len(left) + Len(gone) /\ Len(gone) \in Nat
  BY <1>1, <1>2, <1>4, <1>5
<1> HIDE DEF back, k
<1>8. OnlyUnlocks(m, c, s) /\ c.orders[s] = left /\ c.free[s] = m.free[s] + back
  <2>1. Locked(m.orders[s]) = Locked(left) + back /\ Len(m.orders[s]) = Len(left) + k
    BY <1>6, <1>7 DEF orders, back, k
  <2>2. left \in Seq(Order) /\ back \in Nat /\ k \in Nat
    BY <1>4, <1>6, <1>7 DEF back, k
  <2> QED
    BY <1>3, <2>1, <2>2, UnlockingIsSound
<1>9. ASSUME n = 0
      PROVE  left = <<>> /\ back = Locked(orders)
  <2>1. kept = 0
    BY <1>2, <1>9
  <2>2. left = <<>>
    BY <2>1, SubSeqEmpty DEF left
  <2>3. gone = orders
    BY <1>1, <2>1, SubSeqFull DEF gone
  <2> QED
    BY <2>2, <2>3 DEF back
<1> QED
  BY <1>2, <1>4, <1>8, <1>9 DEF c, orders

(* Sums over a sequence that loses or gains a member.                      *)
LEMMA Removed ==
  ASSUME NEW S, NEW w \in [S -> Int], NEW seq \in Seq(S), NEW i \in 1 .. Len(seq)
  PROVE  /\ RemoveAt(seq, i) \in Seq(S) /\ Len(RemoveAt(seq, i)) = Len(seq) - 1
         /\ Weight(w, seq) = Weight(w, RemoveAt(seq, i)) + w[seq[i]]
<1> DEFINE first == SubSeq(seq, 1, i - 1)
           last  == SubSeq(seq, i + 1, Len(seq))
<1>1. /\ first \in Seq(S) /\ last \in Seq(S)
      /\ Len(first) = i - 1 /\ Len(last) = Len(seq) - i
      /\ Weight(w, seq) = Weight(w, first) + w[seq[i]] + Weight(w, last)
      /\ seq[i] \in S /\ Len(seq) \in Nat
  <2>1. Len(seq) \in Nat
    BY LenProperties
  <2>2. Around(S, w, seq, i)
    BY WeightAround
  <2> QED
    BY <2>1, <2>2 DEF Around
<1>2. RemoveAt(seq, i) = first \o last
  BY DEF RemoveAt
<1> HIDE DEF first, last
<1>3. /\ first \o last \in Seq(S) /\ Len(first \o last) = Len(first) + Len(last)
      /\ Weight(w, first \o last) = Weight(w, first) + Weight(w, last)
  BY <1>1, ConcatProperties, WeightConcat
<1>4. Weight(w, first) \in Int /\ Weight(w, last) \in Int /\ w[seq[i]] \in Int
  BY <1>1, WeightInt
<1> DEFINE both == first \o last
<1>5. RemoveAt(seq, i) = both /\ both \in Seq(S) /\ Len(both) = Len(first) + Len(last)
      /\ Weight(w, both) = Weight(w, first) + Weight(w, last)
  BY <1>2, <1>3
<1> HIDE DEF both
<1>6. Weight(w, seq) = Weight(w, both) + w[seq[i]] /\ Len(both) = Len(seq) - 1
  BY <1>1, <1>4, <1>5
<1> QED
  BY <1>5, <1>6

LEMMA Inserted ==
  ASSUME NEW S, NEW w \in [S -> Int], NEW seq \in Seq(S), NEW i \in 1 .. Len(seq) + 1, NEW e \in S
  PROVE  /\ InsertAt(seq, i, e) \in Seq(S) /\ Len(InsertAt(seq, i, e)) = Len(seq) + 1
         /\ Weight(w, InsertAt(seq, i, e)) = Weight(w, seq) + w[e]
<1> DEFINE first == SubSeq(seq, 1, i - 1)
           last  == SubSeq(seq, i, Len(seq))
           front == first \o <<e>>
           both  == front \o last
<1>1. /\ first \in Seq(S) /\ last \in Seq(S) /\ Len(first) = i - 1
      /\ Weight(w, seq) = Weight(w, first) + Weight(w, last)
      /\ Len(seq) \in Nat
  <2>1. i - 1 \in 0 .. Len(seq) /\ (i - 1) + 1 = i /\ Len(seq) \in Nat
    BY LenProperties
  <2> DEFINE j == i - 1
  <2>2. /\ SubSeq(seq, 1, j) \in Seq(S) /\ SubSeq(seq, j + 1, Len(seq)) \in Seq(S)
        /\ Len(SubSeq(seq, 1, j)) = j
        /\ Weight(w, seq) = Weight(w, SubSeq(seq, 1, j)) + Weight(w, SubSeq(seq, j + 1, Len(seq)))
    <3>1. j \in 0 .. Len(seq)
      BY <2>1
    <3> HIDE DEF j
    <3> QED
      BY <3>1, WeightSplit
  <2> QED
    BY <2>1, <2>2
<1>2. Len(last) = Len(seq) - i + 1
  <2>1. \A k \in i .. Len(seq) : seq[k] \in S
    BY <1>1, ElementOfSeq
  <2> QED
    BY <1>1, <2>1, SubSeqProperties
<1>3. InsertAt(seq, i, e) = both
  BY DEF InsertAt
<1> HIDE DEF first, last, both, front
<1>4. <<e>> \in Seq(S) /\ Len(<<e>>) = 1 /\ Weight(w, <<e>>) = w[e]
  BY WeightOne
<1>5. front \in Seq(S) /\ Len(front) = Len(first) + 1 /\ Weight(w, front) = Weight(w, first) + w[e]
  <2>1. front \in Seq(S) /\ Len(front) = Len(first) + Len(<<e>>)
    BY <1>1, <1>4, ConcatProperties DEF front
  <2>2. Weight(w, front) = Weight(w, first) + Weight(w, <<e>>)
    BY <1>1, <1>4, WeightConcat DEF front
  <2> QED
    BY <1>4, <2>1, <2>2
<1>6. both \in Seq(S) /\ Len(both) = Len(front) + Len(last) /\ Weight(w, both) = Weight(w, front) + Weight(w, last)
  BY <1>1, <1>5, ConcatProperties, WeightConcat DEF both
<1>7. Weight(w, first) \in Int /\ Weight(w, last) \in Int /\ w[e] \in Int
  BY <1>1, WeightInt
<1>8. Weight(w, both) = Weight(w, seq) + w[e] /\ Len(both) = Len(seq) + 1
  BY <1>1, <1>2, <1>5, <1>6, <1>7
<1> QED
  BY <1>3, <1>6, <1>8

LEMMA EventAppended ==
  ASSUME NEW queue \in Seq(Event), NEW e \in Event
  PROVE  /\ Append(queue, e) \in Seq(Event)
         /\ \A t \in Side : /\ Taken(Append(queue, e), t) = Taken(queue, t) + PaidOf(t)[e]
                            /\ Unseen(Append(queue, e), t) = Unseen(queue, t) + GotOf(t)[e]
         /\ Weight(FreesOf, Append(queue, e)) = Weight(FreesOf, queue) + FreesOf[e]
<1>1. \A t \in Side : /\ Weight(PaidOf(t), Append(queue, e)) = Weight(PaidOf(t), queue) + PaidOf(t)[e]
                      /\ Weight(GotOf(t), Append(queue, e)) = Weight(GotOf(t), queue) + GotOf(t)[e]
  <2> TAKE t \in Side
  <2>1. PaidOf(t) \in [Event -> Int] /\ GotOf(t) \in [Event -> Int]
    BY WeightTypes
  <2> QED
    BY <2>1, WeightAppend
<1>2. Weight(FreesOf, Append(queue, e)) = Weight(FreesOf, queue) + FreesOf[e]
  BY WeightTypes, WeightAppend
<1> QED
  BY <1>1, <1>2, AppendProperties DEF Taken, Unseen

LEMMA CancelAtUnlocks ==
  ASSUME NEW m \in Sound, NEW s \in Side, NEW i \in 1 .. Len(m.orders[s])
  PROVE  LET c == CancelAt(m, s, i) IN
           /\ OnlyUnlocks(m, c, s)
           /\ Len(c.orders[s]) = Len(m.orders[s]) - 1
<1> DEFINE orders == m.orders[s]
           left == RemoveAt(orders, i)
           back == orders[i].lock
           c == CancelAt(m, s, i)
<1>1. orders \in Seq(Order) /\ orders[i] \in Order /\ m.queue \in Seq(Event) /\ Len(orders) \in Nat
  BY Parts, ElementOfSeq, LenProperties
<1>2. /\ left \in Seq(Order) /\ Len(left) = Len(orders) - 1
      /\ Weight(LockOf, orders) = Weight(LockOf, left) + LockOf[orders[i]]
  <2>1. LockOf \in [Order -> Int] /\ i \in 1 .. Len(orders)
    BY WeightTypes
  <2> HIDE DEF orders
  <2> QED
    BY <1>1, <2>1, Removed
<1>3. c = Unlocked(m, s, left, back, 1)
  <2>1. Append(m.queue, OutEvent) = m.queue \o [k \in 1 .. 1 |-> OutEvent]
    <3>1. OutEvent \in Event
      BY DEF OutEvent, Event, Side
    <3>2. [k \in 1 .. 1 |-> OutEvent] = <<OutEvent>>
      OBVIOUS
    <3> QED
      BY <1>1, <3>1, <3>2, AppendIsConcat
  <2> QED
    BY <2>1 DEF CancelAt, Unlocked
<1> HIDE DEF c, left, back
<1>4. Locked(orders) = Locked(left) + back /\ back \in Nat
  <2>1. LockOf[orders[i]] = back /\ back \in Nat
    BY <1>1 DEF LockOf, Order, back
  <2> QED
    BY <1>1, <1>2, <2>1, LockedIsWeight
<1>5. Len(orders) = Len(left) + 1
  BY <1>1, <1>2
<1>6. OnlyUnlocks(m, c, s) /\ c.orders[s] = left
  BY <1>2, <1>3, <1>4, <1>5, UnlockingIsSound
<1> QED
  BY <1>2, <1>6 DEF c

(* Without orders, everything is free or owed to the pool by trades.       *)
LEMMA CancelBothUnlocks ==
  ASSUME NEW m \in Sound
  PROVE  LET c == CancelBoth(m) IN
           /\ c \in Sound /\ c.total = m.total /\ CalcExact(c) = CalcExact(m) /\ SlotsUsed(c) = SlotsUsed(m)
           /\ \A t \in Side : /\ c.orders[t] = <<>>
                              /\ c.free[t] = m.free[t] + Locked(m.orders[t])
                              /\ Taken(c.queue, t) = Taken(m.queue, t) /\ Unseen(c.queue, t) = Unseen(m.queue, t)
<1> DEFINE a == CancelAfter(m, "coin", 0)
           c == CancelAfter(a, "pc", 0)
<1>1. "coin" \in Side /\ "pc" \in Side /\ Other("coin") = "pc" /\ Other("pc") = "coin" /\ Side = {"coin", "pc"}
  BY DEF Side, Other
<1>2. OnlyUnlocks(m, a, "coin") /\ a.orders["coin"] = <<>> /\ a.free["coin"] = m.free["coin"] + Locked(m.orders["coin"])
  BY <1>1, CancelAfterUnlocks
<1> HIDE DEF a
<1>3. a \in Sound
  BY <1>2 DEF OnlyUnlocks
<1>4. OnlyUnlocks(a, c, "pc") /\ c.orders["pc"] = <<>> /\ c.free["pc"] = a.free["pc"] + Locked(a.orders["pc"])
  BY <1>1, <1>3, CancelAfterUnlocks
<1>5. CancelBoth(m) = c
  BY DEF CancelBoth, a
<1> HIDE DEF c
<1>6. c \in Sound /\ c.total = m.total /\ CalcExact(c) = CalcExact(m) /\ SlotsUsed(c) = SlotsUsed(m)
  BY <1>2, <1>4 DEF OnlyUnlocks
<1>7. \A t \in Side : Taken(c.queue, t) = Taken(m.queue, t) /\ Unseen(c.queue, t) = Unseen(m.queue, t)
  BY <1>2, <1>4 DEF OnlyUnlocks
<1>8. /\ c.orders["coin"] = <<>> /\ c.free["coin"] = m.free["coin"] + Locked(m.orders["coin"])
      /\ c.orders["pc"] = <<>> /\ c.free["pc"] = m.free["pc"] + Locked(m.orders["pc"])
  BY <1>1, <1>2, <1>4 DEF OnlyUnlocks
<1> QED
  BY <1>1, <1>5, <1>6, <1>7, <1>8

(* invoke_dex_settle_funds takes from the market what is free there.       *)
LEMMA SettleTakesFree ==
  ASSUME NEW m \in Sound
  PROVE  LET c == Settle(m) IN
           /\ c \in Sound /\ c.free = Zero /\ c.orders = m.orders /\ c.queue = m.queue
           /\ \A t \in Side : CalcExact(c)[t] = CalcExact(m)[t] - m.free[t]
           /\ SlotsUsed(c) = SlotsUsed(m)
<1> DEFINE c == Settle(m)
<1>1. m \in Standing
  BY DEF Sound
<1>2. c.free = Zero /\ c.orders = m.orders /\ c.queue = m.queue /\ c.total = Minus(m.total, m.free)
  BY <1>1 DEF Settle, Standing
<1>3. c = [free |-> Zero, total |-> Minus(m.total, m.free), orders |-> m.orders, queue |-> m.queue]
  <2> DEFINE less == Minus(m.total, m.free)
  <2>1. c = [m EXCEPT !.total = less, !.free = Zero]
    BY DEF Settle
  <2> HIDE DEF c, less
  <2>2. c = [free |-> Zero, total |-> less, orders |-> m.orders, queue |-> m.queue]
    BY <1>1, <2>1 DEF Standing
  <2> QED
    BY <2>2 DEF less
<1> HIDE DEF c
<1>4. ASSUME NEW t \in Side
      PROVE  /\ c.free[t] = 0 /\ c.total[t] = m.total[t] - m.free[t] /\ c.total[t] \in Nat
             /\ c.total[t] = c.free[t] + Locked(c.orders[t]) + Taken(c.queue, t)
  <2>1. /\ m.free[t] \in Nat /\ Locked(m.orders[t]) \in Nat /\ Taken(m.queue, t) \in Nat
        /\ m.total[t] = m.free[t] + Locked(m.orders[t]) + Taken(m.queue, t)
    BY Parts
  <2>2. c.free[t] = 0 /\ c.total[t] = m.total[t] - m.free[t]
    BY <1>2 DEF Zero, Minus
  <2> QED
    BY <1>2, <2>1, <2>2
<1>5. c.free \in Amount /\ c.total \in Amount
  BY <1>2, <1>4 DEF Amount, Zero, Minus
<1>6. c \in Sound
  BY <1>1, <1>2, <1>3, <1>4, <1>5 DEF Sound, Balanced, Standing
<1>7. ASSUME NEW t \in Side
      PROVE  CalcExact(c)[t] = CalcExact(m)[t] - m.free[t]
  <2>1. /\ CalcExact(c)[t] = c.free[t] + Locked(c.orders[t]) + Unseen(c.queue, t)
        /\ CalcExact(m)[t] = m.free[t] + Locked(m.orders[t]) + Unseen(m.queue, t)
    BY <1>6, ExactIsOwned
  <2>2. m.free[t] \in Nat /\ Locked(m.orders[t]) \in Nat /\ Unseen(m.queue, t) \in Nat
    BY Parts
  <2> QED
    BY <1>2, <1>4, <2>1, <2>2
<1>8. SlotsUsed(c) = SlotsUsed(m)
  BY <1>2 DEF SlotsUsed
<1> QED
  BY <1>2, <1>6, <1>7, <1>8 DEF c

-----------------------------------------------------------------------------
(* invoke_dex_new_order_v3 brings to the market what the vault adds, and   *)
(* a trade at once changes what it is in.                                  *)
LEMMA Funding ==
  ASSUME NEW m \in Sound, NEW s \in Side, NEW lock \in Nat
  PROVE  LET paid == FromVault(m, s, lock)
             f == Funded(m, s, lock)
         IN /\ paid \in Nat /\ paid <= lock
            /\ f \in Standing /\ f.orders = m.orders /\ f.queue = m.queue
            /\ f.free[s] = m.free[s] + paid - lock /\ f.total[s] = m.total[s] + paid
            /\ f.free[Other(s)] = m.free[Other(s)] /\ f.total[Other(s)] = m.total[Other(s)]
<1> DEFINE paid == FromVault(m, s, lock)
           f == Funded(m, s, lock)
<1>1. m \in Standing /\ s # Other(s) /\ Other(s) \in Side /\ m.free[s] \in Nat /\ m.total[s] \in Nat
  BY Parts DEF Side, Other
<1>2. paid \in Nat /\ paid <= lock /\ m.free[s] + paid - lock \in Nat
  BY <1>1 DEF FromVault
<1>3. f = [m EXCEPT !.free[s] = @ + paid - lock, !.total[s] = @ + paid]
  BY DEF Funded
<1> HIDE DEF paid, f
<1>4. /\ f = [free |-> [m.free EXCEPT ![s] = @ + paid - lock], total |-> [m.total EXCEPT ![s] = @ + paid],
              orders |-> m.orders, queue |-> m.queue]
  BY <1>1, <1>3 DEF Standing
<1>5. m.free \in Amount /\ m.total \in Amount /\ m.orders \in [Side -> Seq(Order)] /\ m.queue \in Seq(Event)
  BY <1>1 DEF Standing
<1>6. [m.free EXCEPT ![s] = @ + paid - lock] \in Amount /\ [m.total EXCEPT ![s] = @ + paid] \in Amount
  <2>1. m.free[s] + paid - lock \in Nat /\ m.total[s] + paid \in Nat
    BY <1>1, <1>2
  <2> QED
    BY <1>5, <2>1 DEF Amount
<1>7. f \in Standing
  BY <1>4, <1>5, <1>6 DEF Standing
<1>8. /\ f.free[s] = m.free[s] + paid - lock /\ f.total[s] = m.total[s] + paid
      /\ f.free[Other(s)] = m.free[Other(s)] /\ f.total[Other(s)] = m.total[Other(s)]
  BY <1>1, <1>4, <1>5 DEF Amount
<1> QED
  BY <1>2, <1>4, <1>7, <1>8 DEF paid, f

LEMMA RestingOrder ==
  ASSUME NEW m \in Sound, NEW s \in Side, NEW order \in Order, NEW towards \in BOOLEAN
  PROVE  LET paid == FromVault(m, s, order.lock)
             c == Rest(Funded(m, s, order.lock), s, order, towards)
         IN /\ c \in Sound /\ c.queue = m.queue
            /\ c.free[s] = m.free[s] + paid - order.lock /\ c.free[Other(s)] = m.free[Other(s)]
            /\ Len(c.orders[s]) = Len(m.orders[s]) + 1 /\ c.orders[Other(s)] = m.orders[Other(s)]
            /\ CalcExact(c)[s] = CalcExact(m)[s] + paid /\ CalcExact(c)[Other(s)] = CalcExact(m)[Other(s)]
            /\ SlotsUsed(c) = SlotsUsed(m) + 1
<1> DEFINE lock == order.lock
           paid == FromVault(m, s, lock)
           f == Funded(m, s, lock)
           orders == m.orders[s]
           ahead == {i \in DOMAIN orders : LET level == orders[i].level
                                           IN level < order.level \/ (level = order.level /\ ~towards)}
           at == Cardinality(ahead) + 1
           more == InsertAt(orders, at, order)
           c == Rest(f, s, order, towards)
<1>1. lock \in Nat /\ orders \in Seq(Order) /\ Len(orders) \in Nat
  BY Parts, LenProperties DEF Order
<1>2. s # Other(s) /\ Other(s) \in Side /\ Side = {s, Other(s)}
  BY DEF Side, Other
<1>3. /\ paid \in Nat
      /\ f \in Standing /\ f.orders = m.orders /\ f.queue = m.queue
      /\ f.free[s] = m.free[s] + paid - lock /\ f.total[s] = m.total[s] + paid
      /\ f.free[Other(s)] = m.free[Other(s)] /\ f.total[Other(s)] = m.total[Other(s)]
  <2> HIDE DEF lock
  <2> QED
    BY <1>1, Funding
<1>4. at \in 1 .. Len(orders) + 1
  <2> DEFINE k == Len(orders)
  <2>1. DOMAIN orders = 1 .. k
    BY <1>1, LenProperties
  <2>2. IsFiniteSet(1 .. k) /\ Cardinality(1 .. k) = k
    <3>1. k \in Int /\ 1 \in Int /\ k - 1 + 1 = k /\ 1 <= k + 1
      BY <1>1
    <3>2. k \in Nat
      BY <1>1
    <3> HIDE DEF k
    <3> QED
      BY <3>1, <3>2, FS_Interval
  <2>3. ahead \subseteq 1 .. k
    BY <2>1
  <2> HIDE DEF ahead, k
  <2>4. Cardinality(ahead) \in Nat /\ Cardinality(ahead) <= k
    BY <2>2, <2>3, FS_Subset, FS_CardinalityType
  <2> QED
    BY <1>1, <2>4 DEF k
<1>5. c = [f EXCEPT !.orders[s] = more]
  BY <1>3 DEF Rest
<1> HIDE DEF paid, f, orders, ahead, at, c
<1>6. /\ more \in Seq(Order) /\ Len(more) = Len(orders) + 1
      /\ Weight(LockOf, more) = Weight(LockOf, orders) + LockOf[order]
  <2>1. LockOf \in [Order -> Int]
    BY WeightTypes
  <2> QED
    BY <1>1, <1>4, <2>1, Inserted
<1>7. Locked(more) = Locked(orders) + lock /\ Locked(orders) \in Nat
  <2>1. LockOf[order] = lock
    BY DEF LockOf
  <2> QED
    BY <1>1, <1>6, <2>1, LockedIsWeight, LockedType
<1> HIDE DEF more, lock
<1>8. /\ c \in Standing /\ c.total = f.total /\ c.free = f.free /\ c.queue = f.queue
      /\ c.orders[s] = more /\ c.orders[Other(s)] = f.orders[Other(s)]
  <2>1. c = [free |-> f.free, total |-> f.total, orders |-> [f.orders EXCEPT ![s] = more], queue |-> f.queue]
    BY <1>3, <1>5 DEF Standing
  <2>2. f.orders \in [Side -> Seq(Order)] /\ [f.orders EXCEPT ![s] = more] \in [Side -> Seq(Order)]
    BY <1>3, <1>6 DEF Standing
  <2> QED
    BY <1>2, <1>3, <2>1, <2>2 DEF Standing
<1>9. ASSUME NEW t \in Side
      PROVE  /\ c.total[t] = c.free[t] + Locked(c.orders[t]) + Taken(c.queue, t)
             /\ c.free[t] + Locked(c.orders[t]) = m.free[t] + Locked(m.orders[t]) + IF t = s THEN paid ELSE 0
  <2>1. m.free[t] \in Nat /\ Locked(m.orders[t]) \in Nat /\ Taken(m.queue, t) \in Nat
        /\ m.total[t] = m.free[t] + Locked(m.orders[t]) + Taken(m.queue, t)
    BY Parts
  <2>2. c.queue = m.queue
    BY <1>3, <1>8
  <2>3. CASE t = s
    <3>1. /\ c.free[s] = m.free[s] + paid - lock /\ c.total[s] = m.total[s] + paid
          /\ Locked(c.orders[s]) = Locked(m.orders[s]) + lock
      BY <1>3, <1>7, <1>8 DEF orders
    <3> QED
      BY <1>1, <1>3, <2>1, <2>2, <2>3, <3>1, SMTT(30)
  <2>4. CASE t = Other(s)
    BY <1>2, <1>3, <1>8, <2>1, <2>2, <2>4
  <2> QED
    BY <1>2, <2>3, <2>4
<1>10. c \in Sound
  BY <1>8, <1>9 DEF Sound, Balanced
<1>11. CalcExact(c)[s] = CalcExact(m)[s] + paid /\ CalcExact(c)[Other(s)] = CalcExact(m)[Other(s)]
  <2>1. ASSUME NEW t \in Side
        PROVE  CalcExact(c)[t] = CalcExact(m)[t] + IF t = s THEN paid ELSE 0
    <3>1. /\ CalcExact(c)[t] = c.free[t] + Locked(c.orders[t]) + Unseen(c.queue, t)
          /\ CalcExact(m)[t] = m.free[t] + Locked(m.orders[t]) + Unseen(m.queue, t)
      BY <1>10, ExactIsOwned
    <3>2. m.free[t] \in Nat /\ Locked(m.orders[t]) \in Nat /\ Unseen(m.queue, t) \in Nat /\ c.queue = m.queue
      BY <1>3, <1>8, Parts
    <3> QED
      BY <1>3, <1>9, <3>1, <3>2
  <2>2. CalcExact(m)[Other(s)] \in Nat
    BY <1>2, ExactIsOwned
  <2> QED
    BY <1>2, <2>1, <2>2
<1>12. SlotsUsed(c) = SlotsUsed(m) + 1
  <2> DEFINE a == Len(orders)
             b == Len(m.orders[Other(s)])
             d == Weight(FreesOf, m.queue)
  <2>1. a \in Nat /\ b \in Nat /\ d \in Nat /\ SlotsUsed(m) = a + b + d
    BY SlotsAre DEF orders
  <2>2. SlotsUsed(c) = (a + 1) + b + d
    BY <1>3, <1>6, <1>8, <1>10, SlotsAre DEF more
  <2> HIDE DEF a, b, d
  <2> QED
    BY <2>1, <2>2
<1> QED
  BY <1>3, <1>6, <1>8, <1>10, <1>11, <1>12 DEF c, f, paid, lock, orders, more

LEMMA TradingOrder ==
  ASSUME NEW m \in Sound, NEW s \in Side, NEW lock \in Nat, NEW got \in Nat
  PROVE  LET paid == FromVault(m, s, lock)
             c == Trade(Funded(m, s, lock), s, lock, got)
         IN /\ c \in Sound /\ c.orders = m.orders
            /\ c.free[s] = m.free[s] + paid - lock /\ c.free[Other(s)] = m.free[Other(s)] + got
            /\ CalcExact(c)[s] = CalcExact(m)[s] + paid - lock
            /\ CalcExact(c)[Other(s)] = CalcExact(m)[Other(s)] + got
            /\ SlotsUsed(c) = SlotsUsed(m)
<1> DEFINE paid == FromVault(m, s, lock)
           f == Funded(m, s, lock)
           e == [maker |-> FALSE, side |-> s, paid |-> lock, got |-> got, frees |-> FALSE]
           total == Traded(f.total, s, lock, got)
           c == Trade(f, s, lock, got)
<1>1. /\ paid \in Nat
      /\ f \in Standing /\ f.orders = m.orders /\ f.queue = m.queue
      /\ f.free[s] = m.free[s] + paid - lock /\ f.total[s] = m.total[s] + paid
      /\ f.free[Other(s)] = m.free[Other(s)] /\ f.total[Other(s)] = m.total[Other(s)]
  BY Funding
<1>2. s # Other(s) /\ Other(s) \in Side /\ Side = {s, Other(s)}
  BY DEF Side, Other
<1>3. e \in Event /\ FreesOf[e] = 0 /\ \A t \in Side : PaidOf(t)[e] = 0 /\ GotOf(t)[e] = 0
  BY DEF Event, FreesOf, PaidOf, GotOf
<1>4. c = [f EXCEPT !.total = total, !.free[Other(s)] = @ + got, !.queue = Append(@, e)]
  BY DEF Trade
<1> HIDE DEF paid, f, e, c, total
<1>5. m.queue \in Seq(Event)
  BY Parts
<1>6. /\ Append(m.queue, e) \in Seq(Event)
      /\ \A t \in Side : /\ Taken(Append(m.queue, e), t) = Taken(m.queue, t) + 0
                         /\ Unseen(Append(m.queue, e), t) = Unseen(m.queue, t) + 0
      /\ Weight(FreesOf, Append(m.queue, e)) = Weight(FreesOf, m.queue) + 0
  BY <1>3, <1>5, EventAppended
<1>7. c = [free |-> [f.free EXCEPT ![Other(s)] = @ + got], total |-> total,
           orders |-> f.orders, queue |-> Append(m.queue, e)]
  BY <1>1, <1>4 DEF Standing
<1>8. /\ total[s] = m.total[s] + paid - lock /\ total[Other(s)] = m.total[Other(s)] + got
      /\ total = [t \in Side |-> total[t]]
  <2>1. m.total[s] \in Nat /\ m.total[Other(s)] \in Nat
    BY <1>2, Parts
  <2>2. total[s] = f.total[s] - lock /\ total[Other(s)] = f.total[Other(s)] + got
    BY <1>2 DEF total, Traded
  <2>3. total = [t \in Side |-> total[t]]
    BY DEF total, Traded
  <2> QED
    BY <1>1, <2>1, <2>2, <2>3
<1>9. /\ c.orders = m.orders /\ c.queue = Append(m.queue, e) /\ c.total = total
      /\ c.free[s] = m.free[s] + paid - lock /\ c.free[Other(s)] = m.free[Other(s)] + got
  BY <1>1, <1>2, <1>7 DEF Standing, Amount
<1>10. ASSUME NEW t \in Side
       PROVE  /\ c.total[t] = c.free[t] + Locked(c.orders[t]) + Taken(c.queue, t)
              /\ c.total[t] \in Nat
              /\ c.free[t] = IF t = s THEN m.free[t] + paid - lock ELSE m.free[t] + got
              /\ c.free[t] \in Nat
  <2>1. m.free[t] \in Nat /\ Locked(m.orders[t]) \in Nat /\ Taken(m.queue, t) \in Nat
        /\ m.total[t] = m.free[t] + Locked(m.orders[t]) + Taken(m.queue, t)
    BY Parts
  <2>2. Taken(c.queue, t) = Taken(m.queue, t) /\ c.orders[t] = m.orders[t]
    BY <1>6, <1>9, <2>1
  <2>3. CASE t = s
    <3>1. m.free[t] + paid - lock \in Nat
      BY <1>1, <2>3 DEF Standing, Amount
    <3>2. c.total[t] = m.total[t] + paid - lock /\ c.free[t] = m.free[t] + paid - lock
      BY <1>8, <1>9, <2>3
    <3>3. Locked(c.orders[t]) = Locked(m.orders[t]) /\ m.total[t] \in Nat
      BY <2>1, <2>2
    <3>4. c.total[t] = c.free[t] + Locked(c.orders[t]) + Taken(c.queue, t) /\ c.total[t] \in Nat
      BY <1>1, <2>1, <2>2, <3>1, <3>2, <3>3
    <3> QED
      BY <2>3, <3>1, <3>2, <3>4
  <2>4. CASE t = Other(s)
    <3>1. c.total[t] = m.total[t] + got /\ c.free[t] = m.free[t] + got
      BY <1>8, <1>9, <2>4
    <3>2. Locked(c.orders[t]) = Locked(m.orders[t])
      BY <2>2
    <3>3. c.total[t] = c.free[t] + Locked(c.orders[t]) + Taken(c.queue, t) /\ c.total[t] \in Nat
      BY <2>1, <2>2, <3>1, <3>2
    <3> QED
      BY <1>2, <2>1, <2>4, <3>1, <3>3
  <2> QED
    BY <1>2, <2>3, <2>4
<1>11. c \in Standing
  <2>1. c.free \in Amount /\ c.total \in Amount
    BY <1>1, <1>7, <1>8, <1>10 DEF Amount, Standing
  <2> QED
    BY <1>1, <1>6, <1>7, <2>1 DEF Standing
<1>12. c \in Sound
  BY <1>10, <1>11 DEF Sound, Balanced
<1>13. ASSUME NEW t \in Side
       PROVE  CalcExact(c)[t] = CalcExact(m)[t] + IF t = s THEN paid - lock ELSE got
  <2>1. /\ CalcExact(c)[t] = c.free[t] + Locked(c.orders[t]) + Unseen(c.queue, t)
        /\ CalcExact(m)[t] = m.free[t] + Locked(m.orders[t]) + Unseen(m.queue, t)
    BY <1>12, ExactIsOwned
  <2>2. m.free[t] \in Nat /\ Locked(m.orders[t]) \in Nat /\ Unseen(m.queue, t) \in Nat
    BY Parts
  <2>3. Unseen(c.queue, t) = Unseen(m.queue, t) /\ c.orders[t] = m.orders[t]
    BY <1>6, <1>9, <2>2
  <2> QED
    BY <1>1, <1>10, <2>1, <2>2, <2>3
<1>14. SlotsUsed(c) = SlotsUsed(m)
  <2>1. Weight(FreesOf, m.queue) \in Nat
    BY SlotsAre
  <2>2. Weight(FreesOf, c.queue) = Weight(FreesOf, m.queue)
    BY <1>6, <1>9, <2>1
  <2>3. SlotsUsed(c) = Len(c.orders[s]) + Len(c.orders[Other(s)]) + Weight(FreesOf, c.queue)
    BY <1>12, SlotsAre
  <2>4. SlotsUsed(m) = Len(m.orders[s]) + Len(m.orders[Other(s)]) + Weight(FreesOf, m.queue)
    BY SlotsAre
  <2> QED
    BY <1>9, <2>2, <2>3, <2>4
<1>15. CalcExact(m)[s] \in Nat /\ CalcExact(c)[s] = CalcExact(m)[s] + (paid - lock)
  BY <1>13, ExactIsOwned
<1>16. CalcExact(c)[Other(s)] = CalcExact(m)[Other(s)] + got
  BY <1>2, <1>13
<1> QED
  BY <1>1, <1>9, <1>12, <1>14, <1>15, <1>16 DEF c, f, paid

-----------------------------------------------------------------------------
(* What the other users of the market do.                                  *)
LEMMA TakingIsSound ==
  ASSUME NEW m \in Sound, NEW s \in Side, m.orders[s] # <<>>,
         NEW paid \in 1 .. Head(m.orders[s]).lock, NEW got \in Nat
  PROVE  LET c == Take(m, s, paid, got) IN
           /\ c \in Sound /\ c.free = m.free
           /\ CalcExact(c)[s] = CalcExact(m)[s] - paid
           /\ CalcExact(c)[Other(s)] = CalcExact(m)[Other(s)] + got
           /\ SlotsUsed(c) = SlotsUsed(m)
<1> DEFINE orders == m.orders[s]
           best == orders[1]
           done == paid = best.lock
           left == [best EXCEPT !.lock = @ - paid]
           kept == IF done THEN Tail(orders) ELSE [orders EXCEPT ![1] = left]
           e == [maker |-> TRUE, side |-> s, paid |-> paid, got |-> got, frees |-> done]
           c == Take(m, s, paid, got)
<1>1. /\ orders \in Seq(Order) /\ orders # <<>> /\ m \in Standing
      /\ s # Other(s) /\ Other(s) \in Side /\ Side = {s, Other(s)}
  BY Parts DEF Side, Other
<1>2. /\ best = Head(orders) /\ best \in Order /\ Tail(orders) \in Seq(Order)
      /\ Len(orders) \in Nat /\ Len(orders) >= 1
      /\ Len(Tail(orders)) = Len(orders) - 1
      /\ Weight(LockOf, orders) = LockOf[best] + Weight(LockOf, Tail(orders))
  <2>1. LockOf \in [Order -> Int]
    BY WeightTypes
  <2> HIDE DEF orders
  <2>2. Head(orders) = orders[1] /\ Len(orders) >= 1 /\ Len(orders) \in Nat /\ Len(Tail(orders)) = Len(orders) - 1
    BY <1>1, HeadTailProperties, EmptySeq, LenProperties
  <2> QED
    BY <1>1, <2>1, <2>2, WeightTail
<1>3. paid \in Nat /\ paid <= best.lock /\ best.lock \in Nat /\ LockOf[best] = best.lock
  BY <1>2 DEF Order, LockOf
<1>4. c = [m EXCEPT !.orders[s] = kept, !.queue = Append(@, e)]
  BY DEF Take
<1>5. e \in Event
  BY <1>3 DEF Event
<1>6. /\ PaidOf(s)[e] = paid /\ GotOf(s)[e] = 0
      /\ PaidOf(Other(s))[e] = 0 /\ GotOf(Other(s))[e] = got
      /\ FreesOf[e] = IF done THEN 1 ELSE 0
  BY <1>1, <1>5 DEF PaidOf, GotOf, FreesOf
<1>7. /\ kept \in Seq(Order) /\ Locked(orders) = Locked(kept) + paid /\ Locked(kept) \in Nat
      /\ Len(orders) = Len(kept) + IF done THEN 1 ELSE 0
  <2>1. /\ Weight(LockOf, Tail(orders)) \in Nat /\ Locked(orders) = Weight(LockOf, orders)
        /\ \A some \in Seq(Order) : Locked(some) = Weight(LockOf, some) /\ Weight(LockOf, some) \in Nat
    BY <1>1, <1>2, WeightTypes, WeightNat, LockedIsWeight
  <2>2. CASE done
    <3>1. kept = Tail(orders) /\ paid = best.lock /\ (IF done THEN 1 ELSE 0) = 1
      BY <2>2
    <3> DEFINE tail == Tail(orders)
    <3>2. tail \in Seq(Order) /\ kept = tail
      BY <1>2, <3>1
    <3>3. LockOf[best] = paid
      BY <1>3, <3>1
    <3> HIDE DEF kept, orders, done, best
    <3>4. Len(tail) = Len(orders) - 1 /\ Len(orders) \in Nat
      BY <1>2
    <3>5. Locked(orders) = LockOf[best] + Weight(LockOf, tail)
      BY <1>2, <2>1
    <3> HIDE DEF tail
    <3>6. Locked(tail) = Weight(LockOf, tail) /\ Locked(tail) \in Nat
      BY <2>1, <3>2
    <3>7. Locked(orders) = Locked(tail) + paid /\ Len(orders) = Len(tail) + 1
      BY <1>3, <3>3, <3>4, <3>5, <3>6
    <3> QED
      BY <3>1, <3>2, <3>6, <3>7
  <2>3. CASE ~done
    <3> DEFINE small == [orders EXCEPT ![1] = left]
    <3>1. left \in Order /\ LockOf[left] = best.lock - paid
      <4>1. best.lock - paid \in Nat \ {0}
        BY <1>3, <2>3
      <4>2. left = [lock |-> best.lock - paid, level |-> best.level, listed |-> best.listed]
        BY <1>2 DEF Order
      <4>3. best.level \in Nat \ {0} /\ best.listed \in BOOLEAN
        BY <1>2 DEF Order
      <4> HIDE DEF best
      <4> QED
        BY <4>1, <4>2, <4>3 DEF Order, LockOf
    <3>2. kept = small
      BY <2>3
    <3> HIDE DEF left, orders, kept, best
    <3>3. small \in Seq(Order) /\ Len(small) = Len(orders) /\ small[1] = left
      BY <1>1, <1>2, <3>1, ExceptSeq
    <3>4. small # <<>> /\ Head(small) = left /\ Tail(small) = Tail(orders)
      <4>1. Head(small) = left /\ small # <<>>
        BY <1>2, <3>3, EmptySeq, HeadTailProperties
      <4>2. Tail(small) \in Seq(Order) /\ Tail(orders) \in Seq(Order) /\ Len(Tail(small)) = Len(Tail(orders))
        BY <1>1, <1>2, <3>3, <4>1, HeadTailProperties
      <4>3. \A i \in 1 .. Len(Tail(orders)) : Tail(small)[i] = small[i + 1] /\ Tail(orders)[i] = orders[i + 1]
        BY <1>1, <1>2, <3>3, <4>1, <4>2, HeadTailProperties
      <4>4. \A i \in 1 .. Len(Tail(orders)) : small[i + 1] = orders[i + 1]
        BY <1>1, <1>2 DEF small
      <4>5. \A i \in 1 .. Len(Tail(orders)) : Tail(small)[i] = Tail(orders)[i]
        BY <4>3, <4>4
      <4> QED
        BY <4>1, <4>2, <4>5, SeqEqual
    <3> HIDE DEF small
    <3>5. Weight(LockOf, small) = LockOf[left] + Weight(LockOf, Tail(orders))
      BY <3>3, <3>4, WeightTypes, WeightTail
    <3> QED
      BY <1>2, <1>3, <2>1, <2>3, <3>1, <3>2, <3>3, <3>5
  <2> QED
    BY <2>2, <2>3
<1> HIDE DEF orders, best, done, left, kept, e, c
<1>8. m.queue \in Seq(Event)
  BY Parts
<1>9. /\ c.free = m.free /\ c.total = m.total /\ c.queue = Append(m.queue, e)
      /\ c.orders[s] = kept /\ c.orders[Other(s)] = m.orders[Other(s)]
      /\ c \in Standing
  <2>1. c = [free |-> m.free, total |-> m.total, orders |-> [m.orders EXCEPT ![s] = kept],
             queue |-> Append(m.queue, e)]
    BY <1>1, <1>4 DEF Standing
  <2>2. m.orders \in [Side -> Seq(Order)] /\ [m.orders EXCEPT ![s] = kept] \in [Side -> Seq(Order)]
    BY <1>1, <1>7 DEF Standing
  <2>3. Append(m.queue, e) \in Seq(Event)
    BY <1>5, <1>8, AppendProperties
  <2> QED
    BY <1>1, <2>1, <2>2, <2>3 DEF Standing
<1>10. /\ Taken(c.queue, s) = Taken(m.queue, s) + paid /\ Unseen(c.queue, s) = Unseen(m.queue, s) + 0
       /\ Taken(c.queue, Other(s)) = Taken(m.queue, Other(s)) + 0
       /\ Unseen(c.queue, Other(s)) = Unseen(m.queue, Other(s)) + got
       /\ Weight(FreesOf, c.queue) = Weight(FreesOf, m.queue) + IF done THEN 1 ELSE 0
  BY <1>1, <1>5, <1>6, <1>8, <1>9, EventAppended
<1>11. ASSUME NEW t \in Side
       PROVE  /\ c.total[t] = c.free[t] + Locked(c.orders[t]) + Taken(c.queue, t)
              /\ Locked(c.orders[t]) = Locked(m.orders[t]) - IF t = s THEN paid ELSE 0
  <2>1. m.free[t] \in Nat /\ Locked(m.orders[t]) \in Nat /\ Taken(m.queue, t) \in Nat
        /\ m.total[t] = m.free[t] + Locked(m.orders[t]) + Taken(m.queue, t)
    BY Parts
  <2>2. CASE t = s
    BY <1>3, <1>7, <1>9, <1>10, <2>1, <2>2, SMTT(30) DEF orders
  <2>3. CASE t = Other(s)
    BY <1>1, <1>9, <1>10, <2>1, <2>3
  <2> QED
    BY <1>1, <2>2, <2>3
<1>12. c \in Sound
  BY <1>9, <1>11 DEF Sound, Balanced
<1>13. CalcExact(c)[s] = CalcExact(m)[s] - paid /\ CalcExact(c)[Other(s)] = CalcExact(m)[Other(s)] + got
  <2>1. ASSUME NEW t \in Side
        PROVE  CalcExact(c)[t] = CalcExact(m)[t] + IF t = s THEN 0 - paid ELSE got
    <3>1. /\ CalcExact(c)[t] = c.free[t] + Locked(c.orders[t]) + Unseen(c.queue, t)
          /\ CalcExact(m)[t] = m.free[t] + Locked(m.orders[t]) + Unseen(m.queue, t)
      BY <1>12, ExactIsOwned
    <3>2. m.free[t] \in Nat /\ Locked(m.orders[t]) \in Nat /\ Unseen(m.queue, t) \in Nat
      BY Parts
    <3>3. Unseen(c.queue, t) = Unseen(m.queue, t) + IF t = s THEN 0 ELSE got
      BY <1>1, <1>10, <3>2
    <3>4. c.free[t] = m.free[t] /\ Locked(c.orders[t]) = Locked(m.orders[t]) - IF t = s THEN paid ELSE 0
      BY <1>9, <1>11
    <3>5. CASE t = s
      BY <1>3, <3>1, <3>2, <3>3, <3>4, <3>5, SMTT(30)
    <3>6. CASE t # s
      BY <1>3, <3>1, <3>2, <3>3, <3>4, <3>6
    <3> QED
      BY <3>5, <3>6
  <2>2. CalcExact(m)[s] \in Nat
    BY ExactIsOwned
  <2> QED
    BY <1>1, <1>3, <2>1, <2>2
<1>14. SlotsUsed(c) = SlotsUsed(m)
  <2> DEFINE a == Len(kept)
             b == Len(m.orders[Other(s)])
             d == Weight(FreesOf, m.queue)
             k == IF done THEN 1 ELSE 0
  <2>1. /\ a \in Nat /\ b \in Nat /\ d \in Nat /\ k \in Nat
        /\ SlotsUsed(m) = (a + k) + b + d
    BY <1>7, SlotsAre, LenProperties DEF orders
  <2>2. SlotsUsed(c) = a + b + (d + k)
    BY <1>9, <1>10, <1>12, SlotsAre
  <2> HIDE DEF a, b, d, k
  <2> QED
    BY <2>1, <2>2
<1> QED
  BY <1>9, <1>12, <1>13, <1>14 DEF c

(* The open orders account learns of a trade when its event is consumed;   *)
(* the pool is as rich before as after.                                    *)
LEMMA ConsumingIsSound ==
  ASSUME NEW m \in Sound, m.queue # <<>>
  PROVE  LET c == ConsumeHead(m) IN
           /\ c \in Sound /\ c.orders = m.orders
           /\ CalcExact(c) = CalcExact(m)
           /\ SlotsUsed(c) <= SlotsUsed(m)
           /\ \A s \in Side : m.free[s] <= c.free[s]
           /\ \A s \in Side : Unseen(m.queue, s) = 0 => Unseen(c.queue, s) = 0
<1> DEFINE e == Head(m.queue)
           queue == Tail(m.queue)
           got(t) == GotOf(t)[e]
           paid(t) == PaidOf(t)[e]
           total == Traded(m.total, e.side, e.paid, e.got)
           c == ConsumeHead(m)
<1>1. m \in Standing /\ m.queue \in Seq(Event) /\ m.free \in Amount /\ m.total \in Amount
      /\ m.orders \in [Side -> Seq(Order)]
  BY DEF Sound, Standing
<1>2. /\ e \in Event /\ queue \in Seq(Event)
      /\ Weight(FreesOf, m.queue) = FreesOf[e] + Weight(FreesOf, queue)
      /\ \A t \in Side : /\ Taken(m.queue, t) = paid(t) + Taken(queue, t)
                         /\ Unseen(m.queue, t) = got(t) + Unseen(queue, t)
  <2>1. ASSUME NEW w \in [Event -> Int]
        PROVE  e \in Event /\ queue \in Seq(Event) /\ Weight(w, m.queue) = w[e] + Weight(w, queue)
    BY <1>1, WeightTail
  <2> HIDE DEF e, queue
  <2> QED
    BY <2>1, WeightTypes DEF Taken, Unseen
<1>3. \A t \in Side : /\ paid(t) \in Nat /\ got(t) \in Nat /\ Taken(queue, t) \in Nat /\ Unseen(queue, t) \in Nat
                      /\ Weight(FreesOf, queue) \in Nat /\ FreesOf[e] \in Nat
  <2> HIDE DEF e, queue
  <2> QED
    BY <1>2, WeightTypes, WeightNat DEF Taken, Unseen
<1>4. ASSUME NEW t \in Side
      PROVE  /\ paid(t) = IF e.maker /\ e.side = t THEN e.paid ELSE 0
             /\ got(t) = IF e.maker /\ e.side # t THEN e.got ELSE 0
  BY <1>2 DEF PaidOf, GotOf
<1>5. e.side \in Side /\ e.got \in Nat /\ e.paid \in Nat /\ e.maker \in BOOLEAN
  BY <1>2 DEF Event
<1>6. /\ c = [free |-> c.free, total |-> c.total, orders |-> m.orders, queue |-> queue]
      /\ c.orders = m.orders /\ c.queue = queue
      /\ DOMAIN c.free = Side /\ c.free = [t \in Side |-> c.free[t]]
      /\ c.total = [t \in Side |-> c.total[t]]
      /\ \A t \in Side : c.free[t] = m.free[t] + got(t) /\ c.total[t] = m.total[t] + got(t) - paid(t)
  <2> DEFINE rest == [m EXCEPT !.queue = queue]
  <2> HIDE DEF e, queue, got, paid, total, c
  <2>1. rest = [free |-> m.free, total |-> m.total, orders |-> m.orders, queue |-> queue]
    BY <1>1 DEF Standing
  <2>2. \A t \in Side : m.free[t] \in Nat /\ m.total[t] \in Nat
    BY <1>1 DEF Amount
  <2>3. m.free = [t \in Side |-> m.free[t]] /\ m.total = [t \in Side |-> m.total[t]]
    BY <1>1 DEF Amount
  <2>4. CASE ~e.maker
    <3>1. c = rest
      BY <2>4 DEF c, ConsumeHead, e, queue
    <3>2. \A t \in Side : got(t) = 0 /\ paid(t) = 0
      BY <1>4, <2>4
    <3> HIDE DEF rest
    <3>3. c.free = m.free /\ c.total = m.total /\ c.orders = m.orders /\ c.queue = queue
      BY <2>1, <3>1
    <3>4. \A t \in Side : c.free[t] = m.free[t] + got(t) /\ c.total[t] = m.total[t] + got(t) - paid(t)
      <4> SUFFICES ASSUME NEW t \in Side
                   PROVE  c.free[t] = m.free[t] + got(t) /\ c.total[t] = m.total[t] + got(t) - paid(t)
        OBVIOUS
      <4>1. m.free[t] \in Nat /\ m.total[t] \in Nat /\ got(t) = 0 /\ paid(t) = 0
        BY <2>2, <3>2
      <4> QED
        BY <3>3, <4>1
    <3>5. c = [free |-> c.free, total |-> c.total, orders |-> m.orders, queue |-> queue]
      BY <2>1, <3>1
    <3> QED
      BY <2>3, <3>3, <3>4, <3>5
  <2>5. CASE e.maker
    <3> DEFINE free == [m.free EXCEPT ![Other(e.side)] = @ + e.got]
    <3>1. c = [rest EXCEPT !.total = Traded(@, e.side, e.paid, e.got), !.free[Other(e.side)] = @ + e.got]
      BY <2>5 DEF c, ConsumeHead, e, queue
    <3>2. rest.total = m.total /\ rest.free = m.free
      BY <2>1
    <3> HIDE DEF rest
    <3>3. c = [free |-> free, total |-> total, orders |-> m.orders, queue |-> queue]
      BY <2>1, <3>1, <3>2 DEF total
    <3>4. ASSUME NEW t \in Side
          PROVE  free[t] = m.free[t] + got(t) /\ total[t] = m.total[t] + got(t) - paid(t)
      <4>1. CASE t = e.side
        <5>1. got(t) = 0 /\ paid(t) = e.paid /\ Other(e.side) # t
          BY <1>4, <2>5, <4>1, OtherSide
        <5>2. free[t] = m.free[t] /\ total[t] = m.total[t] - e.paid
          BY <1>1, <4>1, <5>1 DEF total, Traded, Amount
        <5> QED
          BY <1>5, <2>2, <5>1, <5>2
      <4>2. CASE t # e.side
        <5>1. got(t) = e.got /\ paid(t) = 0 /\ Other(e.side) = t
          BY <1>4, <1>5, <2>5, <4>2 DEF Other, Side
        <5>2. free[t] = m.free[t] + e.got /\ total[t] = m.total[t] + e.got
          BY <1>1, <4>2, <5>1 DEF total, Traded, Amount
        <5> QED
          BY <1>5, <2>2, <5>1, <5>2
      <4> QED
        BY <4>1, <4>2
    <3>5. free = [t \in Side |-> free[t]] /\ total = [t \in Side |-> total[t]]
      BY <1>1 DEF total, Traded, Amount
    <3> HIDE DEF free, total
    <3>6. c.free = free /\ c.total = total /\ c.orders = m.orders /\ c.queue = queue
      BY <3>3
    <3> QED
      BY <3>3, <3>4, <3>5, <3>6
  <2> QED
    BY <1>5, <2>4, <2>5
<1> HIDE DEF e, queue, got, paid, total, c
<1>7. ASSUME NEW t \in Side
      PROVE  /\ c.total[t] = c.free[t] + Locked(c.orders[t]) + Taken(c.queue, t)
             /\ c.free[t] \in Nat /\ c.total[t] \in Nat /\ m.free[t] <= c.free[t]
             /\ c.free[t] + Unseen(c.queue, t) = m.free[t] + Unseen(m.queue, t)
  <2>1. m.free[t] \in Nat /\ Locked(m.orders[t]) \in Nat /\ Taken(m.queue, t) \in Nat
        /\ m.total[t] = m.free[t] + Locked(m.orders[t]) + Taken(m.queue, t)
    BY Parts
  <2>2. /\ c.free[t] = m.free[t] + got(t) /\ c.total[t] = m.total[t] + got(t) - paid(t)
        /\ c.orders[t] = m.orders[t]
        /\ Taken(m.queue, t) = paid(t) + Taken(c.queue, t) /\ Unseen(m.queue, t) = got(t) + Unseen(c.queue, t)
        /\ paid(t) \in Nat /\ got(t) \in Nat /\ Taken(c.queue, t) \in Nat /\ Unseen(c.queue, t) \in Nat
    BY <1>2, <1>3, <1>6
  <2>3. Locked(c.orders[t]) = Locked(m.orders[t])
    BY <2>2
  <2>4. c.total[t] = c.free[t] + Locked(c.orders[t]) + Taken(c.queue, t)
    BY <2>1, <2>2, <2>3
  <2>5. c.free[t] \in Nat /\ m.free[t] <= c.free[t] /\ Locked(c.orders[t]) \in Nat
    <3>1. c.free[t] = m.free[t] + got(t) /\ got(t) \in Nat /\ m.free[t] \in Nat
      BY <2>1, <2>2
    <3> HIDE DEF got
    <3>2. c.free[t] \in Nat /\ m.free[t] <= c.free[t]
      BY <3>1
    <3> QED
      BY <2>1, <2>3, <3>2
  <2>6. c.total[t] \in Nat
    BY <2>2, <2>4, <2>5
  <2>7. c.free[t] + Unseen(c.queue, t) = m.free[t] + Unseen(m.queue, t)
    BY <2>1, <2>2
  <2> QED
    BY <2>4, <2>5, <2>6, <2>7
<1>8. c.free \in Amount /\ c.total \in Amount
  BY <1>6, <1>7 DEF Amount
<1>9. c \in Sound
  BY <1>1, <1>2, <1>6, <1>7, <1>8 DEF Sound, Balanced, Standing
<1>10. CalcExact(c) = CalcExact(m)
  <2> SUFFICES ASSUME NEW t \in Side PROVE CalcExact(c)[t] = CalcExact(m)[t]
    BY SameExact
  <2>1. /\ CalcExact(c)[t] = c.free[t] + Locked(c.orders[t]) + Unseen(c.queue, t)
        /\ CalcExact(m)[t] = m.free[t] + Locked(m.orders[t]) + Unseen(m.queue, t)
    BY <1>9, ExactIsOwned
  <2>2. /\ m.free[t] \in Nat /\ Locked(m.orders[t]) \in Nat /\ Unseen(m.queue, t) \in Nat
        /\ c.free[t] \in Nat /\ Unseen(c.queue, t) \in Nat /\ c.orders[t] = m.orders[t]
    BY <1>6, <1>9, Parts
  <2>3. Unseen(m.queue, t) \in Nat /\ c.free[t] + Unseen(c.queue, t) = m.free[t] + Unseen(m.queue, t)
    BY <1>7, <2>2
  <2> DEFINE locked == Locked(m.orders[t])
             p == Unseen(c.queue, t)
             q == Unseen(m.queue, t)
             f == m.free[t]
             g == c.free[t]
  <2>4. /\ locked \in Nat /\ p \in Nat /\ q \in Nat /\ f \in Nat /\ g \in Nat
        /\ g + p = f + q /\ CalcExact(c)[t] = g + locked + p /\ CalcExact(m)[t] = f + locked + q
    BY <2>1, <2>2, <2>3
  <2> HIDE DEF locked, p, q, f, g
  <2> QED
    BY <2>4
<1>11. SlotsUsed(c) <= SlotsUsed(m)
  <2> DEFINE a == Len(m.orders["coin"])
             b == Len(m.orders["pc"])
             d == Weight(FreesOf, queue)
  <2>1. "coin" \in Side /\ Other("coin") = "pc"
    BY DEF Side, Other
  <2>2. a \in Nat /\ b \in Nat /\ d \in Nat /\ FreesOf[e] \in Nat
    BY <1>3, <2>1, SlotsAre
  <2>3. SlotsUsed(m) = a + b + (FreesOf[e] + d)
    BY <1>2, <2>1, SlotsAre
  <2>4. SlotsUsed(c) = a + b + d
    <3>1. SlotsUsed(c) = Len(c.orders["coin"]) + Len(c.orders["pc"]) + Weight(FreesOf, c.queue)
      BY <1>9, <2>1, SlotsAre
    <3> QED
      BY <1>6, <3>1
  <2> HIDE DEF a, b, d
  <2> QED
    BY <2>2, <2>3, <2>4
<1>12. \A s \in Side : Unseen(m.queue, s) = 0 => Unseen(c.queue, s) = 0
  BY <1>2, <1>3, <1>6
<1> QED
  BY <1>6, <1>7, <1>9, <1>10, <1>11, <1>12 DEF c

(* Replacing the client order ids of the target leaves the orders alone.   *)
LEMMA UnlistingIsSound ==
  ASSUME NEW m \in Sound
  PROVE  LET c == [m EXCEPT !.orders =
                     [s \in Side |-> [i \in DOMAIN @[s] |-> [@[s][i] EXCEPT !.listed = FALSE]]]]
         IN /\ c \in Sound /\ c.free = m.free /\ c.total = m.total /\ CalcExact(c) = CalcExact(m)
            /\ SlotsUsed(c) = SlotsUsed(m) /\ c.queue = m.queue
<1> DEFINE un(orders) == [i \in DOMAIN orders |-> [orders[i] EXCEPT !.listed = FALSE]]
           all == [s \in Side |-> un(m.orders[s])]
           c == [m EXCEPT !.orders = all]
<1>1. m \in Standing
  BY DEF Sound
<1>2. ASSUME NEW orders \in Seq(Order)
      PROVE  /\ un(orders) \in Seq(Order) /\ Len(un(orders)) = Len(orders)
             /\ Locked(un(orders)) = Locked(orders)
  <2>1. DOMAIN orders = 1 .. Len(orders) /\ Len(orders) \in Nat /\ \A i \in DOMAIN orders : orders[i] \in Order
    BY ElementOfSeq, LenProperties
  <2>2. \A i \in DOMAIN orders : un(orders)[i] \in Order /\ un(orders)[i].lock = orders[i].lock
    <3> SUFFICES ASSUME NEW i \in DOMAIN orders
                 PROVE  un(orders)[i] \in Order /\ un(orders)[i].lock = orders[i].lock
      OBVIOUS
    <3>1. un(orders)[i] = [orders[i] EXCEPT !.listed = FALSE]
      OBVIOUS
    <3> HIDE DEF un
    <3> QED
      BY <2>1, <3>1 DEF Order
  <2>3. DOMAIN un(orders) = DOMAIN orders /\ un(orders) = [i \in 1 .. Len(orders) |-> un(orders)[i]]
    BY <2>1
  <2> HIDE DEF un
  <2>4. un(orders) \in Seq(Order) /\ Len(un(orders)) = Len(orders)
    BY <2>1, <2>2, <2>3, IsASeq
  <2>5. [i \in DOMAIN orders |-> orders[i].lock] = [i \in DOMAIN un(orders) |-> un(orders)[i].lock]
    BY <2>2, <2>3
  <2> QED
    BY <2>4, <2>5 DEF Locked, SumBy
<1>3. c = [free |-> m.free, total |-> m.total, orders |-> all, queue |-> m.queue]
  <2> HIDE DEF all
  <2> QED
    BY <1>1 DEF Standing
<1>4. \A s \in Side : all[s] = un(m.orders[s]) /\ m.orders[s] \in Seq(Order)
  BY Parts
<1>5. all = [s \in Side |-> all[s]]
  OBVIOUS
<1> HIDE DEF un, all, c
<1>6. c.free = m.free /\ c.total = m.total /\ c.orders = all /\ c.queue = m.queue
  BY <1>3
<1>7. \A s \in Side : /\ all[s] \in Seq(Order) /\ Locked(all[s]) = Locked(m.orders[s])
                      /\ Len(all[s]) = Len(m.orders[s])
  BY <1>2, <1>4
<1>8. c \in Sound
  <2>1. c \in Standing
    BY <1>1, <1>3, <1>5, <1>7 DEF Standing
  <2>2. Balanced(m)
    BY DEF Sound
  <2> QED
    BY <1>6, <1>7, <2>1, <2>2 DEF Sound, Balanced
<1>9. CalcExact(c) = CalcExact(m)
  BY <1>6 DEF CalcExact
<1>10. SlotsUsed(c) = SlotsUsed(m)
  BY <1>6, <1>7 DEF SlotsUsed, Side
<1> QED
  BY <1>6, <1>8, <1>9, <1>10 DEF c, all, un
-----------------------------------------------------------------------------
(* A trade with the pool brings it something: what is taken from its       *)
(* orders shows in the queue as something owed to it.                      *)

Gainful(queue) == \A i \in 1 .. Len(queue) : queue[i].maker => queue[i].got # 0

LEMMA GainfulConcat ==
  ASSUME NEW queue \in Seq(Event), NEW more \in Seq(Event), Gainful(queue), Gainful(more)
  PROVE  Gainful(queue \o more)
<1> DEFINE both == queue \o more
<1>1. ASSUME NEW i \in 1 .. Len(both), both[i].maker PROVE both[i].got # 0
  <2>1. /\ Len(queue) \in Nat /\ Len(more) \in Nat /\ Len(both) = Len(queue) + Len(more)
        /\ both[i] = IF i <= Len(queue) THEN queue[i] ELSE more[i - Len(queue)]
    BY ConcatProperties, LenProperties
  <2>2. CASE i <= Len(queue)
    <3>1. i \in 1 .. Len(queue) /\ both[i] = queue[i]
      BY <2>1, <2>2
    <3> QED
      BY <1>1, <3>1 DEF Gainful
  <2>3. CASE i > Len(queue)
    <3>1. i - Len(queue) \in 1 .. Len(more) /\ both[i] = more[i - Len(queue)]
      BY <2>1, <2>3
    <3> QED
      BY <1>1, <3>1 DEF Gainful
  <2> QED
    BY <2>1, <2>2, <2>3
<1> HIDE DEF both
<1>2. Gainful(both)
  BY <1>1 DEF Gainful
<1> QED
  BY <1>2 DEF both

LEMMA GainfulAppend ==
  ASSUME NEW queue \in Seq(Event), NEW e \in Event, Gainful(queue), e.maker => e.got # 0
  PROVE  Gainful(Append(queue, e))
<1>1. <<e>> \in Seq(Event) /\ Len(<<e>>) = 1 /\ <<e>>[1] = e
  OBVIOUS
<1>2. Gainful(<<e>>)
  BY <1>1 DEF Gainful
<1>3. Append(queue, e) = queue \o <<e>>
  BY AppendIsConcat
<1> QED
  BY <1>1, <1>2, <1>3, GainfulConcat

(* Cancelled orders leave events of no trade. *)
LEMMA CancellingIsGainful ==
  ASSUME NEW m \in Sound, NEW s \in Side, Gainful(m.queue)
  PROVE  /\ \A n \in Nat : Gainful(CancelAfter(m, s, n).queue)
         /\ \A i \in 1 .. Len(m.orders[s]) : Gainful(CancelAt(m, s, i).queue)
<1>1. m \in Standing /\ m.queue \in Seq(Event) /\ m.orders[s] \in Seq(Order)
  BY Parts
<1>2. OutEvent \in Event /\ ~OutEvent.maker
  BY DEF OutEvent, Event, Side
<1>3. ASSUME NEW n \in Nat PROVE Gainful(CancelAfter(m, s, n).queue)
  <2> DEFINE kept == Min({n, Len(m.orders[s])})
             gone == SubSeq(m.orders[s], kept + 1, Len(m.orders[s]))
             outs == [i \in 1 .. Len(gone) |-> OutEvent]
  <2>1. Len(m.orders[s]) \in Nat
    BY <1>1, LenProperties
  <2>2. kept \in 0 .. Len(m.orders[s])
    BY <2>1 DEF Min
  <2>3. gone \in Seq(Order)
    <3> HIDE DEF kept
    <3> QED
      BY <1>1, <2>1, <2>2, WeightSplit, WeightTypes
  <2>4. Len(gone) \in Nat
    <3> HIDE DEF gone
    <3> QED
      BY <2>3, LenProperties
  <2> HIDE DEF gone
  <2>5. outs \in Seq(Event) /\ Len(outs) = Len(gone)
    BY <1>2, <2>4, IsASeq, LenProperties
  <2>6. Gainful(outs)
    BY <1>2, <2>5 DEF Gainful
  <2>7. CancelAfter(m, s, n).queue = m.queue \o outs
    BY <1>1 DEF CancelAfter, Standing, gone
  <2> HIDE DEF outs
  <2> QED
    BY <1>1, <2>5, <2>6, <2>7, GainfulConcat
<1>4. ASSUME NEW i \in 1 .. Len(m.orders[s]) PROVE Gainful(CancelAt(m, s, i).queue)
  <2>1. CancelAt(m, s, i).queue = Append(m.queue, OutEvent)
    BY <1>1 DEF CancelAt, Standing
  <2> QED
    BY <1>1, <1>2, <2>1, GainfulAppend
<1> QED
  BY <1>3, <1>4

LEMMA CancelBothIsGainful ==
  ASSUME NEW m \in Sound, Gainful(m.queue)
  PROVE  Gainful(CancelBoth(m).queue)
<1> DEFINE a == CancelAfter(m, "coin", 0)
<1>1. "coin" \in Side /\ "pc" \in Side /\ 0 \in Nat
  BY DEF Side
<1>2. a \in Sound
  BY <1>1, CancelAfterUnlocks DEF OnlyUnlocks
<1>3. Gainful(a.queue)
  BY <1>1, CancellingIsGainful
<1> HIDE DEF a
<1>4. Gainful(CancelAfter(a, "pc", 0).queue)
  BY <1>1, <1>2, <1>3, CancellingIsGainful
<1> QED
  BY <1>4 DEF CancelBoth, a

LEMMA TradingIsGainful ==
  ASSUME NEW m \in Sound, NEW s \in Side, NEW lock \in Nat, NEW got \in Nat, Gainful(m.queue)
  PROVE  Gainful(Trade(Funded(m, s, lock), s, lock, got).queue)
<1> DEFINE f == Funded(m, s, lock)
           e == [maker |-> FALSE, side |-> s, paid |-> lock, got |-> got, frees |-> FALSE]
<1>1. f \in Standing /\ f.queue = m.queue /\ m.queue \in Seq(Event)
  BY Funding, Parts
<1> HIDE DEF f
<1>2. e \in Event /\ ~e.maker
  BY DEF Event
<1>3. Trade(f, s, lock, got).queue = Append(m.queue, e)
  BY <1>1 DEF Trade, Standing
<1> HIDE DEF e
<1>4. Gainful(Append(m.queue, e))
  BY <1>1, <1>2, GainfulAppend
<1> QED
  BY <1>3, <1>4 DEF f

LEMMA TakingIsGainful ==
  ASSUME NEW m \in Sound, NEW s \in Side, NEW paid \in Nat, NEW got \in Nat \ {0}, Gainful(m.queue)
  PROVE  Gainful(Take(m, s, paid, got).queue)
<1> DEFINE done == paid = m.orders[s][1].lock
           e == [maker |-> TRUE, side |-> s, paid |-> paid, got |-> got, frees |-> done]
<1>1. m \in Standing /\ m.queue \in Seq(Event)
  BY Parts
<1>2. e \in Event /\ e.got # 0
  BY DEF Event
<1>3. Take(m, s, paid, got).queue = Append(m.queue, e)
  BY <1>1 DEF Take, Standing
<1> HIDE DEF e
<1> QED
  BY <1>1, <1>2, <1>3, GainfulAppend

LEMMA ConsumingIsGainful ==
  ASSUME NEW m \in Sound, m.queue # <<>>, Gainful(m.queue)
  PROVE  Gainful(ConsumeHead(m).queue)
<1> DEFINE queue == m.queue
           rest == Tail(queue)
<1>1. m \in Standing /\ queue \in Seq(Event) /\ queue # <<>>
  BY DEF Sound, Standing
<1> HIDE DEF queue
<1>2. /\ rest \in Seq(Event) /\ Len(rest) = Len(queue) - 1 /\ Len(queue) \in Nat
      /\ \A i \in 1 .. Len(rest) : rest[i] = queue[i + 1]
  BY <1>1, HeadTailProperties, LenProperties
<1>3. ConsumeHead(m).queue = rest
  BY <1>1 DEF ConsumeHead, Standing, queue
<1>4. ASSUME NEW i \in 1 .. Len(rest), rest[i].maker PROVE rest[i].got # 0
  <2>1. i + 1 \in 1 .. Len(queue) /\ rest[i] = queue[i + 1]
    BY <1>2
  <2> QED
    BY <1>4, <2>1 DEF Gainful, queue
<1> HIDE DEF rest
<1>5. Gainful(rest)
  BY <1>4 DEF Gainful
<1> QED
  BY <1>3, <1>5

(* A standing in which the pool owns nothing is empty: no orders and, with *)
(* nothing owed for them, no trades either.                                *)
LEMMA WorthlessIsEmpty ==
  ASSUME NEW m \in Sound, Gainful(m.queue), CalcExact(m) = Zero
  PROVE  m.total = Zero /\ m.orders = NoOrders /\ m.free = Zero
<1>1. m \in Standing
  BY DEF Sound
<1>2. ASSUME NEW s \in Side
      PROVE  m.free[s] = 0 /\ Locked(m.orders[s]) = 0 /\ Unseen(m.queue, s) = 0
  <2>1. CalcExact(m)[s] = 0
    BY DEF Zero
  <2>2. /\ CalcExact(m)[s] = m.free[s] + Locked(m.orders[s]) + Unseen(m.queue, s)
        /\ m.free[s] \in Nat /\ Locked(m.orders[s]) \in Nat /\ Unseen(m.queue, s) \in Nat
    BY ExactIsOwned, Parts
  <2> QED
    BY <2>1, <2>2
<1>3. m.queue \in Seq(Event)
  BY <1>1 DEF Standing
<1>4. ASSUME NEW i \in 1 .. Len(m.queue) PROVE ~m.queue[i].maker
  <2> DEFINE e == m.queue[i]
             t == Other(e.side)
  <2>1. e \in Event
    BY <1>3, ElementOfSeq
  <2> HIDE DEF e
  <2>2. e.side \in Side
    BY <2>1 DEF Event
  <2>3. t \in Side /\ t # e.side
    BY <2>2, OtherSide
  <2> HIDE DEF t
  <2>4. GotOf(t) \in [Event -> Nat] /\ Weight(GotOf(t), m.queue) = 0
    BY <1>2, <2>3, WeightTypes DEF Unseen
  <2>5. GotOf(t)[e] <= 0 /\ GotOf(t)[e] \in Nat
    BY <1>3, <2>1, <2>4, WeightNat DEF e
  <2>6. e.maker => GotOf(t)[e] = e.got
    BY <2>1, <2>3 DEF GotOf
  <2>7. e.maker => e.got # 0
    BY DEF Gainful, e
  <2> QED
    BY <2>5, <2>6, <2>7 DEF e
<1>5. ASSUME NEW s \in Side PROVE Taken(m.queue, s) = 0
  <2>1. ASSUME NEW i \in 1 .. Len(m.queue) PROVE PaidOf(s)[m.queue[i]] = 0
    <3>1. m.queue[i] \in Event /\ ~m.queue[i].maker
      BY <1>3, <1>4, ElementOfSeq
    <3> QED
      BY <3>1 DEF PaidOf
  <2>2. PaidOf(s) \in [Event -> Int]
    BY WeightTypes
  <2>3. Weight(PaidOf(s), m.queue) = 0 * Len(m.queue)
    BY <1>3, <2>1, <2>2, WeightConstant
  <2> QED
    BY <1>3, <2>3, LenProperties DEF Taken
<1>6. ASSUME NEW s \in Side PROVE m.orders[s] = <<>>
  <2> SUFFICES ASSUME m.orders[s] # <<>> PROVE FALSE
    OBVIOUS
  <2> DEFINE orders == m.orders[s]
  <2>1. orders \in Seq(Order) /\ orders # <<>> /\ Weight(LockOf, orders) = 0
    BY <1>2, Parts, LockedIsWeight
  <2> HIDE DEF orders
  <2>2. 1 \in 1 .. Len(orders)
    BY <2>1, EmptySeq, LenProperties
  <2>3. orders[1] \in Order
    BY <2>1, <2>2, ElementOfSeq
  <2>4. LockOf[orders[1]] <= 0
    BY <2>1, <2>2, WeightNat, WeightTypes
  <2> QED
    BY <2>3, <2>4 DEF LockOf, Order
<1>7. ASSUME NEW s \in Side PROVE m.total[s] = 0
  <2>1. m.total[s] = m.free[s] + Locked(m.orders[s]) + Taken(m.queue, s)
    BY Parts
  <2> QED
    BY <1>2, <1>5, <2>1
<1> QED
  BY <1>1, <1>2, <1>6, <1>7 DEF Standing, Amount, Zero, NoOrders
=============================================================================

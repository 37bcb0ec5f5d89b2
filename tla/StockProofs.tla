---------------------------- MODULE StockProofs ----------------------------
(***************************************************************************)
(* Proofs about Stock: its type invariant, that an item's quantity is what *)
(* its log says, and that a line of a sale is taken from stock once per    *)
(* payment.                                                                *)
(*                                                                         *)
(* The quantity: an adjustment that finds the quantity it was computed     *)
(* from writes what replaying the longer log gives.  The sales: for every  *)
(* line of an order, the log entries of it and the requests that still     *)
(* have it before them are at most as many as the order's payments, and    *)
(* exactly as many while nothing was missed.                               *)
(***************************************************************************)
EXTENDS Stock, Folding, SequenceTheorems

Entries == [order : SaleOrders \cup {Null}, line : Nat, delta : Int]

StockRecords == [state : {"absent", "live", "gone"}, quantity : Int, dish : StockDishes \cup {Null}]

StockCallRecords ==
  [at : {"idle", "adjust", "pay", "find", "read"}, item : StockItems \cup {Null}, read : Int,
   delta : Int, order : SaleOrders \cup {Null}, line : Nat]

\* The points of a checkout after its payment.
TakingPoints == {"find", "read", "adjust"}

\* Whose request this is, and how far a checkout may be.
SaneCall(k) ==
  /\ k.at = "idle" => k = FreeCall
  /\ k.at = "pay" => k.order \in SaleOrders /\ k.line = 0
  /\ k.at \in {"find", "read"} => k.order \in SaleOrders
  /\ k.at \in {"read", "adjust"} => k.item \in StockItems
  /\ k.at \in TakingPoints => IF k.order = Null THEN k.line = 0 ELSE k.line > 0

StockTyped ==
  /\ stock \in [StockItems -> StockRecords]
  /\ adjustments \in [StockItems -> Seq(Entries)]
  /\ sales \in [SaleOrders -> Nat]
  /\ stockCalls \in [StockCalls -> StockCallRecords]
  /\ counted \in [StockItems -> [quantity : Int, upto : Nat]]
  /\ drifted \in [StockItems -> BOOLEAN]
  /\ missed \in BOOLEAN

CallsSane == \A c \in StockCalls : SaneCall(stockCalls[c])

CountsWithinLogs == \A i \in StockItems : counted[i].upto <= Len(adjustments[i])

OneItemPerDish == \A i, j \in StockRows : stock[i].dish = stock[j].dish /\ stock[i].dish # Null => i = j

\* The requests that have line n of order o still before them.
Takes(k, o, n) == k.at \in TakingPoints /\ k.order = o /\ k.line <= n
Taking(o, n) == {c \in StockCalls : Takes(stockCalls[c], o, n)}

\* taken entries and taking requests for so many payments.
Balanced(taken, taking, payments, lost) ==
  /\ IsFiniteSet(taken) /\ IsFiniteSet(taking)
  /\ Cardinality(taken) + Cardinality(taking) <= payments
  /\ ~lost => Cardinality(taken) + Cardinality(taking) = payments

SalesBalanced ==
  \A o \in SaleOrders : \A n \in DOMAIN SaleLines[o] :
    Balanced(EntriesOf(o, n), Taking(o, n), sales[o], missed)

StockInv ==
  /\ StockTyped
  /\ CallsSane
  /\ CountsWithinLogs
  /\ OneItemPerDish
  /\ QuantityIsLogged
  /\ SalesBalanced

-----------------------------------------------------------------------------
\* Replaying a log.

\* One step of the replay: what entry j of the log makes of a quantity.
Steps(log) == [j \in 1..Len(log) |-> [v \in Int |-> NewQuantity(v, log[j].delta)]]

\* The replay of the community module's fold is the left fold of these steps.
LEMMA ReplayIsFold ==
  ASSUME NEW q \in Int, NEW log \in Seq(Entries)
  PROVE  \E g \in [SUBSET (1..Len(log)) -> Int] :
           IsLeftFold(Len(log), q, Steps(log), g) /\ Replayed(q, log) = g[1..Len(log)]
<1>1. PICK n \in Nat : n = Len(log) /\ DOMAIN log = 1..n
  BY LenProperties
<1>2. \A j \in 1..n : log[j].delta \in Int
  <2>1. \A j \in 1..n : log[j] \in Entries
    BY <1>1, ElementOfSeq
  <2> QED
    BY <2>1 DEF Entries
<1>3. \A j \in 1..n : \A v \in Int : NewQuantity(v, log[j].delta) \in Int
  BY <1>2 DEF NewQuantity
<1>4. \A j \in 1..n : \A v \in Int : Steps(log)[j][v] = NewQuantity(v, log[j].delta)
  BY <1>1 DEF Steps
<1>5. PICK g \in [SUBSET (1..n) -> Int] : IsLeftFold(n, q, Steps(log), g)
  <2>1. \A j \in 1..n : \A v \in Int : Steps(log)[j][v] \in Int
    BY <1>3, <1>4
  <2> QED
    BY <2>1, LeftFoldExists
<1>6. \A s \in SUBSET (1..n) : s # {} => Max(s) \in 1..n
  BY MaxIn
<1>7. PICK D : D = DOMAIN log
  OBVIOUS
<1> DEFINE iter == CHOOSE it : it = [s \in SUBSET D |->
                     IF s = {} THEN q
                     ELSE IF it[s \ {Max(s)}] + log[Max(s)].delta < 0 THEN 0
                          ELSE it[s \ {Max(s)}] + log[Max(s)].delta]
<1>8. \A s \in SUBSET (1..n) : s # {} =>
        Steps(log)[Max(s)][g[s \ {Max(s)}]] =
          IF g[s \ {Max(s)}] + log[Max(s)].delta < 0 THEN 0
          ELSE g[s \ {Max(s)}] + log[Max(s)].delta
  <2> SUFFICES ASSUME NEW s \in SUBSET (1..n), s # {}
               PROVE  Steps(log)[Max(s)][g[s \ {Max(s)}]] =
                        NewQuantity(g[s \ {Max(s)}], log[Max(s)].delta)
    BY DEF NewQuantity
  <2>1. g[s \ {Max(s)}] \in Int /\ Max(s) \in 1..n
    BY <1>6
  <2> QED
    BY <1>4, <2>1
<1>9. g = [s \in SUBSET D |->
             IF s = {} THEN q
             ELSE IF g[s \ {Max(s)}] + log[Max(s)].delta < 0 THEN 0
                  ELSE g[s \ {Max(s)}] + log[Max(s)].delta]
  BY <1>1, <1>5, <1>7, <1>8 DEF IsLeftFold
<1>10. iter = [s \in SUBSET D |->
                IF s = {} THEN q
                ELSE IF iter[s \ {Max(s)}] + log[Max(s)].delta < 0 THEN 0
                     ELSE iter[s \ {Max(s)}] + log[Max(s)].delta]
  BY <1>9
<1>11. Replayed(q, log) = iter[D]
  BY <1>7 DEF Replayed, FoldLeft, MapThenFoldSet
<1> HIDE DEF iter
<1>12. \A s \in SUBSET (1..n) : iter[s] = g[s]
  <2> DEFINE Good == {s \in SUBSET (1..n) : iter[s] = g[s]}
  <2>1. PICK E : E = 1..n
    OBVIOUS
  <2>2. IsFiniteSet(E)
    BY <2>1, FS_Interval
  <2>3. ASSUME NEW T \in SUBSET E, \A U \in SUBSET T : U # T => U \in Good
        PROVE  T \in Good
    <3>1. CASE T = {}
      BY <1>1, <1>7, <1>9, <1>10, <2>1, <3>1
    <3>2. CASE T # {}
      <4>1. Max(T) \in T /\ T \ {Max(T)} \in Good
        BY <2>1, <2>3, <3>2, MaxIn
      <4> QED
        BY <1>1, <1>7, <1>9, <1>10, <2>1, <3>2, <4>1
    <3> QED
      BY <3>1, <3>2
  <2>4. SUBSET E \subseteq Good
    <3> HIDE DEF Good
    <3> QED
      BY <2>2, <2>3, SubsetInduction
  <2> QED
    BY <2>1, <2>4
<1> QED
  BY <1>1, <1>5, <1>7, <1>11, <1>12

\* An empty log leaves the count as it is.
LEMMA ReplayOfNothing == \A q \in Int : Replayed(q, << >>) = q
<1> SUFFICES ASSUME NEW q \in Int PROVE Replayed(q, << >>) = q
  OBVIOUS
<1>1. << >> \in Seq(Entries) /\ Len(<< >>) = 0 /\ 1..0 = {}
  OBVIOUS
<1>2. PICK g : IsLeftFold(0, q, Steps(<< >>), g) /\ Replayed(q, << >>) = g[{}]
  BY <1>1, ReplayIsFold, ZenonT(60)
<1> QED
  BY <1>2 DEF IsLeftFold

\* One entry more changes what is replayed as an adjustment does.
LEMMA ReplayOfOneMore ==
  ASSUME NEW q \in Int, NEW log \in Seq(Entries), NEW entry \in Entries
  PROVE  /\ Replayed(q, log) \in Int
         /\ Replayed(q, Append(log, entry)) = NewQuantity(Replayed(q, log), entry.delta)
<1>1. PICK n \in Nat : n = Len(log)
  BY LenProperties
<1>2. PICK more : more = Append(log, entry)
  OBVIOUS
<1>m. /\ more \in Seq(Entries) /\ Len(more) = n + 1 /\ more[n + 1] = entry
      /\ \A j \in 1..n : more[j] = log[j]
  BY <1>1, <1>2, AppendProperties
<1>3. PICK g \in [SUBSET (1..n) -> Int] :
        IsLeftFold(n, q, Steps(log), g) /\ Replayed(q, log) = g[1..n]
  BY <1>1, ReplayIsFold
<1>4. PICK h : /\ IsLeftFold(n + 1, q, Steps(more), h)
               /\ Replayed(q, more) = h[1..(n + 1)]
  <2>1. PICK k : k = n + 1
    OBVIOUS
  <2>2. more \in Seq(Entries) /\ Len(more) = k
    BY <1>m, <2>1
  <2>3. \E h : IsLeftFold(k, q, Steps(more), h) /\ Replayed(q, more) = h[1..k]
    BY <2>2, ReplayIsFold
  <2> QED
    BY <2>1, <2>3
<1>5. \A j \in 1..n : Steps(more)[j] = Steps(log)[j]
  BY <1>1, <1>m DEF Steps
<1>6. Steps(more)[n + 1] = [v \in Int |-> NewQuantity(v, entry.delta)]
  BY <1>m DEF Steps
<1>7. g[1..n] \in Int
  BY <1>3
<1>8. h[1..(n + 1)] = Steps(more)[n + 1][g[1..n]]
  BY <1>3, <1>4, <1>5, LeftFoldExtends
<1> QED
  BY <1>2, <1>3, <1>4, <1>6, <1>7, <1>8

\* What SubSeq gives, counted from the position before its first one.
LEMMA PartOf ==
  ASSUME NEW log, NEW upto \in Nat, NEW n \in Nat, NEW w \in Nat, w = n - upto,
         \A j \in (upto + 1)..n : log[j] \in Entries
  PROVE  /\ SubSeq(log, upto + 1, n) \in Seq(Entries)
         /\ Len(SubSeq(log, upto + 1, n)) = w
         /\ \A j \in 1..w : SubSeq(log, upto + 1, n)[j] = log[upto + j]
<1>1. PICK m \in Int : m = upto + 1
  OBVIOUS
<1>2. n \in Int /\ \A j \in m..n : log[j] \in Entries
  BY <1>1
<1>3. /\ SubSeq(log, m, n) \in Seq(Entries)
      /\ Len(SubSeq(log, m, n)) = IF m <= n THEN n - m + 1 ELSE 0
      /\ \A j \in 1..(n - m + 1) : SubSeq(log, m, n)[j] = log[m + j - 1]
  <2> HIDE DEF Entries
  <2> QED
    BY <1>2, SubSeqProperties
<1>4. n - m + 1 = w /\ (IF m <= n THEN n - m + 1 ELSE 0) = w
  BY <1>1
<1>5. \A j \in 1..w : m + j - 1 = upto + j
  BY <1>1
<1> QED
  BY <1>1, <1>3, <1>4, <1>5

\* The part of a log from one position on, after one entry more.
LEMMA SinceCount ==
  ASSUME NEW log \in Seq(Entries), NEW upto \in Nat, upto <= Len(log), NEW entry \in Entries
  PROVE  /\ SubSeq(log, upto + 1, Len(log)) \in Seq(Entries)
         /\ SubSeq(Append(log, entry), upto + 1, Len(Append(log, entry)))
              = Append(SubSeq(log, upto + 1, Len(log)), entry)
<1>1. PICK n \in Nat : n = Len(log)
  BY LenProperties
<1>w. PICK w \in Nat : w = n - upto
  <2>1. n - upto \in Nat
    BY <1>1
  <2> QED
    BY <2>1
<1>2. PICK more : more = Append(log, entry)
  OBVIOUS
<1>m. /\ more \in Seq(Entries) /\ Len(more) = n + 1 /\ more[n + 1] = entry
      /\ \A j \in 1..n : more[j] = log[j]
  BY <1>1, <1>2, AppendProperties
<1>3. \A j \in (upto + 1)..n : log[j] \in Entries
  <2>1. \A j \in 1..n : log[j] \in Entries
    BY <1>1, ElementOfSeq
  <2> QED
    BY <2>1
<1>4. \A j \in (upto + 1)..(n + 1) : more[j] \in Entries
  <2>1. \A j \in 1..(n + 1) : more[j] \in Entries
    BY <1>m, ElementOfSeq
  <2> QED
    BY <2>1
<1>c. PICK old, new : old = SubSeq(log, upto + 1, n) /\ new = SubSeq(more, upto + 1, n + 1)
  OBVIOUS
<1>5. /\ old \in Seq(Entries) /\ Len(old) = w
      /\ \A j \in 1..w : old[j] = log[upto + j]
  BY <1>3, <1>w, <1>c, PartOf
<1>6. /\ new \in Seq(Entries) /\ Len(new) = w + 1
      /\ \A j \in 1..(w + 1) : new[j] = more[upto + j]
  <2>1. PICK k \in Nat : k = n + 1
    OBVIOUS
  <2>2. PICK v \in Nat : v = w + 1 /\ v = k - upto
    BY <1>w, <2>1
  <2>3. \A j \in (upto + 1)..k : more[j] \in Entries
    BY <1>4, <2>1
  <2>4. new = SubSeq(more, upto + 1, k)
    BY <1>c, <2>1
  <2>5. new \in Seq(Entries) /\ Len(new) = v /\ \A j \in 1..v : new[j] = more[upto + j]
    BY <2>2, <2>3, <2>4, PartOf
  <2> QED
    BY <2>2, <2>5
<1>l. PICK longer : longer = Append(old, entry)
  OBVIOUS
<1>7. /\ longer \in Seq(Entries) /\ Len(longer) = w + 1 /\ longer[w + 1] = entry
      /\ \A j \in 1..w : longer[j] = old[j]
  BY <1>5, <1>l, AppendProperties
<1>8. new = longer
  <2>1. Len(new) = Len(longer) /\ Len(new) = w + 1
    BY <1>6, <1>7
  <2>2. ASSUME NEW j \in 1..(w + 1) PROVE new[j] = longer[j]
    <3>1. CASE j = w + 1
      <4>1. upto + j = n + 1
        BY <1>1, <1>w, <3>1
      <4> QED
        BY <1>m, <1>6, <1>7, <3>1, <4>1
    <3>2. CASE j # w + 1
      <4>1. j \in 1..w
        BY <3>2
      <4>2. upto + j \in 1..n
        BY <1>w, <4>1
      <4> QED
        BY <1>m, <1>5, <1>6, <1>7, <4>1, <4>2
    <3> QED
      BY <3>1, <3>2
  <2>3. new \in Seq(Entries) /\ longer \in Seq(Entries) /\ \A j \in 1..Len(new) : new[j] = longer[j]
    BY <1>6, <1>7, <2>1, <2>2
  <2> QED
    BY <2>1, <2>3, SeqEqual
<1> QED
  BY <1>1, <1>2, <1>m, <1>c, <1>5, <1>l, <1>8

-----------------------------------------------------------------------------
\* Entries and requests, counted.

\* Both sets are finite, in every state.
LEMMA Finite ==
  \A o, n : /\ IsFiniteSet(EntriesOf(o, n)) /\ IsFiniteSet(Taking(o, n))
            /\ Cardinality(EntriesOf(o, n)) \in Nat /\ Cardinality(Taking(o, n)) \in Nat
<1> SUFFICES ASSUME NEW o, NEW n
             PROVE  /\ IsFiniteSet(EntriesOf(o, n)) /\ IsFiniteSet(Taking(o, n))
                    /\ Cardinality(EntriesOf(o, n)) \in Nat /\ Cardinality(Taking(o, n)) \in Nat
  OBVIOUS
<1>1. IsFiniteSet(StockItems \X (1..MaxAdjustments))
  <2>1. IsFiniteSet(1..MaxAdjustments) /\ IsFiniteSet(StockItems)
    BY StockAssumption, FS_Interval
  <2> QED
    BY <2>1, FS_Product
<1>2. /\ EntriesOf(o, n) \subseteq StockItems \X (1..MaxAdjustments)
      /\ Taking(o, n) \subseteq StockCalls
  BY DEF EntriesOf, Taking
<1>3. IsFiniteSet(EntriesOf(o, n)) /\ IsFiniteSet(Taking(o, n))
  BY <1>1, <1>2, StockAssumption, FS_Subset
<1> QED
  BY <1>3, FS_CardinalityType

\* A request that gets to its order's line n.
LEMMA OneMoreTaking ==
  ASSUME NEW T, NEW P, NEW payments \in Nat, NEW lost, Balanced(T, P, payments, lost),
         NEW c, c \notin P
  PROVE  Balanced(T, P \cup {c}, payments + 1, lost)
<1>1. IsFiniteSet(P \cup {c}) /\ Cardinality(P \cup {c}) = Cardinality(P) + 1
  BY FS_AddElement DEF Balanced
<1>2. Cardinality(T) \in Nat /\ Cardinality(P) \in Nat
  BY FS_CardinalityType DEF Balanced
<1>3. PICK x \in Nat, y \in Nat : x = Cardinality(T) /\ y = Cardinality(P)
  BY <1>2
<1> QED
  BY <1>1, <1>3 DEF Balanced

\* A request that logs its order's line n and goes on.
LEMMA TakenNow ==
  ASSUME NEW T, NEW P, NEW payments \in Nat, NEW lost, Balanced(T, P, payments, lost),
         NEW c \in P, NEW e, e \notin T
  PROVE  Balanced(T \cup {e}, P \ {c}, payments, lost)
<1>1. IsFiniteSet(T \cup {e}) /\ Cardinality(T \cup {e}) = Cardinality(T) + 1
  BY FS_AddElement DEF Balanced
<1>2. IsFiniteSet(P \ {c}) /\ Cardinality(P \ {c}) = Cardinality(P) - 1
  BY FS_RemoveElement DEF Balanced
<1>3. Cardinality(T) \in Nat /\ Cardinality(P) \in Nat
  BY FS_CardinalityType DEF Balanced
<1>4. PICK x \in Nat, y \in Nat : x = Cardinality(T) /\ y = Cardinality(P)
  BY <1>3
<1> QED
  BY <1>1, <1>2, <1>4 DEF Balanced

\* What is lost leaves at most as many.
LEMMA SomeLost ==
  ASSUME NEW T, NEW P, NEW payments \in Nat, NEW lost, Balanced(T, P, payments, lost),
         NEW U \in SUBSET T, NEW Q \in SUBSET P, NEW now, now
  PROVE  Balanced(U, Q, payments, now)
<1>1. /\ IsFiniteSet(U) /\ Cardinality(U) <= Cardinality(T)
      /\ IsFiniteSet(Q) /\ Cardinality(Q) <= Cardinality(P)
  BY FS_Subset DEF Balanced
<1>2. /\ Cardinality(T) \in Nat /\ Cardinality(P) \in Nat
      /\ Cardinality(U) \in Nat /\ Cardinality(Q) \in Nat
  BY <1>1, FS_CardinalityType DEF Balanced
<1>3. PICK x \in Nat, y \in Nat : x = Cardinality(T) /\ y = Cardinality(P)
  BY <1>2
<1>4. PICK u \in Nat, v \in Nat : u = Cardinality(U) /\ v = Cardinality(Q)
  BY <1>2
<1> QED
  BY <1>1, <1>3, <1>4 DEF Balanced

-----------------------------------------------------------------------------
\* The initial state, and the steps that only change a slot.

\* A free slot has its type, and takes nothing.
LEMMA Free ==
  /\ FreeCall \in StockCallRecords /\ SaneCall(FreeCall) /\ FreeCall.at = "idle"
  /\ FreeCall.order = Null /\ FreeCall.line = 0 /\ FreeCall.delta = 0
  /\ \A o, n : ~Takes(FreeCall, o, n)
BY DEF FreeCall, StockCallRecords, SaneCall, TakingPoints, Takes

\* Nothing is logged, taken or paid in the beginning.
LEMMA InitStockInv == StockInit => StockInv
<1> SUFFICES ASSUME StockInit PROVE StockInv
  OBVIOUS
<1>1. StockTyped
  <2>1. \A i \in StockItems : NoItem("absent") \in StockRecords
    BY DEF NoItem, StockRecords
  <2>2. << >> \in Seq(Entries)
    BY EmptySeq
  <2>3. stock \in [StockItems -> StockRecords]
    BY <2>1 DEF StockInit
  <2>4. adjustments \in [StockItems -> Seq(Entries)]
    BY <2>2 DEF StockInit
  <2>5. stockCalls \in [StockCalls -> StockCallRecords]
    BY Free DEF StockInit
  <2>6. counted \in [StockItems -> [quantity : Int, upto : Nat]]
    BY DEF StockInit
  <2> QED
    BY <2>3, <2>4, <2>5, <2>6 DEF StockInit, StockTyped
<1>2. CallsSane
  BY Free DEF StockInit, CallsSane
<1>3. CountsWithinLogs
  <2>1. Len(<< >>) = 0
    BY EmptySeq
  <2> QED
    BY <2>1 DEF StockInit, CountsWithinLogs
<1>4. StockRows = {}
  BY DEF StockInit, StockRows, NoItem
<1>5. SalesBalanced
  <2> SUFFICES ASSUME NEW o \in SaleOrders, NEW n \in DOMAIN SaleLines[o]
               PROVE  Balanced(EntriesOf(o, n), Taking(o, n), sales[o], missed)
    BY DEF SalesBalanced
  <2>1. Taking(o, n) = {}
    BY Free DEF StockInit, Taking
  <2>2. EntriesOf(o, n) = {}
    <3>1. Len(<< >>) = 0
      BY EmptySeq
    <3>2. \A e \in StockItems \X (1..MaxAdjustments) : ~(e[2] <= Len(adjustments[e[1]]))
      BY <3>1 DEF StockInit
    <3> QED
      BY <3>2 DEF EntriesOf
  <2>3. sales[o] = 0
    BY DEF StockInit
  <2> QED
    BY <2>1, <2>2, <2>3, FS_EmptySet DEF Balanced
<1> QED
  BY <1>1, <1>2, <1>3, <1>4, <1>5 DEF StockInv, OneItemPerDish, QuantityIsLogged

\* A slot's new position is well typed, and other slots stay.
LEMMA SlotKeepsShape ==
  ASSUME StockTyped, CallsSane, NEW c \in StockCalls, NEW k \in StockCallRecords, SaneCall(k),
         stockCalls' = [stockCalls EXCEPT ![c] = k]
  PROVE  stockCalls' \in [StockCalls -> StockCallRecords] /\ CallsSane'
BY DEF StockTyped, CallsSane

\* A request goes on without taking a line, or loses what it had before it and
\* that is noted.
LEMMA SlotStep ==
  ASSUME StockInv, NEW c \in StockCalls, NEW k \in StockCallRecords, SaneCall(k),
         stockCalls' = [stockCalls EXCEPT ![c] = k],
         missed' \in BOOLEAN, missed => missed',
         \A o \in SaleOrders : \A n \in DOMAIN SaleLines[o] :
           /\ Takes(k, o, n) => Takes(stockCalls[c], o, n)
           /\ ~missed' => (Takes(stockCalls[c], o, n) => Takes(k, o, n)),
         UNCHANGED <<stock, adjustments, sales, counted, drifted>>
  PROVE  StockInv'
<1>1. StockTyped' /\ CallsSane'
  BY SlotKeepsShape DEF StockInv, StockTyped
<1>2. CountsWithinLogs' /\ OneItemPerDish'
  BY DEF StockInv, CountsWithinLogs, OneItemPerDish, StockRows
<1>3. QuantityIsLogged'
  BY DEF StockInv, QuantityIsLogged, LoggedQuantity, StockRows
<1>4. SalesBalanced'
  <2> SUFFICES ASSUME NEW o \in SaleOrders, NEW n \in DOMAIN SaleLines[o]
               PROVE  Balanced(EntriesOf(o, n)', Taking(o, n)', sales'[o], missed')
    BY DEF SalesBalanced
  <2>1. EntriesOf(o, n)' = EntriesOf(o, n) /\ sales'[o] = sales[o] /\ sales[o] \in Nat
    BY DEF EntriesOf, StockInv, StockTyped
  <2>2. Balanced(EntriesOf(o, n), Taking(o, n), sales[o], missed)
    BY DEF StockInv, SalesBalanced
  <2>3. Taking(o, n)' = (Taking(o, n) \ {c}) \cup {x \in {c} : Takes(k, o, n)}
    BY DEF StockInv, StockTyped, Taking
  <2>4. CASE ~missed'
    <3>1. Taking(o, n)' = Taking(o, n)
      BY <2>3, <2>4 DEF Taking
    <3> QED
      BY <2>1, <2>2, <2>4, <3>1 DEF Balanced
  <2>5. CASE missed'
    <3>1. Taking(o, n)' \in SUBSET Taking(o, n)
      BY <2>3 DEF Taking
    <3> QED
      BY <2>1, <2>2, <2>5, <3>1, SomeLost
  <2> QED
    BY <2>4, <2>5
<1> QED
  BY <1>1, <1>2, <1>3, <1>4 DEF StockInv

-----------------------------------------------------------------------------
\* One lemma per action.

\* What a request's slot holds.
LEMMA SlotShape ==
  ASSUME StockInv, NEW c \in StockCalls
  PROVE  stockCalls[c] \in StockCallRecords /\ SaneCall(stockCalls[c])
BY DEF StockInv, StockTyped, CallsSane

\* Where Continue leads, and which line it leaves behind.
LEMMA Continued ==
  ASSUME NEW call \in StockCallRecords, SaneCall(call), call.at \in TakingPoints \cup {"pay"}
  PROVE  /\ Continue(call) \in StockCallRecords /\ SaneCall(Continue(call))
         /\ \A o \in SaleOrders : \A n \in Nat :
              Takes(Continue(call), o, n) <=> call.order = o /\ call.line + 1 <= n
<1>1. Null \notin SaleOrders
  BY StockAssumption
<1>2. CASE call.order = Null
  BY <1>1, <1>2, Free DEF Continue
<1>3. CASE call.order # Null
  <2> DEFINE k == [FreeCall EXCEPT !.at = "find", !.order = call.order, !.line = call.line + 1]
  <2>1. call.order \in SaleOrders /\ call.line + 1 \in Nat /\ call.line + 1 > 0
    BY <1>3 DEF StockCallRecords
  <2>2. k \in StockCallRecords /\ k.at = "find" /\ k.order = call.order /\ k.line = call.line + 1
    BY <2>1, Free DEF StockCallRecords
  <2>3. Continue(call) = k
    BY <1>3 DEF Continue
  <2> HIDE DEF k
  <2> QED
    BY <1>3, <2>1, <2>2, <2>3 DEF SaneCall, TakingPoints, Takes
<1> QED
  BY <1>2, <1>3

\* The numbers of an order's lines.
LEMMA LineNumbers ==
  ASSUME NEW o \in SaleOrders
  PROVE  /\ Len(SaleLines[o]) \in Nat /\ DOMAIN SaleLines[o] = 1..Len(SaleLines[o])
         /\ \A n \in DOMAIN SaleLines[o] : SaleLines[o][n].quantity \in Nat
<1>1. PICK L : L = [dish : StockDishes, quantity : Nat \ {0}]
  OBVIOUS
<1>2. PICK s \in Seq(L) : s = SaleLines[o]
  BY <1>1, StockAssumption
<1>3. Len(s) \in Nat /\ DOMAIN s = 1..Len(s) /\ \A n \in 1..Len(s) : s[n] \in L
  BY <1>2, LenProperties, ElementOfSeq
<1> QED
  BY <1>1, <1>2, <1>3

\* PATCH /inventory/:id/adjust read its item.
LEMMA PostAdjustStep ==
  ASSUME StockInv, NEW c \in StockCalls, NEW i \in StockItems, NEW delta \in Deltas,
         PostAdjust(c, i, delta)
  PROVE  StockInv'
<1> DEFINE k == [FreeCall EXCEPT !.item = i, !.delta = delta, !.at = "adjust",
                                 !.read = stock[i].quantity]
<1>1. stock[i].quantity \in Int /\ delta \in Int
  BY StockAssumption DEF StockInv, StockTyped, StockRecords
<1>2. /\ k \in StockCallRecords /\ k.at = "adjust" /\ k.order = Null /\ k.line = 0 /\ k.item = i
  BY <1>1, Free DEF StockCallRecords
<1>3. stockCalls' = [stockCalls EXCEPT ![c] = k] /\ stockCalls[c] = FreeCall
  BY DEF PostAdjust, ReadItem, FreeCall
<1> HIDE DEF k
<1>4. SaneCall(k)
  BY <1>2 DEF SaneCall, TakingPoints
<1>5. \A o \in SaleOrders : \A n : ~Takes(k, o, n)
  BY <1>2, StockAssumption DEF Takes
<1>6. missed' = missed /\ UNCHANGED <<stock, adjustments, sales, counted, drifted>>
  BY DEF PostAdjust, ReadItem, stockHistory
<1>7. missed' \in BOOLEAN /\ (missed => missed')
  BY <1>6 DEF StockInv, StockTyped
<1>8. \A o, n : ~Takes(stockCalls[c], o, n)
  BY <1>3, Free
<1> QED
  BY <1>2, <1>3, <1>4, <1>5, <1>6, <1>7, <1>8, SlotStep

\* A checkout found no payment.
LEMMA RequestSaleStep ==
  ASSUME StockInv, NEW c \in StockCalls, NEW o \in SaleOrders, RequestSale(c, o)
  PROVE  StockInv'
<1> DEFINE k == [FreeCall EXCEPT !.at = "pay", !.order = o]
<1>1. k \in StockCallRecords /\ k.at = "pay" /\ k.order = o /\ k.line = 0
  BY Free DEF StockCallRecords
<1>2. stockCalls' = [stockCalls EXCEPT ![c] = k] /\ stockCalls[c] = FreeCall
  BY DEF RequestSale
<1> HIDE DEF k
<1>3. SaneCall(k) /\ \A p, n : ~Takes(k, p, n)
  BY <1>1 DEF SaneCall, TakingPoints, Takes
<1>4. missed' = missed /\ UNCHANGED <<stock, adjustments, sales, counted, drifted>>
  BY DEF RequestSale, stockHistory
<1>5. missed' \in BOOLEAN /\ (missed => missed')
  BY <1>4 DEF StockInv, StockTyped
<1>6. \A p, n : ~Takes(stockCalls[c], p, n)
  BY <1>2, Free
<1> QED
  BY <1>1, <1>2, <1>3, <1>4, <1>5, <1>6, SlotStep

\* A line's item is found ...
LEMMA FindItemStep ==
  ASSUME StockInv, NEW c \in StockCalls, FindItem(c)
  PROVE  StockInv'
<1>1. PICK old : old = stockCalls[c]
  OBVIOUS
<1>2. old \in StockCallRecords /\ SaneCall(old) /\ old.at = "find" /\ old.order \in SaleOrders
  BY <1>1, SlotShape DEF FindItem, SaneCall
<1>3. old.line \in Nat /\ old.line > 0 /\ old.line \in DOMAIN SaleLines[old.order]
  <2>1. old.line \in Nat /\ old.line > 0
    BY <1>2, StockAssumption DEF SaneCall, TakingPoints, StockCallRecords
  <2>2. ~(old.line > Len(SaleLines[old.order]))
    BY <1>1 DEF FindItem, LastLineDone
  <2> QED
    BY <1>2, <2>1, <2>2, LineNumbers
<1>4. PICK i \in StockItems :
        stockCalls' = [stockCalls EXCEPT ![c].at = "read", ![c].item = i,
                                         ![c].delta = 0 - SaleLine(c).quantity]
  BY DEF FindItem, LinkedTo, StockRows
<1>5. PICK delta \in Int : delta = 0 - SaleLine(c).quantity
  <2>1. SaleLines[old.order][old.line].quantity \in Nat
    BY <1>2, <1>3, LineNumbers
  <2> QED
    BY <1>1, <2>1 DEF SaleLine
<1> DEFINE k == [old EXCEPT !.at = "read", !.item = i, !.delta = delta]
<1>6. /\ k \in StockCallRecords /\ k.at = "read" /\ k.item = i
      /\ k.order = old.order /\ k.line = old.line
  BY <1>2 DEF StockCallRecords
<1>7. stockCalls' = [stockCalls EXCEPT ![c] = k]
  BY <1>1, <1>4, <1>5 DEF StockInv, StockTyped, StockCallRecords
<1> HIDE DEF k
<1>8. SaneCall(k) /\ \A o, n : Takes(k, o, n) <=> Takes(old, o, n)
  BY <1>2, <1>3, <1>6, StockAssumption DEF SaneCall, TakingPoints, Takes
<1> QED
  BY <1>1, <1>6, <1>7, <1>8, SlotStep DEF FindItem, stockHistory, StockInv, StockTyped

\* ... and read.
LEMMA ReadLineItemStep ==
  ASSUME StockInv, NEW c \in StockCalls, ReadLineItem(c)
  PROVE  StockInv'
<1>1. PICK old : old = stockCalls[c]
  OBVIOUS
<1>2. /\ old \in StockCallRecords /\ SaneCall(old) /\ old.at = "read"
      /\ old.order \in SaleOrders /\ old.item \in StockItems
  BY <1>1, SlotShape DEF ReadLineItem, SaneCall
<1>3. PICK q \in Int : q = stock[old.item].quantity
  BY <1>2 DEF StockInv, StockTyped, StockRecords
<1> DEFINE k == [old EXCEPT !.at = "adjust", !.read = q]
<1>4. /\ k \in StockCallRecords /\ k.at = "adjust" /\ k.item = old.item
      /\ k.order = old.order /\ k.line = old.line
  BY <1>2 DEF StockCallRecords
<1>5. stockCalls' = [stockCalls EXCEPT ![c] = k]
  BY <1>1, <1>3 DEF ReadLineItem, ReadItem
<1> HIDE DEF k
<1>6. SaneCall(k) /\ \A o, n : Takes(k, o, n) <=> Takes(old, o, n)
  BY <1>2, <1>4, StockAssumption DEF SaneCall, TakingPoints, Takes
<1> QED
  BY <1>1, <1>4, <1>5, <1>6, SlotStep DEF ReadLineItem, ReadItem, stockHistory, StockInv, StockTyped

\* A line passed over is noted.
LEMMA PassLineStep ==
  ASSUME StockInv, NEW c \in StockCalls, PassLine(c)
  PROVE  StockInv'
<1>1. PICK old : old = stockCalls[c]
  OBVIOUS
<1>2. old \in StockCallRecords /\ SaneCall(old) /\ old.at \in TakingPoints
  BY <1>1, SlotShape DEF PassLine, TakingPoints
<1>3. PICK k : k = Continue(old)
  OBVIOUS
<1>4. k \in StockCallRecords /\ SaneCall(k) /\ stockCalls' = [stockCalls EXCEPT ![c] = k]
  BY <1>1, <1>2, <1>3, Continued DEF PassLine, StockInv, StockTyped
<1>5. ASSUME NEW o \in SaleOrders, NEW n \in DOMAIN SaleLines[o], Takes(k, o, n)
      PROVE  Takes(old, o, n)
  <2>1. n \in Nat /\ old.line \in Nat
    BY <1>2, LineNumbers DEF StockCallRecords
  <2>2. old.order = o /\ old.line + 1 <= n
    BY <1>2, <1>3, <1>5, <2>1, Continued
  <2> QED
    BY <1>2, <2>1, <2>2 DEF Takes
<1>6. missed' = TRUE /\ UNCHANGED <<stock, adjustments, sales, counted, drifted>>
  BY DEF PassLine
<1> QED
  BY <1>1, <1>4, <1>5, <1>6, SlotStep

\* A checkout answers after its last line.
LEMMA AnswerSaleStep ==
  ASSUME StockInv, NEW c \in StockCalls, AnswerSale(c)
  PROVE  StockInv'
<1>1. stockCalls[c].at = "find" /\ stockCalls[c].order \in SaleOrders /\ stockCalls[c].line \in Nat
  BY SlotShape DEF AnswerSale, SaneCall, StockCallRecords
<1>2. ASSUME NEW o \in SaleOrders, NEW n \in DOMAIN SaleLines[o]
      PROVE  ~Takes(stockCalls[c], o, n)
  <2>1. stockCalls[c].line > Len(SaleLines[stockCalls[c].order])
    BY DEF AnswerSale, LastLineDone
  <2> QED
    BY <1>1, <2>1, LineNumbers DEF Takes
<1>3. /\ stockCalls' = [stockCalls EXCEPT ![c] = FreeCall]
      /\ UNCHANGED <<stock, adjustments, sales, counted, drifted, missed>>
  BY DEF AnswerSale, stockHistory
<1>4. missed' \in BOOLEAN /\ (missed => missed')
  BY <1>3 DEF StockInv, StockTyped
<1> QED
  BY <1>2, <1>3, <1>4, SlotStep, Free

\* A request that dies with lines before it is noted.
LEMMA AbandonStep ==
  ASSUME StockInv, NEW c \in StockCalls, AbandonStockCall(c)
  PROVE  StockInv'
<1>1. /\ stockCalls' = [stockCalls EXCEPT ![c] = FreeCall]
      /\ missed' = (missed \/ stockCalls[c].line > 0)
      /\ UNCHANGED <<stock, adjustments, sales, counted, drifted>>
  BY DEF AbandonStockCall
<1>2. missed' \in BOOLEAN /\ (missed => missed')
  BY <1>1 DEF StockInv, StockTyped
<1>3. ASSUME NEW o \in SaleOrders, NEW n \in DOMAIN SaleLines[o], Takes(stockCalls[c], o, n)
      PROVE  missed'
  <2>1. stockCalls[c].line > 0
    BY <1>3, SlotShape, StockAssumption DEF Takes, SaneCall
  <2> QED
    BY <1>1, <2>1
<1> QED
  BY <1>1, <1>2, <1>3, SlotStep, Free

\* A payment gives its request all lines to take, and counts.
LEMMA PaySaleStep ==
  ASSUME StockInv, NEW c \in StockCalls, PaySale(c)
  PROVE  StockInv'
<1>1. PICK old : old = stockCalls[c]
  OBVIOUS
<1>2. /\ old \in StockCallRecords /\ SaneCall(old) /\ old.at = "pay"
      /\ old.order \in SaleOrders /\ old.line = 0
  BY <1>1, SlotShape DEF PaySale, SaneCall
<1>3. PICK k : k = Continue(old)
  OBVIOUS
<1>4. k \in StockCallRecords /\ SaneCall(k) /\ stockCalls' = [stockCalls EXCEPT ![c] = k]
  BY <1>1, <1>2, <1>3, Continued DEF PaySale, StockInv, StockTyped
<1>5. ASSUME NEW o \in SaleOrders, NEW n \in DOMAIN SaleLines[o]
      PROVE  (Takes(k, o, n) <=> old.order = o) /\ ~Takes(old, o, n)
  <2>1. n \in Nat /\ 0 + 1 <= n
    BY LineNumbers
  <2> QED
    BY <1>2, <1>3, <2>1, Continued DEF Takes, TakingPoints
<1>6. /\ sales' = [sales EXCEPT ![old.order] = @ + 1]
      /\ UNCHANGED <<stock, adjustments, counted, drifted, missed>>
  BY <1>1 DEF PaySale, stockHistory
<1>7. StockTyped' /\ CallsSane'
  <2>1. stockCalls' \in [StockCalls -> StockCallRecords] /\ CallsSane'
    BY <1>4, SlotKeepsShape DEF StockInv
  <2>2. sales' \in [SaleOrders -> Nat]
    BY <1>2, <1>6 DEF StockInv, StockTyped
  <2> QED
    BY <1>6, <2>1, <2>2 DEF StockInv, StockTyped
<1>8. CountsWithinLogs' /\ OneItemPerDish'
  BY <1>6 DEF StockInv, CountsWithinLogs, OneItemPerDish, StockRows
<1>9. QuantityIsLogged'
  BY <1>6 DEF StockInv, QuantityIsLogged, LoggedQuantity, StockRows
<1>10. SalesBalanced'
  <2> SUFFICES ASSUME NEW o \in SaleOrders, NEW n \in DOMAIN SaleLines[o]
               PROVE  Balanced(EntriesOf(o, n)', Taking(o, n)', sales'[o], missed')
    BY DEF SalesBalanced
  <2>1. EntriesOf(o, n)' = EntriesOf(o, n) /\ missed' = missed /\ sales[o] \in Nat
    BY <1>6 DEF EntriesOf, StockInv, StockTyped
  <2>2. Balanced(EntriesOf(o, n), Taking(o, n), sales[o], missed)
    BY DEF StockInv, SalesBalanced
  <2>3. /\ Taking(o, n)' = (Taking(o, n) \ {c}) \cup {x \in {c} : Takes(k, o, n)}
        /\ c \notin Taking(o, n)
    BY <1>1, <1>4, <1>5 DEF StockInv, StockTyped, Taking
  <2>4. CASE old.order = o
    <3>1. Taking(o, n)' = Taking(o, n) \cup {c} /\ sales'[o] = sales[o] + 1
      BY <1>5, <1>6, <2>3, <2>4 DEF StockInv, StockTyped
    <3> QED
      BY <2>1, <2>2, <2>3, <3>1, OneMoreTaking
  <2>5. CASE old.order # o
    <3>1. Taking(o, n)' = Taking(o, n) /\ sales'[o] = sales[o]
      BY <1>2, <1>5, <1>6, <2>3, <2>5 DEF StockInv, StockTyped
    <3> QED
      BY <2>1, <2>2, <3>1
  <2> QED
    BY <2>4, <2>5
<1> QED
  BY <1>7, <1>8, <1>9, <1>10 DEF StockInv

\* An adjustment logs what it writes, and its line is behind it.
LEMMA AdjustStep ==
  ASSUME StockInv, NEW c \in StockCalls, Adjust(c)
  PROVE  StockInv'
<1>1. PICK old, i : old = stockCalls[c] /\ i = old.item
  OBVIOUS
<1>2. /\ old \in StockCallRecords /\ SaneCall(old) /\ old.at = "adjust" /\ i \in StockRows
      /\ i \in StockItems /\ Len(adjustments[i]) < MaxAdjustments
  BY <1>1, SlotShape DEF Adjust, SaneCall
<1>3. PICK k : k = Continue(old)
  OBVIOUS
<1>4. k \in StockCallRecords /\ SaneCall(k)
  BY <1>2, <1>3, Continued DEF TakingPoints
<1>5. PICK entry \in Entries : entry = [order |-> old.order, line |-> old.line, delta |-> old.delta]
  BY <1>2 DEF StockCallRecords, Entries
<1>6. PICK quantity \in Int : quantity = NewQuantity(old.read, old.delta)
  BY <1>2 DEF StockCallRecords, NewQuantity
<1>7. /\ adjustments' = [adjustments EXCEPT ![i] = Append(@, entry)]
      /\ stock' = [stock EXCEPT ![i].quantity = quantity]
      /\ drifted' = [drifted EXCEPT ![i] = @ \/ stock[i].quantity # old.read]
      /\ stockCalls' = [stockCalls EXCEPT ![c] = k]
      /\ UNCHANGED <<sales, counted, missed>>
  BY <1>1, <1>3, <1>5, <1>6 DEF Adjust
<1>8. PICK log \in Seq(Entries) : log = adjustments[i]
  BY <1>2 DEF StockInv, StockTyped
<1>9. PICK more : more = Append(log, entry)
  OBVIOUS
<1>10. PICK length \in Nat : length = Len(log)
  BY LenProperties
<1>11. /\ more \in Seq(Entries) /\ Len(more) = length + 1 /\ more[length + 1] = entry
       /\ \A j \in 1..length : more[j] = log[j]
  BY <1>9, <1>10, AppendProperties
<1>12. adjustments' = [adjustments EXCEPT ![i] = more]
  BY <1>2, <1>7, <1>8, <1>9
<1>13. StockTyped' /\ CallsSane'
  <2>1. stockCalls' \in [StockCalls -> StockCallRecords] /\ CallsSane'
    BY <1>4, <1>7, SlotKeepsShape DEF StockInv
  <2>2. stock' \in [StockItems -> StockRecords]
    BY <1>7, ZenonT(60) DEF StockInv, StockTyped, StockRecords
  <2>3. adjustments' \in [StockItems -> Seq(Entries)]
    BY <1>11, <1>12 DEF StockInv, StockTyped
  <2>4. drifted' \in [StockItems -> BOOLEAN]
    <3>1. (drifted[i] \/ stock[i].quantity # old.read) \in BOOLEAN
      OBVIOUS
    <3> QED
      BY <1>7, <3>1 DEF StockInv, StockTyped
  <2> QED
    BY <1>7, <2>1, <2>2, <2>3, <2>4 DEF StockInv, StockTyped
<1>14. /\ StockRows' = StockRows
       /\ \A j \in StockItems : /\ stock'[j].dish = stock[j].dish
                                /\ j # i => /\ stock'[j] = stock[j]
                                            /\ adjustments'[j] = adjustments[j]
                                            /\ drifted'[j] = drifted[j]
  BY <1>2, <1>7, <1>12 DEF StockRows, StockInv, StockTyped, StockRecords
<1>15. OneItemPerDish'
  BY <1>14 DEF StockInv, OneItemPerDish, StockRows
<1>16. adjustments'[i] = more /\ stock'[i].quantity = quantity
  BY <1>2, <1>7, <1>12 DEF StockInv, StockTyped, StockRecords
<1>17. CountsWithinLogs'
  <2> SUFFICES ASSUME NEW j \in StockItems PROVE counted[j].upto <= Len(adjustments'[j])
    BY <1>7 DEF CountsWithinLogs
  <2>1. counted[j].upto <= Len(adjustments[j]) /\ counted[j].upto \in Nat
    BY DEF StockInv, CountsWithinLogs, StockTyped
  <2>2. CASE j = i
    BY <1>8, <1>10, <1>11, <1>16, <2>1, <2>2
  <2>3. CASE j # i
    BY <1>14, <2>1, <2>3
  <2> QED
    BY <2>2, <2>3
<1>18. QuantityIsLogged'
  <2> SUFFICES ASSUME NEW j \in StockRows, ~drifted'[j]
               PROVE  stock'[j].quantity =
                        Replayed(counted[j].quantity,
                                 SubSeq(adjustments'[j], counted[j].upto + 1, Len(adjustments'[j])))
    BY <1>7, <1>14 DEF QuantityIsLogged, LoggedQuantity
  <2>0. j \in StockItems
    BY DEF StockRows
  <2>1. CASE j # i
    BY <1>14, <2>0, <2>1 DEF StockInv, QuantityIsLogged, LoggedQuantity
  <2>2. CASE j = i
    <3>1. ~drifted[i] /\ stock[i].quantity = old.read
      BY <1>2, <1>7, <2>2 DEF StockInv, StockTyped
    <3>2. PICK q \in Int, upto \in Nat : q = counted[i].quantity /\ upto = counted[i].upto
      BY <1>2 DEF StockInv, StockTyped
    <3>3. upto <= Len(log)
      BY <1>2, <1>8, <3>2 DEF StockInv, CountsWithinLogs
    <3>4. PICK since : since = SubSeq(log, upto + 1, Len(log))
      OBVIOUS
    <3>5. old.read = Replayed(q, since)
      BY <1>2, <1>8, <3>1, <3>2, <3>4 DEF StockInv, QuantityIsLogged, LoggedQuantity
    <3>6. since \in Seq(Entries) /\ SubSeq(more, upto + 1, Len(more)) = Append(since, entry)
      BY <1>9, <3>3, <3>4, SinceCount
    <3>7. Replayed(q, Append(since, entry)) = NewQuantity(old.read, entry.delta)
      BY <3>5, <3>6, ReplayOfOneMore
    <3>8. quantity = Replayed(q, SubSeq(more, upto + 1, Len(more)))
      BY <1>5, <1>6, <3>6, <3>7
    <3> QED
      BY <1>16, <2>2, <3>2, <3>8
  <2> QED
    BY <2>1, <2>2
<1>19. SalesBalanced'
  <2> SUFFICES ASSUME NEW o \in SaleOrders, NEW n \in DOMAIN SaleLines[o]
               PROVE  Balanced(EntriesOf(o, n)', Taking(o, n)', sales[o], missed)
    BY <1>7 DEF SalesBalanced
  <2>1. sales[o] \in Nat /\ n \in Nat /\ old.line \in Nat
    <3>1. n \in Nat
      BY LineNumbers
    <3>2. sales[o] \in Nat
      BY DEF StockInv, StockTyped
    <3>3. old.line \in Nat
      BY <1>2 DEF StockCallRecords
    <3> QED
      BY <3>1, <3>2, <3>3
  <2>2. Balanced(EntriesOf(o, n), Taking(o, n), sales[o], missed)
    BY DEF StockInv, SalesBalanced
  <2>3. Taking(o, n)' = (Taking(o, n) \ {c}) \cup {x \in {c} : Takes(k, o, n)}
    BY <1>7 DEF StockInv, StockTyped, Taking
  <2>4. PICK e : e = <<i, length + 1>>
    OBVIOUS
  <2>5. e \in StockItems \X (1..MaxAdjustments) /\ e[1] = i /\ e[2] = length + 1
    BY <1>2, <1>8, <1>10, <2>4, StockAssumption
  <2>6. EntriesOf(o, n)' = EntriesOf(o, n) \cup {x \in {e} : entry.order = o /\ entry.line = n}
    <3>1. ASSUME NEW x \in StockItems \X (1..MaxAdjustments)
          PROVE  x \in EntriesOf(o, n)' <=>
                   \/ x \in EntriesOf(o, n)
                   \/ x = e /\ entry.order = o /\ entry.line = n
      <4>1. x = <<x[1], x[2]>> /\ x[1] \in StockItems /\ x[2] \in 1..MaxAdjustments
        OBVIOUS
      <4>2. /\ x \in EntriesOf(o, n)' <=> /\ x[2] <= Len(adjustments'[x[1]])
                                          /\ adjustments'[x[1]][x[2]].order = o
                                          /\ adjustments'[x[1]][x[2]].line = n
            /\ x \in EntriesOf(o, n) <=> /\ x[2] <= Len(adjustments[x[1]])
                                         /\ adjustments[x[1]][x[2]].order = o
                                         /\ adjustments[x[1]][x[2]].line = n
        BY DEF EntriesOf
      <4>3. CASE x[1] # i
        BY <1>14, <2>5, <4>1, <4>2, <4>3
      <4>4. CASE x[1] = i /\ x[2] <= length
        <5>1. x[2] \in 1..length /\ x[2] <= length + 1 /\ x # e
          BY <2>5, <4>1, <4>4
        <5>2. more[x[2]] = log[x[2]]
          BY <1>11, <5>1
        <5> QED
          BY <1>8, <1>10, <1>11, <1>16, <4>2, <4>4, <5>1, <5>2
      <4>5. CASE x[1] = i /\ x[2] = length + 1
        <5>1. x = e /\ ~(x[2] <= length) /\ x[2] <= length + 1
          BY <2>4, <4>1, <4>5
        <5> QED
          BY <1>8, <1>10, <1>11, <1>16, <4>2, <4>5, <5>1
      <4>6. CASE x[1] = i /\ x[2] > length + 1
        <5>1. ~(x[2] <= length) /\ ~(x[2] <= length + 1) /\ x # e
          BY <2>5, <4>1, <4>6
        <5> QED
          BY <1>8, <1>10, <1>11, <1>16, <4>2, <4>6, <5>1
      <4> QED
        BY <4>1, <4>3, <4>4, <4>5, <4>6
    <3>2. EntriesOf(o, n) \subseteq StockItems \X (1..MaxAdjustments)
          /\ EntriesOf(o, n)' \subseteq StockItems \X (1..MaxAdjustments)
      BY DEF EntriesOf
    <3> QED
      BY <2>5, <3>1, <3>2
  <2>7. e \notin EntriesOf(o, n)
    BY <1>8, <1>10, <2>5 DEF EntriesOf
  <2>8. entry.order = old.order /\ entry.line = old.line
    BY <1>5
  <2>9. /\ Takes(k, o, n) <=> old.order = o /\ old.line + 1 <= n
        /\ Takes(old, o, n) <=> old.order = o /\ old.line <= n
    BY <1>2, <1>3, <2>1, Continued DEF Takes, TakingPoints
  <2>10. c \in Taking(o, n) <=> old.order = o /\ old.line <= n
    BY <1>1, <2>9 DEF Taking
  <2>11. CASE old.order = o /\ old.line = n
    <3>1. EntriesOf(o, n)' = EntriesOf(o, n) \cup {e}
      BY <2>6, <2>8, <2>11
    <3>2. c \in Taking(o, n) /\ ~Takes(k, o, n)
      BY <2>1, <2>9, <2>10, <2>11
    <3>3. Taking(o, n)' = Taking(o, n) \ {c}
      BY <2>3, <3>2
    <3> QED
      BY <2>1, <2>2, <2>7, <3>1, <3>2, <3>3, TakenNow
  <2>12. CASE ~(old.order = o /\ old.line = n)
    <3>1. EntriesOf(o, n)' = EntriesOf(o, n)
      BY <2>6, <2>8, <2>12
    <3>2. Takes(k, o, n) <=> c \in Taking(o, n)
      BY <2>1, <2>9, <2>10, <2>12
    <3>3. Taking(o, n)' = Taking(o, n)
      BY <2>3, <3>2
    <3> QED
      BY <2>2, <3>1, <3>3
  <2> QED
    BY <2>11, <2>12
<1> QED
  BY <1>13, <1>15, <1>17, <1>18, <1>19 DEF StockInv

\* A count, or a change of an item's row, takes nothing.
LEMMA RowStep ==
  ASSUME StockInv, NEW i \in StockItems, NEW row \in StockRecords, row.state = "live",
         row.dish # Null => LinkedTo(row.dish) \subseteq {i},
         stock' = [stock EXCEPT ![i] = row],
         \/ /\ i \in StockRows /\ row.quantity = stock[i].quantity
            /\ UNCHANGED <<counted, drifted>>
         \/ Recount(i, row.quantity),
         UNCHANGED <<adjustments, sales, stockCalls, missed>>
  PROVE  StockInv'
<1>1. PICK n \in Nat : n = Len(adjustments[i])
  <2>1. Len(adjustments[i]) \in Nat
    BY LenProperties DEF StockInv, StockTyped
  <2> QED
    BY <2>1
<1>c. \/ counted' = counted
      \/ counted' = [counted EXCEPT ![i] = [quantity |-> row.quantity, upto |-> n]]
  BY <1>1 DEF Recount
<1>2. StockTyped' /\ CallsSane'
  <2>1. stock' \in [StockItems -> StockRecords]
    BY DEF StockInv, StockTyped
  <2>2. row.quantity \in Int
    BY DEF StockRecords
  <2>3. counted' \in [StockItems -> [quantity : Int, upto : Nat]]
    <3>1. PICK entry : entry = [quantity |-> row.quantity, upto |-> n]
      OBVIOUS
    <3>2. entry \in [quantity : Int, upto : Nat]
      BY <2>2, <3>1
    <3>3. counted' = counted \/ counted' = [counted EXCEPT ![i] = entry]
      BY <1>c, <3>1
    <3> QED
      BY <3>2, <3>3 DEF StockInv, StockTyped
  <2>4. drifted' \in [StockItems -> BOOLEAN]
    BY DEF StockInv, StockTyped, Recount
  <2> QED
    BY <2>1, <2>3, <2>4 DEF StockInv, StockTyped, CallsSane
<1>3. CountsWithinLogs'
  <2> SUFFICES ASSUME NEW j \in StockItems PROVE counted'[j].upto <= Len(adjustments[j])
    BY DEF CountsWithinLogs
  <2>1. counted[j].upto <= Len(adjustments[j])
    BY DEF StockInv, CountsWithinLogs
  <2>2. counted'[j] = counted[j] \/ (j = i /\ counted'[j].upto = n)
    BY <1>c DEF StockInv, StockTyped
  <2> QED
    BY <1>1, <2>1, <2>2
<1>4. /\ StockRows' = StockRows \cup {i} /\ stock'[i] = row
      /\ \A j \in StockItems : j # i => stock'[j] = stock[j] /\ counted'[j] = counted[j]
                                        /\ drifted'[j] = drifted[j]
  BY DEF StockInv, StockTyped, StockRows, Recount
<1>5. OneItemPerDish'
  <2> SUFFICES ASSUME NEW j \in StockRows', NEW l \in StockRows',
                      stock'[j].dish = stock'[l].dish, stock'[j].dish # Null
               PROVE  j = l
    BY DEF OneItemPerDish
  <2>1. j \in StockItems /\ l \in StockItems
    BY <1>4 DEF StockRows
  <2>2. CASE j # i /\ l # i
    BY <1>4, <2>1, <2>2 DEF StockInv, OneItemPerDish
  <2>3. CASE j = i /\ l # i
    <3>1. l \in LinkedTo(row.dish) /\ row.dish # Null
      BY <1>4, <2>1, <2>3 DEF LinkedTo
    <3> QED
      BY <2>3, <3>1
  <2>4. CASE j # i /\ l = i
    <3>1. j \in LinkedTo(row.dish) /\ row.dish # Null
      BY <1>4, <2>1, <2>4 DEF LinkedTo
    <3> QED
      BY <2>4, <3>1
  <2> QED
    BY <2>2, <2>3, <2>4
<1>6. QuantityIsLogged'
  <2> SUFFICES ASSUME NEW j \in StockRows', ~drifted'[j]
               PROVE  stock'[j].quantity =
                        Replayed(counted'[j].quantity,
                                 SubSeq(adjustments[j], counted'[j].upto + 1, Len(adjustments[j])))
    BY DEF QuantityIsLogged, LoggedQuantity
  <2>1. j \in StockItems
    BY DEF StockRows
  <2>2. CASE j # i
    BY <1>4, <2>1, <2>2 DEF StockInv, QuantityIsLogged, LoggedQuantity
  <2>3. CASE j = i /\ i \in StockRows /\ row.quantity = stock[i].quantity
             /\ UNCHANGED <<counted, drifted>>
    BY <1>4, <2>3 DEF StockInv, QuantityIsLogged, LoggedQuantity
  <2>4. CASE j = i /\ Recount(i, row.quantity)
    <3>2. counted'[i].quantity = row.quantity /\ counted'[i].upto = n
      BY <1>1, <2>4 DEF Recount, StockInv, StockTyped
    <3>3. n < n + 1 /\ n + 1 \in Int /\ n \in Int
      OBVIOUS
    <3>4. SubSeq(adjustments[i], n + 1, n) = << >>
      BY <3>3, SubSeqEmpty
    <3>5. Replayed(row.quantity, << >>) = row.quantity
      BY ReplayOfNothing DEF StockRecords
    <3>6. stock'[j].quantity = row.quantity
      BY <1>4, <2>4
    <3> QED
      BY <1>1, <2>4, <3>2, <3>4, <3>5, <3>6
  <2> QED
    BY <2>2, <2>3, <2>4
<1>7. SalesBalanced'
  BY DEF StockInv, SalesBalanced, EntriesOf, Taking
<1> QED
  BY <1>2, <1>3, <1>5, <1>6, <1>7 DEF StockInv

\* POST /inventory.
LEMMA CreateStockStep ==
  ASSUME StockInv, NEW i \in StockItems, NEW q \in Counts, NEW d \in StockDishes \cup {Null},
         CreateStock(i, q, d)
  PROVE  StockInv'
<1>1. PICK row : row = [state |-> "live", quantity |-> q, dish |-> d]
  OBVIOUS
<1>2. row \in StockRecords /\ row.state = "live" /\ row.dish = d /\ row.quantity = q
  BY <1>1, StockAssumption DEF StockRecords
<1> QED
  BY <1>1, <1>2, RowStep DEF CreateStock, LinkFree

\* PATCH /inventory/:id.
LEMMA UpdateStockStep ==
  ASSUME StockInv, NEW i \in StockItems, NEW q \in Counts \cup {Unsent},
         NEW d \in StockDishes \cup {Null, Unsent}, UpdateStock(i, q, d)
  PROVE  StockInv'
<1>1. stock[i] \in StockRecords /\ stock[i].state = "live" /\ i \in StockRows
  BY DEF StockInv, StockTyped, UpdateStock, StockRows
<1>2. PICK row : row = [stock[i] EXCEPT !.quantity = Sent(q, @), !.dish = Sent(d, @)]
  OBVIOUS
<1>3. /\ row \in StockRecords /\ row.state = "live"
      /\ row.dish = (IF d = Unsent THEN stock[i].dish ELSE d)
      /\ row.quantity = (IF q = Unsent THEN stock[i].quantity ELSE q)
  BY <1>1, <1>2, StockAssumption DEF StockRecords, Sent
<1>4. stock' = [stock EXCEPT ![i] = row]
  BY <1>2 DEF UpdateStock, StockInv, StockTyped, StockRecords
<1>5. row.dish # Null => LinkedTo(row.dish) \subseteq {i}
  <2>1. CASE d = Unsent
    BY <1>1, <1>3, <2>1 DEF StockInv, OneItemPerDish, LinkedTo
  <2>2. CASE d # Unsent
    BY <1>3, <2>2 DEF UpdateStock, LinkFree
  <2> QED
    BY <2>1, <2>2
<1>6. \/ /\ i \in StockRows /\ row.quantity = stock[i].quantity
         /\ UNCHANGED <<counted, drifted>>
      \/ Recount(i, row.quantity)
  BY <1>1, <1>3 DEF UpdateStock
<1> QED
  BY <1>3, <1>4, <1>5, <1>6, RowStep DEF UpdateStock

\* DELETE /inventory/:id: the entries that go with the item are noted.
LEMMA RemoveStockStep ==
  ASSUME StockInv, NEW i \in StockItems, RemoveStock(i)
  PROVE  StockInv'
<1>1. /\ stock' = [stock EXCEPT ![i] = NoItem("gone")]
      /\ adjustments' = [adjustments EXCEPT ![i] = << >>]
      /\ counted' = [counted EXCEPT ![i] = [quantity |-> 0, upto |-> 0]]
      /\ drifted' = [drifted EXCEPT ![i] = FALSE]
      /\ missed' = TRUE
      /\ UNCHANGED <<sales, stockCalls>>
  BY DEF RemoveStock
<1>2. << >> \in Seq(Entries) /\ Len(<< >>) = 0
  BY EmptySeq
<1>3. NoItem("gone") \in StockRecords /\ NoItem("gone").state = "gone"
  BY DEF NoItem, StockRecords
<1>4. StockTyped' /\ CallsSane'
  <2>1. stock' \in [StockItems -> StockRecords]
    BY <1>1, <1>3 DEF StockInv, StockTyped
  <2>2. adjustments' \in [StockItems -> Seq(Entries)]
    BY <1>1, <1>2 DEF StockInv, StockTyped
  <2>3. /\ counted' \in [StockItems -> [quantity : Int, upto : Nat]]
        /\ drifted' \in [StockItems -> BOOLEAN]
    BY <1>1 DEF StockInv, StockTyped
  <2> QED
    BY <1>1, <2>1, <2>2, <2>3 DEF StockInv, StockTyped, CallsSane
<1>5. CountsWithinLogs'
  BY <1>1, <1>2 DEF StockInv, StockTyped, CountsWithinLogs
<1>6. /\ StockRows' = StockRows \ {i}
      /\ \A j \in StockRows' : /\ stock'[j] = stock[j] /\ adjustments'[j] = adjustments[j]
                               /\ counted'[j] = counted[j] /\ drifted'[j] = drifted[j]
  BY <1>1, <1>3 DEF StockInv, StockTyped, StockRows
<1>7. OneItemPerDish'
  BY <1>6 DEF StockInv, OneItemPerDish
<1>8. QuantityIsLogged'
  <2> SUFFICES ASSUME NEW j \in StockRows', ~drifted'[j]
               PROVE  stock'[j].quantity =
                        Replayed(counted'[j].quantity,
                                 SubSeq(adjustments'[j], counted'[j].upto + 1, Len(adjustments'[j])))
    BY DEF QuantityIsLogged, LoggedQuantity
  <2> QED
    BY <1>6 DEF StockInv, QuantityIsLogged, LoggedQuantity
<1>9. SalesBalanced'
  <2> SUFFICES ASSUME NEW o \in SaleOrders, NEW n \in DOMAIN SaleLines[o]
               PROVE  Balanced(EntriesOf(o, n)', Taking(o, n)', sales[o], missed')
    BY <1>1 DEF SalesBalanced
  <2>1. Balanced(EntriesOf(o, n), Taking(o, n), sales[o], missed) /\ sales[o] \in Nat
    BY DEF StockInv, StockTyped, SalesBalanced
  <2>2. Taking(o, n)' = Taking(o, n)
    BY <1>1 DEF Taking
  <2>3. EntriesOf(o, n)' \in SUBSET EntriesOf(o, n)
    <3> SUFFICES ASSUME NEW e \in StockItems \X (1..MaxAdjustments), e \in EntriesOf(o, n)'
                 PROVE  e \in EntriesOf(o, n)
      BY DEF EntriesOf
    <3>1. e[1] \in StockItems /\ e[2] \in 1..MaxAdjustments /\ e[2] <= Len(adjustments'[e[1]])
      BY DEF EntriesOf
    <3>2. CASE e[1] = i
      <4>1. adjustments'[i] = << >>
        BY <1>1 DEF StockInv, StockTyped
      <4> QED
        BY <1>2, <3>1, <3>2, <4>1
    <3>3. CASE e[1] # i
      <4>1. adjustments'[e[1]] = adjustments[e[1]]
        BY <1>1, <3>1, <3>3 DEF StockInv, StockTyped
      <4> QED
        BY <4>1 DEF EntriesOf
    <3> QED
      BY <3>2, <3>3
  <2> QED
    BY <1>1, <2>1, <2>2, <2>3, SomeLost
<1> QED
  BY <1>4, <1>5, <1>7, <1>8, <1>9 DEF StockInv

\* Every step keeps the invariant.
LEMMA NextKeepsStockInv == StockInv /\ [StockNext]_stockVars => StockInv'
<1> SUFFICES ASSUME StockInv, [StockNext]_stockVars PROVE StockInv'
  OBVIOUS
<1>1. CASE StockNext
  <2>1. ASSUME NEW i \in StockItems, NEW q \in Counts, NEW d \in StockDishes \cup {Null},
               CreateStock(i, q, d)
        PROVE  StockInv'
    BY <2>1, CreateStockStep
  <2>2. ASSUME NEW i \in StockItems, NEW q \in Counts \cup {Unsent},
               NEW d \in StockDishes \cup {Null, Unsent}, UpdateStock(i, q, d)
        PROVE  StockInv'
    BY <2>2, UpdateStockStep
  <2>3. ASSUME NEW i \in StockItems, RemoveStock(i) PROVE StockInv'
    BY <2>3, RemoveStockStep
  <2>4. ASSUME NEW c \in StockCalls, NEW i \in StockItems, NEW delta \in Deltas,
               PostAdjust(c, i, delta)
        PROVE  StockInv'
    BY <2>4, PostAdjustStep
  <2>5. ASSUME NEW c \in StockCalls, NEW o \in SaleOrders, RequestSale(c, o) PROVE StockInv'
    BY <2>5, RequestSaleStep
  <2>6. ASSUME NEW c \in StockCalls,
               \/ Adjust(c) \/ PaySale(c)
               \/ FindItem(c) \/ ReadLineItem(c) \/ PassLine(c) \/ AnswerSale(c)
               \/ AbandonStockCall(c)
        PROVE  StockInv'
    BY <2>6, AdjustStep, PaySaleStep, FindItemStep, ReadLineItemStep, PassLineStep,
       AnswerSaleStep, AbandonStep
  <2> QED
    BY <1>1, <2>1, <2>2, <2>3, <2>4, <2>5, <2>6 DEF StockNext
<1>2. CASE UNCHANGED stockVars
  BY <1>2 DEF stockVars, StockInv, StockTyped, CallsSane, CountsWithinLogs, OneItemPerDish,
              QuantityIsLogged, LoggedQuantity, SalesBalanced, EntriesOf, Taking, StockRows
<1> QED
  BY <1>1, <1>2

-----------------------------------------------------------------------------
\* The inductive invariant holds in every state.
THEOREM StockInvariance == StockSpec => []StockInv
<1> QED
  BY InitStockInv, NextKeepsStockInv, PTL DEF StockSpec

\* Inventory rows keep their types, and no dish is linked to two items.
THEOREM StockTypeCorrect == StockSpec => []StockTypeOK
<1>1. StockInv => StockTypeOK
  <2> SUFFICES ASSUME StockInv PROVE StockTypeOK
    OBVIOUS
  <2>1. \A i \in StockItems : counted[i].upto \in 0..Len(adjustments[i])
    <3> SUFFICES ASSUME NEW i \in StockItems
                 PROVE  counted[i].upto \in 0..Len(adjustments[i])
      OBVIOUS
    <3>1. Len(adjustments[i]) \in Nat
      BY LenProperties DEF StockInv, StockTyped
    <3>2. counted[i].upto \in Nat /\ counted[i].upto <= Len(adjustments[i])
      BY DEF StockInv, StockTyped, CountsWithinLogs
    <3> QED
      BY <3>1, <3>2
  <2>2. \A i \in StockItems : stock[i] \in StockRecords /\ drifted[i] \in BOOLEAN
    BY DEF StockInv, StockTyped
  <2>3. \A c \in StockCalls : stockCalls[c] \in StockCallRecords
    BY DEF StockInv, StockTyped
  <2>4. missed \in BOOLEAN
    BY DEF StockInv, StockTyped
  <2> QED
    BY <2>1, <2>2, <2>3, <2>4 DEF StockInv, OneItemPerDish, StockTypeOK, StockRecords,
                                   StockCallRecords
<1> QED
  BY <1>1, StockInvariance, PTL

\* An item's quantity is its last count and every logged change after it,
\* whatever adjustments and sales overlap, unless one of them wrote over a
\* quantity it had not read.
THEOREM QuantitiesAreLogged == StockSpec => []QuantityIsLogged
<1>1. StockInv => QuantityIsLogged
  BY DEF StockInv
<1> QED
  BY <1>1, StockInvariance, PTL

\* No line of a sale is taken from stock more than once per payment of its
\* order; when nothing was passed over and no request is in flight, exactly once.
THEOREM SalesTakenOnce == StockSpec => []SaleTakenOnce
<1>1. StockInv => SaleTakenOnce
  <2> SUFFICES ASSUME StockInv, NEW o \in SaleOrders, NEW n \in DOMAIN SaleLines[o]
               PROVE  /\ TimesTaken(o, n) <= sales[o]
                      /\ (~missed /\ \A c \in StockCalls : stockCalls[c] = FreeCall)
                           => TimesTaken(o, n) = sales[o]
    BY DEF SaleTakenOnce
  <2>1. Balanced(EntriesOf(o, n), Taking(o, n), sales[o], missed) /\ sales[o] \in Nat
    BY DEF StockInv, StockTyped, SalesBalanced
  <2>2. PICK x \in Nat, y \in Nat : x = TimesTaken(o, n) /\ y = Cardinality(Taking(o, n))
    BY Finite DEF TimesTaken
  <2>3. x + y <= sales[o] /\ (~missed => x + y = sales[o])
    BY <2>1, <2>2 DEF Balanced, TimesTaken
  <2>4. ASSUME \A c \in StockCalls : stockCalls[c] = FreeCall
        PROVE  y = 0
    <3>1. Taking(o, n) = {}
      BY <2>4, Free DEF Taking
    <3> QED
      BY <2>2, <3>1, FS_EmptySet
  <2> QED
    BY <2>1, <2>2, <2>3, <2>4
<1> QED
  BY <1>1, StockInvariance, PTL
=============================================================================

--------------------------- MODULE AnalyticsProofs ---------------------------
(***************************************************************************)
(* What holds for every set of contracts and every setting of Analytics:   *)
(* WithdrawsOwn from the invariant Owned, EdgesFromNewest from Priced; and *)
(* of the dashboard, which shows what analytics publishes beside the       *)
(* streams it caches: FreshWithinTtl from CacheInv, and RowsRight, for     *)
(* which ReadInv suffices.                                                 *)
(***************************************************************************)
EXTENDS Analytics, Dashboard, TLAPS, FiniteSetTheorems, FunctionTheorems,
        SequenceTheorems, WellFoundedInduction

-----------------------------------------------------------------------------
(* Numbers *)

LEMMA MinExists ==
    ASSUME NEW S \in SUBSET Nat, S # {}
    PROVE  \E m \in S : \A x \in S : m <= x
<1> DEFINE less == {p \in Nat \X Nat : p[1] < p[2]}
<1>1. IsWellFoundedOn(less, Nat)
  BY NatLessThanWellFounded DEF OpToRel
<1>2. PICK m \in S : \A x \in S : <<x, m>> \notin less
  <2> HIDE DEF less
  <2> QED
    BY <1>1, WFMin
<1>3. ASSUME NEW x \in S PROVE m <= x
  <2>1. <<x, m>> \notin less /\ <<x, m>> \in Nat \X Nat
    BY <1>2
  <2>2. ~(x < m)
    BY <2>1
  <2> QED
    BY <2>2
<1> QED
  BY <1>3

LEMMA MaxExists ==
    ASSUME NEW S \in SUBSET Nat, S # {}, NEW b \in Nat, \A x \in S : x <= b
    PROVE  \E m \in S : \A x \in S : x <= m
<1> DEFINE T == {b - x : x \in S}
<1>1. T \subseteq Nat /\ T # {}
  <2>1. \A x \in S : b - x \in Nat
    OBVIOUS
  <2>2. PICK x \in S : TRUE
    OBVIOUS
  <2>3. b - x \in T
    OBVIOUS
  <2> QED
    BY <2>1, <2>3
<1>2. PICK y \in T : \A z \in T : y <= z
  <2> HIDE DEF T
  <2> QED
    BY <1>1, MinExists
<1>3. PICK m \in S : y = b - m
  OBVIOUS
<1>4. \A x \in S : b - x \in T
  OBVIOUS
<1> HIDE DEF T
<1>5. ASSUME NEW x \in S PROVE x <= m
  <2>1. b - m <= b - x
    BY <1>2, <1>3, <1>4
  <2> QED
    BY <2>1
<1> QED
  BY <1>5

\* What Max and Min are.
LEMMA MaxIs ==
    ASSUME NEW S \in SUBSET Int, NEW m \in S, \A x \in S : x <= m
    PROVE  Max(S) = m
<1>1. \E x \in S : \A y \in S : x >= y
  OBVIOUS
<1>2. Max(S) \in S /\ \A y \in S : Max(S) >= y
  BY <1>1 DEF Max
<1>3. PICK x \in S : x = Max(S)
  BY <1>2
<1>4. x <= m /\ m <= x /\ x \in Int /\ m \in Int
  BY <1>2, <1>3
<1> QED
  BY <1>3, <1>4

LEMMA MinIs ==
    ASSUME NEW S \in SUBSET Int, NEW m \in S, \A x \in S : m <= x
    PROVE  Min(S) = m
<1>1. \E x \in S : \A y \in S : x =< y
  OBVIOUS
<1>2. Min(S) \in S /\ \A y \in S : Min(S) =< y
  BY <1>1 DEF Min
<1>3. PICK x \in S : x = Min(S)
  BY <1>2
<1>4. x <= m /\ m <= x /\ x \in Int /\ m \in Int
  BY <1>2, <1>3
<1> QED
  BY <1>3, <1>4

LEMMA MaxWithOne ==
    ASSUME NEW x \in Int
    PROVE  Max({1, x}) = IF 1 <= x THEN x ELSE 1
<1>1. {1, x} \in SUBSET Int
  OBVIOUS
<1>2. CASE 1 <= x
  <2>1. \A y \in {1, x} : y <= x
    BY <1>2
  <2> QED
    BY <1>1, <1>2, <2>1, MaxIs
<1>3. CASE ~(1 <= x)
  <2>1. \A y \in {1, x} : y <= 1
    BY <1>3
  <2> QED
    BY <1>1, <1>3, <2>1, MaxIs
<1> QED
  BY <1>2, <1>3

LEMMA MaxFacts ==
    ASSUME NEW n \in Nat, NEW S \in SUBSET (1 .. n), S # {}
    PROVE  Max(S) \in S /\ \A x \in S : x <= Max(S)
<1>1. PICK m \in S : \A x \in S : x <= m
  <2>1. S \in SUBSET Nat /\ \A x \in S : x <= n
    OBVIOUS
  <2> QED
    BY <2>1, MaxExists
<1>2. S \in SUBSET Int
  OBVIOUS
<1>3. Max(S) = m
  BY <1>1, <1>2, MaxIs
<1> QED
  BY <1>1, <1>3

LEMMA MinFacts ==
    ASSUME NEW S \in SUBSET Nat, S # {}
    PROVE  Min(S) \in S /\ \A x \in S : Min(S) <= x
<1>1. PICK m \in S : \A x \in S : m <= x
  BY MinExists
<1>2. S \in SUBSET Int
  OBVIOUS
<1>3. Min(S) = m
  BY <1>1, <1>2, MinIs
<1> QED
  BY <1>1, <1>3

\* Elements of a finite set that are totally ordered have each a place.
LEMMA Ranked ==
    ASSUME NEW S, IsFiniteSet(S), NEW R \in SUBSET (S \X S),
           \A x \in S : <<x, x>> \notin R,
           \A x, y, z \in S : <<x, y>> \in R /\ <<y, z>> \in R => <<x, z>> \in R,
           \A x, y \in S : x # y => <<x, y>> \in R \/ <<y, x>> \in R
    PROVE  LET rank == [x \in S |-> Cardinality({y \in S : <<y, x>> \in R})]
           IN rank \in Injection(S, 0 .. Cardinality(S) - 1)
                \cap Surjection(S, 0 .. Cardinality(S) - 1)
<1> DEFINE below(x) == {y \in S : <<y, x>> \in R}
           rank == [x \in S |-> Cardinality(below(x))]
           n == Cardinality(S)
           places == 0 .. n - 1
<1>1. n \in Nat
  BY FS_CardinalityType
<1>2. ASSUME NEW x \in S PROVE IsFiniteSet(below(x)) /\ Cardinality(below(x)) \in Nat
  <2>1. below(x) \in SUBSET S
    OBVIOUS
  <2> HIDE DEF below
  <2>2. IsFiniteSet(below(x))
    BY <2>1, FS_Subset
  <2> QED
    BY <2>2, FS_CardinalityType
<1>3. ASSUME NEW x \in S, NEW y \in S, <<x, y>> \in R
      PROVE  Cardinality(below(x)) < Cardinality(below(y))
  <2>1. x \notin below(x)
    OBVIOUS
  <2>2. below(x) \cup {x} \in SUBSET below(y)
    BY <1>3
  <2> HIDE DEF below
  <2>3. Cardinality(below(x) \cup {x}) = Cardinality(below(x)) + 1
    BY <1>2, <2>1, FS_AddElement
  <2>4. Cardinality(below(x) \cup {x}) <= Cardinality(below(y))
    BY <1>2, <2>2, FS_Subset
  <2> QED
    BY <1>2, <2>3, <2>4
<1>4. ASSUME NEW x \in S PROVE Cardinality(below(x)) \in places
  <2>1. below(x) \in SUBSET (S \ {x})
    OBVIOUS
  <2>2. IsFiniteSet(S \ {x}) /\ Cardinality(S \ {x}) = n - 1
    BY FS_RemoveElement
  <2> HIDE DEF below
  <2>3. Cardinality(below(x)) <= n - 1
    <3> HIDE DEF n
    <3> QED
      BY <2>1, <2>2, FS_Subset
  <2> HIDE DEF n
  <2> QED
    BY <1>1, <1>2, <2>3
<1>5. rank \in [S -> places]
  <2> HIDE DEF below, places
  <2> QED
    BY <1>4
<1>6. ASSUME NEW x \in S, NEW y \in S, rank[x] = rank[y] PROVE x = y
  <2>1. rank[x] = Cardinality(below(x)) /\ rank[y] = Cardinality(below(y))
    OBVIOUS
  <2> HIDE DEF below, rank
  <2>2. ~(Cardinality(below(x)) < Cardinality(below(y)))
        /\ ~(Cardinality(below(y)) < Cardinality(below(x)))
    <3>1. Cardinality(below(x)) \in Nat /\ Cardinality(below(y)) \in Nat
      BY <1>2
    <3>2. Cardinality(below(x)) = Cardinality(below(y))
      BY <1>6, <2>1
    <3> QED
      BY <3>1, <3>2
  <2>3. <<x, y>> \notin R /\ <<y, x>> \notin R
    BY <1>3, <2>2
  <2> QED
    BY <2>3
<1>7. rank \in Injection(S, places)
  <2>1. DOMAIN rank = S
    OBVIOUS
  <2> HIDE DEF rank, places
  <2> QED
    BY <1>5, <1>6, <2>1 DEF Injection, IsInjective
<1>8. IsFiniteSet(places) /\ Cardinality(places) = n
  <2> HIDE DEF n
  <2>1. n - 1 \in Int /\ 0 \in Int
    BY <1>1
  <2>2. IsFiniteSet(places) /\ Cardinality(places) = IF 0 > n - 1 THEN 0 ELSE (n - 1) - 0 + 1
    BY <2>1, FS_Interval
  <2> QED
    BY <1>1, <2>2
<1>9. rank \in Surjection(S, places)
  <2> HIDE DEF rank, places
  <2> QED
    BY <1>7, <1>8, FS_Injection
<1> QED
  BY <1>7, <1>9

-----------------------------------------------------------------------------
(* Prices that a cycle leaves *)

\* Every price is in the index, unless a pipeline did not reach ZADD, and every
\* price is known to the service, unless it is loose.
Owned ==
    /\ price \in [Markets -> Nat]
    /\ Present \subseteq index \cup torn
    /\ Present \subseteq published \cup loose \cup IF pc = "expire" THEN DOMAIN plan ELSE {}
    /\ pc = "withdraw" => Present \subseteq todo \cup loose
    /\ pc = "finish" => Present \subseteq published \cup torn
    /\ pc = "down" => outcome = "none"
    /\ WithdrawsOwn

LEMMA InitOwned == Init => Owned
<1> SUFFICES ASSUME Init PROVE Owned
  OBVIOUS
<1>1. price \in [Markets -> Nat] /\ Present = {}
  BY DEF Init, Present
<1>2. pc = "down" /\ outcome = "none"
  BY DEF Init
<1> QED
  BY <1>1, <1>2 DEF Owned, WithdrawsOwn

\* A step within a cycle that changes no price and nothing that is known of them.
LEMMA OwnedKept ==
    ASSUME Owned, UNCHANGED <<price, index, published, loose, torn>>,
           pc' \notin {"idle", "finish", "down", "withdraw"}, pc # "expire"
    PROVE  Owned'
BY DEF Owned, WithdrawsOwn, Present

LEMMA TickOwned == ASSUME Owned, Tick PROVE Owned'
<1>1. /\ price' = [m \in Markets |-> IF price[m] > 0 THEN price[m] - 1 ELSE 0]
      /\ loose' = loose \cap Present' /\ torn' = torn \cap Present'
      /\ UNCHANGED <<index, pc, todo, plan, published, outcome>>
  BY DEF Tick, locals
<1>2. price' \in [Markets -> Nat] /\ Present' \subseteq Present
  BY <1>1 DEF Owned, Present
<1> QED
  BY <1>1, <1>2 DEF Owned, WithdrawsOwn

\* A price that becomes unavailable.
LEMMA UnavailableOwned ==
    ASSUME price \in [Markets -> Nat], NEW m \in Markets, Unavailable(m)
    PROVE  /\ price' \in [Markets -> Nat] /\ Present' = Present \ {m}
           /\ index' = index \ {m} /\ torn' = torn \ {m}
BY DEF Unavailable, Present

\* The prices that a pipeline sets.
LEMMA PricesOwned ==
    ASSUME price \in [Markets -> Nat], TTL \in Nat, NEW S, price' = Prices(S)
    PROVE  price' \in [Markets -> Nat] /\ Present' \subseteq Present \cup S
BY DEF Prices, Present

LEMMA ServiceOwned == ASSUME ConstantsOK, Owned, Service PROVE Owned'
<1>1. CASE Start
  <2>1. pc' = "idle" /\ pc = "down" /\ UNCHANGED <<price, index, published, outcome, loose, torn>>
    BY <1>1 DEF Start, keys, history
  <2> QED
    BY <2>1 DEF Owned, Present, WithdrawsOwn
<1>2. CASE Consume \/ ReadInputs \/ Metadata \/ Price
  <2>1. /\ UNCHANGED <<price, index, published, loose, torn>>
        /\ pc' \notin {"idle", "finish", "down", "withdraw"} /\ pc # "expire"
    BY <1>2 DEF Consume, ReadInputs, Metadata, Price, keys, memory, history
  <2> QED
    BY <2>1, OwnedKept
<1>3. CASE Unusable
  <2>1. /\ UNCHANGED <<price, index, published, loose, torn>> /\ todo' = published
        /\ pc = "inputs" /\ pc' = "withdraw"
    BY <1>3 DEF Unusable, Withdraws, keys, memory, history
  <2> QED
    BY <2>1 DEF Owned, Present, WithdrawsOwn
<1>4. ASSUME NEW m \in Markets, Withdraw(m) PROVE Owned'
  <2>1. /\ pc \in {"withdraw", "publish"} /\ UNCHANGED <<pc, plan, published, loose>>
        /\ todo' = todo \ {m} /\ Unavailable(m)
    BY <1>4 DEF Withdraw, memory
  <2>2. /\ price' \in [Markets -> Nat] /\ Present' = Present \ {m}
        /\ index' = index \ {m} /\ torn' = torn \ {m}
    BY <2>1, UnavailableOwned DEF Owned
  <2> QED
    BY <2>1, <2>2 DEF Owned, WithdrawsOwn
<1>5. ASSUME NEW m \in Markets, Retire(m) PROVE Owned'
  <2>1. pc = "retire" /\ UNCHANGED <<pc, plan, published, loose>> /\ Unavailable(m)
    BY <1>5 DEF Retire, cycle, locals
  <2>2. /\ price' \in [Markets -> Nat] /\ Present' = Present \ {m}
        /\ index' = index \ {m} /\ torn' = torn \ {m}
    BY <2>1, UnavailableOwned DEF Owned
  <2> QED
    BY <2>1, <2>2 DEF Owned, WithdrawsOwn
<1>6. CASE Close
  <2>1. /\ pc = "withdraw" /\ todo = {} /\ pc' = "idle" /\ outcome' = "closed"
        /\ UNCHANGED <<price, index, loose, torn>>
    BY <1>6 DEF Close, keys
  <2> QED
    BY <2>1 DEF Owned, Present, WithdrawsOwn
<1>7. CASE Publish
  <2>1. /\ pc' = "expire" /\ UNCHANGED <<plan, published, loose>>
        /\ price' = Prices(DOMAIN plan) /\ index' = index \cup DOMAIN plan
        /\ torn' = torn \ DOMAIN plan
    BY <1>7 DEF Publish, cycle, locals, memory
  <2>2. price' \in [Markets -> Nat] /\ Present' \subseteq Present \cup DOMAIN plan
    BY <2>1, PricesOwned DEF Owned, ConstantsOK
  <2>3. pc = "publish"
    BY <1>7 DEF Publish
  <2> QED
    BY <2>1, <2>2, <2>3 DEF Owned, WithdrawsOwn
<1>8. CASE ExpireInactive
  <2>1. /\ pc' = "finish" /\ published' = DOMAIN plan
        /\ price' = [m \in Markets |-> IF m \in index \ DOMAIN plan THEN 0 ELSE price[m]]
        /\ index' = index \cap DOMAIN plan
        /\ torn' = torn \ (index \ DOMAIN plan) /\ loose' = torn'
    BY <1>8 DEF ExpireInactive
  <2>2. price' \in [Markets -> Nat] /\ Present' = Present \ (index \ DOMAIN plan)
    BY <2>1 DEF Owned, Present
  <2> QED
    BY <2>1, <2>2 DEF Owned, WithdrawsOwn
<1>9. CASE Finish
  <2>1. /\ pc = "finish" /\ pc' = "idle" /\ outcome' = "priced"
        /\ UNCHANGED <<price, index, published, loose, torn>>
    BY <1>9 DEF Finish, keys
  <2> QED
    BY <2>1 DEF Owned, Present, WithdrawsOwn
<1> QED
  BY <1>1, <1>2, <1>3, <1>4, <1>5, <1>6, <1>7, <1>8, <1>9 DEF Service

LEMMA FailuresOwned ==
    ASSUME ConstantsOK, Owned,
           \/ ForecastFails \/ Fail \/ Crash
           \/ \E s \in SUBSET Markets, m \in Markets : PublishBreaks(s, m)
    PROVE  Owned'
<1>1. CASE ForecastFails
  <2>1. /\ UNCHANGED <<price, index, published, loose, torn>> /\ todo' = published
        /\ pc = "inputs" /\ pc' = "withdraw"
    BY <1>1 DEF ForecastFails, Withdraws, keys, memory, history
  <2> QED
    BY <2>1 DEF Owned, Present, WithdrawsOwn
<1>2. CASE Fail
  <2>1. /\ pc' = "idle" /\ outcome' = "none" /\ loose' = loose \cup (Present \ published)
        /\ UNCHANGED <<price, index, published, torn>>
    BY <1>2 DEF Fail, keys
  <2> QED
    BY <2>1 DEF Owned, Present, WithdrawsOwn
<1>3. CASE Crash
  <2>1. /\ pc' = "down" /\ outcome' = "none" /\ loose' = Present
        /\ UNCHANGED <<price, index, torn>>
    BY <1>3 DEF Crash, keys
  <2> QED
    BY <2>1 DEF Owned, Present, WithdrawsOwn
<1>4. ASSUME NEW s \in SUBSET Markets, NEW m \in Markets, PublishBreaks(s, m)
      PROVE  Owned'
  <2>1. /\ pc = "publish" /\ pc' = "idle" /\ outcome' = "none" /\ published' = published
        /\ price' = Prices(s \cup {m}) /\ index' = index \cup s
        /\ loose' = loose \cup ((Present \cup s \cup {m}) \ published)
        /\ torn' = (torn \ s) \cup ({m} \ index)
    BY <1>4 DEF PublishBreaks
  <2>2. price' \in [Markets -> Nat] /\ Present' \subseteq Present \cup s \cup {m}
    BY <2>1, PricesOwned DEF Owned, ConstantsOK
  <2> QED
    BY <2>1, <2>2 DEF Owned, WithdrawsOwn
<1> QED
  BY <1>1, <1>2, <1>3, <1>4

LEMMA NextOwned == ASSUME ConstantsOK PROVE Owned /\ [Next]_vars => Owned'
<1> SUFFICES ASSUME Owned, [Next]_vars PROVE Owned'
  OBVIOUS
<1>1. CASE UNCHANGED vars \/ (\E i \in Inputs : Write(i)) \/ \E m \in Markets : Quote(m)
  <2>1. UNCHANGED <<pc, price, index, published, outcome, loose, torn, todo, plan>>
    BY <1>1 DEF vars, Write, Quote, keys, cycle, locals, memory, history
  <2> QED
    BY <2>1 DEF Owned, Present, WithdrawsOwn
<1>2. CASE Tick
  BY <1>2, TickOwned
<1>3. CASE Service
  BY <1>3, ServiceOwned
<1>4. CASE \/ ForecastFails \/ Fail \/ Crash
           \/ \E s \in SUBSET Markets, m \in Markets : PublishBreaks(s, m)
  BY <1>4, FailuresOwned
<1> QED
  BY <1>1, <1>2, <1>3, <1>4 DEF Next

\* A cycle leaves its own prices and no other, and none when an input was not
\* usable, but for what cycles that failed have left (cycle, publish_prices
\* and expire_inactive, for every set of contracts, TTL and number of faults).
THEOREM PricesAreOwned == Spec => []WithdrawsOwn
<1>1. Owned => WithdrawsOwn
  BY DEF Owned
<1> QED
  BY <1>1, InitOwned, NextOwned, ConstantsOK, PTL DEF Spec

-----------------------------------------------------------------------------
(* Quotes that edges come from *)

\* The newest entry of a contract that was delivered.
Delivered(m) == Newest(m, 1 .. next)

\* The entry is too old for an edge in this cycle, and in every later one.
Stale(i) == i \in 1 .. Len(log) /\ log[i].age - lag > TickerMaxAge

\* The ticker of a contract: none, the newest that was delivered, or a stale one.
\* One that start has read may not be delivered yet.
Tracked(m) ==
    \/ tickers[m] = None \/ tickers[m] = Delivered(m) \/ Stale(tickers[m])
    \/ pc = "idle" /\ tickers[m] \in next + 1 .. Len(log) /\ log[tickers[m]].market = m

\* A pending entry is older than the time since its delivery.
Aged(i) == pend[i] \in Nat /\ (log[i].age > pend[i] \/ log[i].age >= TickerCap)

Entries ==
    /\ log \in Seq([market : Markets, age : Nat \ {0}])
    /\ next \in 0 .. Len(log)
    /\ lag \in 0 .. MaxLag
    /\ \A i \in DOMAIN pend : i \in 1 .. next /\ Aged(i)

Listed == rest.markets \subseteq Markets /\ meta \subseteq Markets

Quotes == pc = "publish" => \A m \in DOMAIN plan : m \in Markets /\ plan[m] \in {None, Delivered(m)}

Priced ==
    /\ Entries
    /\ DOMAIN tickers = Markets
    /\ pc = "down" => \A m \in Markets : tickers[m] = None
    /\ \A m \in Markets : Tracked(m)
    /\ Listed
    /\ Quotes

\* What Max is: the greatest of a bounded set.
LEMMA NewestFacts ==
    ASSUME NEW n \in Nat, NEW S \in SUBSET (1..n), NEW m
    PROVE  /\ Newest(m, S) \in S \cup {None}
           /\ Newest(m, S) # None => log[Newest(m, S)].market = m
           /\ \A i \in S : log[i].market = m =>
                  /\ Newest(m, S) # None
                  /\ i <= Newest(m, S)
<1> DEFINE of == {i \in S : log[i].market = m}
<1>1. CASE of = {}
  BY <1>1 DEF Newest, None
<1>2. CASE of # {}
  <2>1. of \in SUBSET Nat /\ \A x \in of : x <= n
    <3>1. \A x \in S : x \in Nat /\ x <= n
      OBVIOUS
    <3>2. of \subseteq S
      OBVIOUS
    <3> QED
      BY <3>1, <3>2
  <2>2. \E x \in of : \A y \in of : y <= x
    <3> HIDE DEF of
    <3> QED
      BY <1>2, <2>1, MaxExists
  <2>3. Newest(m, S) = Max(of)
    BY <1>2 DEF Newest
  <2>4. Max(of) \in of /\ \A y \in of : y <= Max(of)
    <3>1. \E x \in of : \A y \in of : x >= y
      BY <2>1, <2>2
    <3> HIDE DEF of
    <3> QED
      BY <3>1 DEF Max
  <2> QED
    BY <2>3, <2>4 DEF None
<1> QED
  BY <1>1, <1>2

\* An entry of the contract that no other of S exceeds is the newest.
LEMMA NewestUnique ==
    ASSUME NEW n \in Nat, NEW S \in SUBSET (1..n), NEW m,
           NEW k \in S, log[k].market = m,
           \A i \in S : log[i].market = m => i <= k
    PROVE  Newest(m, S) = k
<1>1. /\ Newest(m, S) \in S /\ Newest(m, S) # None /\ k <= Newest(m, S)
      /\ log[Newest(m, S)].market = m
  <2>1. /\ Newest(m, S) \in S \cup {None}
        /\ Newest(m, S) # None => log[Newest(m, S)].market = m
        /\ \A i \in S : log[i].market = m =>
               /\ Newest(m, S) # None
               /\ i <= Newest(m, S)
    BY NewestFacts, Zenon
  <2>2. Newest(m, S) # None /\ k <= Newest(m, S)
    BY <2>1
  <2> QED
    BY <2>1, <2>2
<1>2. PICK x \in S : x = Newest(m, S)
  BY <1>1
<1>3. x <= k /\ k <= x /\ x \in Nat /\ k \in Nat
  BY <1>1, <1>2
<1> QED
  BY <1>2, <1>3

LEMMA EntryType ==
    ASSUME Entries, NEW i \in 1..Len(log)
    PROVE  /\ log[i] \in [market : Markets, age : Nat \ {0}]
           /\ log[i].market \in Markets /\ log[i].age \in Nat /\ log[i].age > 0
<1>1. log[i] \in [market : Markets, age : Nat \ {0}]
  <2> DEFINE record == [market : Markets, age : Nat \ {0}]
  <2>1. log \in Seq(record)
    BY DEF Entries
  <2> HIDE DEF record
  <2>2. log[i] \in record
    BY <2>1
  <2> QED
    BY <2>2 DEF record
<1> QED
  BY <1>1

LEMMA LeastFacts ==
    ASSUME NEW a \in Nat, NEW b \in Nat
    PROVE  /\ Least(a, b) \in Nat /\ Least(a, b) <= a /\ Least(a, b) <= b
           /\ Least(a, b) = a \/ Least(a, b) = b
BY DEF Least

LEMMA DeliveredKept ==
    ASSUME next' = next, \A i \in 1..next : log'[i].market = log[i].market, NEW m
    PROVE  Delivered(m)' = Delivered(m)
<1>1. {i \in 1..next' : log'[i].market = m} = {i \in 1..next : log[i].market = m}
  OBVIOUS
<1> QED
  BY <1>1 DEF Delivered, Newest

LEMMA InitPriced == ConstantsOK /\ Init => Priced
<1> SUFFICES ASSUME ConstantsOK, Init PROVE Priced
  OBVIOUS
<1>1. Entries
  BY DEF Entries, Init, ConstantsOK
<1>2. DOMAIN tickers = Markets /\ \A m \in Markets : tickers[m] = None
  BY DEF Init
<1>3. Listed /\ Quotes
  BY DEF Init, Listed, Quotes
<1> QED
  BY <1>1, <1>2, <1>3 DEF Priced, Tracked

\* A step within or at the end of a cycle: the tickers it does not keep it drops.
LEMMA PricedKept ==
    ASSUME Priced, UNCHANGED <<log, next, lag>>, pc \notin {"down", "idle"}, pc' # "down",
           DOMAIN pend' \subseteq DOMAIN pend, \A i \in DOMAIN pend' : pend'[i] = pend[i],
           DOMAIN tickers' = Markets, \A m \in Markets : tickers'[m] \in {tickers[m], None},
           Listed', Quotes'
    PROVE  Priced'
<1>1. Entries'
  BY DEF Priced, Entries, Aged
<1>2. ASSUME NEW m \in Markets PROVE Tracked(m)'
  <2>1. Delivered(m)' = Delivered(m)
    BY DeliveredKept
  <2>2. tickers[m] = None \/ tickers[m] = Delivered(m) \/ Stale(tickers[m])
    BY DEF Priced, Tracked
  <2>3. Stale(tickers[m]) /\ tickers'[m] = tickers[m] => Stale(tickers[m])'
    BY DEF Stale
  <2> QED
    BY <2>1, <2>2, <2>3 DEF Tracked
<1> QED
  BY <1>1, <1>2 DEF Priced

\* Such a step, if it keeps the tickers and is not followed by publishing.
LEMMA CyclePriced ==
    ASSUME Priced, UNCHANGED <<log, next, lag, pend, tickers>>, pc \notin {"down", "idle"},
           pc' \notin {"down", "publish"}, Listed'
    PROVE  Priced'
<1>1. Quotes' /\ DOMAIN tickers' = Markets
  BY DEF Quotes, Priced
<1> QED
  BY <1>1, PricedKept

\* The steps that end a cycle.
LEMMA EndPriced ==
    ASSUME Priced, Close \/ Finish \/ Fail \/ \E s \in SUBSET Markets, m \in Markets : PublishBreaks(s, m)
    PROVE  Priced'
<1>1. /\ UNCHANGED <<log, next, lag, tickers, rest>> /\ pc \notin {"down", "idle"}
      /\ pc' = "idle" /\ meta' = {} /\ pend' \in {pend, Acked}
  BY DEF Close, Finish, Fail, PublishBreaks, stream, Forget
<1>2. DOMAIN pend' \subseteq DOMAIN pend /\ \A i \in DOMAIN pend' : pend'[i] = pend[i]
  BY <1>1 DEF Acked
<1>3. Listed' /\ Quotes' /\ DOMAIN tickers' = Markets
  BY <1>1 DEF Listed, Quotes, Priced
<1>4. pc' # "down" /\ \A m \in Markets : tickers'[m] \in {tickers[m], None}
  BY <1>1
<1> QED
  BY <1>1, <1>2, <1>3, <1>4, PricedKept

\* The edges of a plan: QuoteOf takes no stale ticker.
LEMMA PricePriced == ASSUME ConstantsOK, Priced, Price PROVE Priced'
<1>1. /\ UNCHANGED <<log, next, lag, pend, tickers, rest, meta>>
      /\ pc = "retire" /\ pc' = "publish"
      /\ plan' = [m \in {k \in Window : InLastHour(k)} |-> QuoteOf(m)]
  BY DEF Price, stream, memory
<1>2. ASSUME NEW m \in DOMAIN plan'
      PROVE  m \in Markets /\ plan'[m] \in {None, Delivered(m)}
  <2>1. m \in meta /\ tickers[m] # None /\ plan'[m] = QuoteOf(m)
    BY <1>1, <1>2 DEF Window
  <2>2. m \in Markets
    BY <2>1 DEF Priced, Listed
  <2>3. CASE tickers[m] = Delivered(m)
    BY <2>1, <2>2, <2>3 DEF QuoteOf
  <2>4. CASE Stale(tickers[m])
    <3>1. ~IsFresh(log[tickers[m]].age, TickerMaxAge)
      <4>1. PICK i \in 1..Len(log) : i = tickers[m] /\ log[i].age - lag > TickerMaxAge
        BY <2>4 DEF Stale
      <4>2. log[i].age \in Nat
        BY EntryType DEF Priced
      <4>3. lag \in Int /\ TickerMaxAge \in Nat
        BY DEF Priced, Entries, ConstantsOK
      <4> QED
        <5>1. PICK age \in Nat : age = log[i].age
          BY <4>2
        <5>2. age - lag > TickerMaxAge
          BY <4>1, <5>1
        <5>3. ~(age - lag <= TickerMaxAge)
          BY <4>3, <5>2
        <5> QED
          BY <4>1, <5>1, <5>3 DEF IsFresh
    <3> QED
      BY <2>1, <2>2, <3>1 DEF QuoteOf
  <2> QED
    BY <1>1, <2>1, <2>2, <2>3, <2>4 DEF Priced, Tracked
<1>3. Quotes'
  <2>1. \A m \in Markets : Delivered(m)' = Delivered(m)
    BY <1>1, DeliveredKept
  <2> QED
    BY <1>2, <2>1 DEF Quotes
<1>4. Listed' /\ DOMAIN tickers' = Markets
  BY <1>1 DEF Listed, Priced
<1> QED
  BY <1>1, <1>3, <1>4, PricedKept

LEMMA CycleStepsPriced ==
    ASSUME ConstantsOK, Priced,
           \/ ReadInputs \/ Unusable \/ ForecastFails \/ Metadata \/ Price \/ Publish
           \/ ExpireInactive \/ \E m \in Markets : Withdraw(m) \/ Retire(m)
    PROVE  Priced'
<1>1. CASE ReadInputs \/ Unusable \/ ForecastFails \/ Publish \/ ExpireInactive
  <2>1. /\ UNCHANGED <<log, next, lag, pend, tickers, rest, meta>> /\ pc \notin {"down", "idle"}
        /\ pc' \notin {"down", "publish"}
    BY <1>1 DEF ReadInputs, Unusable, ForecastFails, Withdraws, Publish, ExpireInactive, stream,
                cycle, locals, memory
  <2>2. Listed'
    BY <2>1 DEF Priced, Listed
  <2> QED
    BY <2>1, <2>2, CyclePriced
<1>2. CASE Metadata
  <2>1. /\ UNCHANGED <<log, next, lag, pend, tickers>> /\ pc = "metadata" /\ pc' = "retire"
    BY <1>2 DEF Metadata, stream
  <2>2. Listed'
    <3>1. CASE rest.age < Refresh
      BY <1>2, <3>1 DEF Metadata, Priced, Listed
    <3>2. CASE meta' = {m \in Markets : EventOf[m] > hour} /\ rest' = [markets |-> meta', age |-> 0]
      BY <3>2 DEF Listed
    <3>3. CASE meta' = {} /\ rest' = rest
      BY <3>3 DEF Listed, Priced
    <3> QED
      BY <1>2, <3>1, <3>2, <3>3 DEF Metadata
  <2> QED
    BY <2>1, <2>2, CyclePriced
<1>3. CASE Price
  BY <1>3, PricePriced
<1>4. ASSUME NEW m \in Markets, Withdraw(m) PROVE Priced'
  <2>1. /\ UNCHANGED <<log, next, lag, pend, tickers, rest, meta, plan, pc>>
        /\ pc \notin {"down", "idle"}
    BY <1>4 DEF Withdraw, stream, memory
  <2>2. Quotes'
    <3>1. \A k \in Markets : Delivered(k)' = Delivered(k)
      BY <2>1, DeliveredKept
    <3> QED
      BY <2>1, <3>1 DEF Priced, Quotes
  <2>3. Listed' /\ DOMAIN tickers' = Markets
    BY <2>1 DEF Priced, Listed
  <2> QED
    BY <2>1, <2>2, <2>3, PricedKept
<1>5. ASSUME NEW m \in Markets, Retire(m) PROVE Priced'
  <2>1. /\ UNCHANGED <<log, next, lag, pend, rest, meta, pc>> /\ pc = "retire"
        /\ tickers' = [tickers EXCEPT ![m] = None]
    BY <1>5 DEF Retire, stream, cycle, locals
  <2>2. Listed' /\ Quotes' /\ DOMAIN tickers' = Markets
    BY <2>1 DEF Priced, Listed, Quotes
  <2>3. pc' # "down" /\ \A k \in Markets : tickers'[k] \in {tickers[k], None}
    BY <2>1 DEF Priced
  <2> QED
    BY <2>1, <2>2, <2>3, PricedKept
<1> QED
  BY <1>1, <1>2, <1>3, <1>4, <1>5

\* Time makes nothing fresh.
LEMMA TickPriced == ASSUME ConstantsOK, Priced, Tick PROVE Priced'
<1>1. /\ lag' = Least(lag + 1, MaxLag) /\ pend' = [i \in DOMAIN pend |-> Least(pend[i] + 1, PendingIdle)]
      /\ log' = [i \in DOMAIN log |-> [log[i] EXCEPT !.age = Least(@ + 1, TickerCap)]]
      /\ rest'.markets = rest.markets /\ UNCHANGED <<next, pc, meta, plan, tickers>>
  <2>1. rest' = [rest EXCEPT !.age = Least(@ + 1, Refresh)]
    BY DEF Tick
  <2>2. rest'.markets = rest.markets
    BY <2>1
  <2> QED
    BY <2>2 DEF Tick, locals
<1>2. /\ MaxLag \in Nat /\ PendingIdle \in Nat /\ TickerMaxAge \in Nat
      /\ TickerCap = TickerMaxAge + MaxLag + 1
  BY DEF ConstantsOK, TickerCap
<1>3. /\ Len(log') = Len(log) /\ Len(log) \in Nat /\ log' \in Seq([market : Markets, age : Nat \ {0}])
      /\ \A i \in 1..Len(log) : log'[i].market = log[i].market /\ log'[i].age = Least(log[i].age + 1, TickerCap)
  <2>1. DOMAIN log = 1..Len(log) /\ Len(log) \in Nat
    BY DEF Priced, Entries
  <2>2. ASSUME NEW i \in 1..Len(log)
        PROVE  /\ log'[i] = [log[i] EXCEPT !.age = Least(@ + 1, TickerCap)]
               /\ log[i] \in [market : Markets, age : Nat \ {0}]
    <3>1. log'[i] = [log[i] EXCEPT !.age = Least(@ + 1, TickerCap)]
      <4> QED
        BY <1>1, <2>1
    <3>2. log[i] \in [market : Markets, age : Nat \ {0}]
      BY EntryType DEF Priced
    <3> QED
      BY <3>1, <3>2
  <2>3. ASSUME NEW i \in 1..Len(log)
        PROVE  /\ log'[i] \in [market : Markets, age : Nat \ {0}]
               /\ log'[i].market = log[i].market
               /\ log'[i].age = Least(log[i].age + 1, TickerCap)
    <3>1. /\ log[i].age + 1 \in Nat /\ log[i].age + 1 > 0 /\ log[i].market \in Markets
          /\ TickerCap \in Nat /\ TickerCap > 0
      BY <1>2, EntryType DEF Priced
    <3>2. Least(log[i].age + 1, TickerCap) \in Nat \ {0}
      BY <3>1 DEF Least
    <3>3. log'[i] = [market |-> log[i].market, age |-> Least(log[i].age + 1, TickerCap)]
      <4> QED
        BY <2>2
    <3> QED
      BY <3>1, <3>2, <3>3
  <2>4. log' = [i \in 1..Len(log) |-> log'[i]]
    BY <1>1, <2>1
  <2>5. log' \in Seq([market : Markets, age : Nat \ {0}]) /\ Len(log') = Len(log)
    <3> DEFINE record == [market : Markets, age : Nat \ {0}]
    <3>1. \A i \in 1..Len(log) : log'[i] \in record
      BY <2>3
    <3> HIDE DEF record
    <3>2. log' \in [1..Len(log) -> record]
      BY <2>4, <3>1
    <3>3. log' \in Seq(record) /\ Len(log') = Len(log)
      BY <2>1, <3>2
    <3> QED
      BY <3>3 DEF record
  <2> QED
    BY <2>1, <2>3, <2>5
<1>4. Entries'
  <2>1. lag' \in 0..MaxLag /\ next' \in 0..Len(log')
    <3>1. lag + 1 \in Nat /\ next \in 0..Len(log)
      BY <1>2 DEF Priced, Entries
    <3>2. lag' \in Nat /\ lag' <= MaxLag
      BY <1>1, <1>2, <3>1, LeastFacts
    <3> QED
      BY <1>1, <1>2, <1>3, <3>1, <3>2
  <2>2. ASSUME NEW i \in DOMAIN pend' PROVE i \in 1..next' /\ Aged(i)'
    <3>1. i \in 1..next /\ i \in 1..Len(log) /\ Aged(i) /\ pend'[i] = Least(pend[i] + 1, PendingIdle)
      BY <1>1 DEF Priced, Entries
    <3>2. log[i].age \in Nat \ {0} /\ log'[i].age = Least(log[i].age + 1, TickerCap)
      BY <1>3, <3>1, EntryType DEF Priced
    <3>3. TickerCap' = TickerCap
      BY DEF TickerCap
    <3>4. pend[i] \in Nat /\ (log[i].age > pend[i] \/ log[i].age >= TickerCap)
      BY <3>1 DEF Aged
    <3>5. pend'[i] \in Nat /\ (log'[i].age > pend'[i] \/ log'[i].age >= TickerCap)
      <4>1. log[i].age + 1 \in Nat /\ pend[i] + 1 \in Nat /\ TickerCap \in Nat
        BY <1>2, <3>2, <3>4
      <4>2. pend'[i] \in Nat /\ pend'[i] <= pend[i] + 1
        <5>1. pend'[i] = Least(pend[i] + 1, PendingIdle) /\ PendingIdle \in Nat
          BY <1>2, <3>1
        <5>2. PICK p \in Nat : p = pend[i] + 1
          BY <4>1
        <5>3. Least(p, PendingIdle) \in Nat /\ Least(p, PendingIdle) <= p
          BY <5>1, LeastFacts
        <5> QED
          BY <5>1, <5>2, <5>3
      <4>3. log'[i].age = log[i].age + 1 \/ log'[i].age = TickerCap
        BY <3>2, <4>1, LeastFacts
      <4>4. log'[i].age <= TickerCap /\ (log[i].age >= TickerCap => log'[i].age = TickerCap)
        BY <3>2, <3>4, <4>1, LeastFacts DEF Least
      <4> HIDE DEF TickerCap
      <4> QED
        BY <3>2, <3>4, <4>1, <4>2, <4>3, <4>4
    <3> QED
      BY <1>1, <3>1, <3>3, <3>5 DEF Aged
  <2> QED
    BY <1>3, <2>1, <2>2 DEF Entries
<1>5. ASSUME NEW m \in Markets PROVE Delivered(m)' = Delivered(m)
  <2>1. \A i \in 1..next : i \in 1..Len(log)
    BY <1>3 DEF Priced, Entries
  <2>2. \A i \in 1..next : log'[i].market = log[i].market
    BY <1>3, <2>1
  <2> QED
    BY <1>1, <2>2, DeliveredKept
<1>6. ASSUME NEW m \in Markets PROVE Tracked(m)'
  <2>1. ASSUME Stale(tickers[m]) PROVE Stale(tickers[m])'
    <3>1. PICK i \in 1..Len(log) : i = tickers[m] /\ log[i].age - lag > TickerMaxAge
      BY <2>1 DEF Stale
    <3>2. lag \in 0..MaxLag /\ log[i].age \in Nat \ {0}
      BY EntryType DEF Priced, Entries
    <3>3. log'[i].age = Least(log[i].age + 1, TickerCap) /\ lag' = Least(lag + 1, MaxLag)
      BY <1>1, <1>3
    <3>4. log'[i].age - lag' > TickerMaxAge
      <4>1. log[i].age + 1 \in Nat /\ lag + 1 \in Nat /\ TickerCap \in Nat
        BY <1>2, <3>2
      <4>2. lag' \in Nat /\ lag' <= lag + 1 /\ lag' <= MaxLag
        BY <1>2, <3>3, <4>1, LeastFacts
      <4>3. log'[i].age = log[i].age + 1 \/ log'[i].age = TickerMaxAge + MaxLag + 1
        BY <1>2, <3>3, <4>1, LeastFacts
      <4>4. PICK a \in Nat, b \in Nat : a = log[i].age /\ b = log'[i].age
        BY <1>2, <4>1, <4>3, <3>2
      <4>5. a - lag > TickerMaxAge /\ (b = a + 1 \/ b = TickerMaxAge + MaxLag + 1)
        BY <3>1, <4>3, <4>4
      <4>6. PICK l \in Nat, k \in Nat : l = lag /\ k = lag'
        BY <3>2, <4>2
      <4>7. a - l > TickerMaxAge /\ k <= l + 1 /\ k <= MaxLag
        BY <4>2, <4>5, <4>6
      <4>8. b - k > TickerMaxAge
        BY <1>2, <4>5, <4>7
      <4> QED
        BY <4>4, <4>6, <4>8
    <3> QED
      BY <1>1, <1>3, <3>1, <3>4 DEF Stale
  <2>2. ASSUME tickers[m] \in next + 1 .. Len(log), log[tickers[m]].market = m
        PROVE  tickers'[m] \in next' + 1 .. Len(log') /\ log'[tickers'[m]].market = m
    <3>1. tickers[m] \in 1..Len(log)
      BY <1>3, <2>2 DEF Priced, Entries
    <3> QED
      BY <1>1, <1>3, <2>2, <3>1
  <2> QED
    BY <1>1, <1>5, <2>1, <2>2 DEF Priced, Tracked
<1>7. Listed' /\ Quotes'
  BY <1>1, <1>5 DEF Priced, Listed, Quotes
<1> QED
  BY <1>1, <1>4, <1>6, <1>7 DEF Priced

LEMMA QuotePriced == ASSUME Priced, NEW m \in Markets, Quote(m) PROVE Priced'
<1>1. /\ log' = Append(log, [market |-> m, age |-> 1])
      /\ UNCHANGED <<next, lag, pend, tickers, pc, rest, meta, plan>>
  BY DEF Quote, cycle, locals, memory
<1>2. /\ log' \in Seq([market : Markets, age : Nat \ {0}]) /\ Len(log) \in Nat /\ Len(log') = Len(log) + 1
      /\ \A i \in 1..Len(log) : log'[i] = log[i]
  BY <1>1 DEF Priced, Entries
<1>3. Entries'
  <2>1. lag' \in 0..MaxLag /\ next' \in 0..Len(log')
    BY <1>1, <1>2 DEF Priced, Entries
  <2>2. ASSUME NEW i \in DOMAIN pend' PROVE i \in 1..next' /\ Aged(i)'
    <3>1. i \in 1..next /\ i \in 1..Len(log) /\ Aged(i)
      BY <1>1 DEF Priced, Entries
    <3> QED
      BY <1>1, <1>2, <3>1 DEF Aged
  <2> QED
    BY <1>2, <2>1, <2>2 DEF Entries
<1>4. ASSUME NEW k \in Markets PROVE Delivered(k)' = Delivered(k)
  <2>1. \A i \in 1..next : i \in 1..Len(log)
    BY <1>2 DEF Priced, Entries
  <2>2. \A i \in 1..next : log'[i].market = log[i].market
    BY <1>2, <2>1
  <2> QED
    BY <1>1, <2>2, DeliveredKept
<1>5. ASSUME NEW k \in Markets PROVE Tracked(k)'
  <2>1. Stale(tickers[k]) => Stale(tickers[k])'
    BY <1>1, <1>2 DEF Stale
  <2>2. ASSUME tickers[k] \in next + 1 .. Len(log), log[tickers[k]].market = k
        PROVE  tickers'[k] \in next' + 1 .. Len(log') /\ log'[tickers'[k]].market = k
    <3>1. tickers[k] \in 1..Len(log)
      BY <1>2, <2>2 DEF Priced, Entries
    <3> QED
      BY <1>1, <1>2, <2>2, <3>1
  <2> QED
    BY <1>1, <1>4, <2>1, <2>2 DEF Priced, Tracked
<1>6. Listed' /\ Quotes'
  BY <1>1, <1>4 DEF Priced, Listed, Quotes
<1> QED
  BY <1>1, <1>3, <1>5, <1>6 DEF Priced

\* start: the newest entry of a contract is delivered, or is about to be.
LEMMA StartPriced == ASSUME ConstantsOK, Priced, Start PROVE Priced'
<1>1. /\ UNCHANGED <<log, next, pend, rest, meta, plan>> /\ pc = "down" /\ pc' = "idle" /\ lag' = 0
      /\ tickers' = [m \in Markets |-> Newest(m, DOMAIN log)]
  BY DEF Start, stream
<1>2. Len(log) \in Nat /\ DOMAIN log = 1..Len(log) /\ next \in 0..Len(log) /\ MaxLag \in Nat
  BY DEF Priced, Entries, ConstantsOK
<1>3. Entries'
  BY <1>1, <1>2 DEF Priced, Entries, Aged
<1>4. ASSUME NEW m \in Markets PROVE Tracked(m)'
  <2>1. Delivered(m)' = Delivered(m) /\ tickers'[m] = Newest(m, 1..Len(log))
    BY <1>1, <1>2, DeliveredKept
  <2>2. /\ Newest(m, 1..Len(log)) \in (1..Len(log)) \cup {None}
        /\ Newest(m, 1..Len(log)) # None => log[Newest(m, 1..Len(log))].market = m
        /\ \A i \in 1..Len(log) : log[i].market = m => i <= Newest(m, 1..Len(log))
    <3> DEFINE all == 1..Len(log)
    <3>1. all \in SUBSET (1..Len(log))
      OBVIOUS
    <3> HIDE DEF all
    <3>2. /\ Newest(m, all) \in all \cup {None}
          /\ Newest(m, all) # None => log[Newest(m, all)].market = m
          /\ \A i \in all : log[i].market = m => i <= Newest(m, all)
      BY <1>2, <3>1, NewestFacts
    <3> QED
      BY <3>2 DEF all
  <2>3. CASE Newest(m, 1..Len(log)) = None
    BY <2>1, <2>3 DEF Tracked
  <2>4. ASSUME NEW k \in 1..Len(log), k = Newest(m, 1..Len(log)), k <= next PROVE Tracked(m)'
    <3>1. k \in 1..next /\ log[k].market = m
      BY <1>2, <2>2, <2>4 DEF None
    <3>2. \A i \in 1..next : log[i].market = m => i <= k
      BY <1>2, <2>2, <2>4
    <3>3. Delivered(m) = k
      <4>1. 1..next \in SUBSET (1..Len(log))
        BY <1>2
      <4>2. Newest(m, 1..next) = k
        BY <1>2, <3>1, <3>2, <4>1, NewestUnique
      <4> QED
        BY <4>2 DEF Delivered
    <3> QED
      BY <2>1, <2>4, <3>3 DEF Tracked
  <2>5. ASSUME NEW k \in 1..Len(log), k = Newest(m, 1..Len(log)), k > next PROVE Tracked(m)'
    <3>1. k \in next + 1 .. Len(log) /\ log[k].market = m
      BY <1>2, <2>2, <2>5 DEF None
    <3> QED
      BY <1>1, <2>1, <2>5, <3>1 DEF Tracked
  <2> QED
    BY <1>2, <2>2, <2>3, <2>4, <2>5
<1>5. Listed' /\ Quotes' /\ DOMAIN tickers' = Markets
  BY <1>1 DEF Priced, Listed, Quotes
<1> QED
  BY <1>1, <1>3, <1>4, <1>5 DEF Priced

\* consume_tickers: what it reclaims is stale, what it reads is the newest.
LEMMA ConsumePriced ==
    ASSUME ConstantsOK, TickerMaxAge <= PendingIdle, Priced, Consume
    PROVE  Priced'
<1> DEFINE new == next + 1 .. Len(log)
<1>1. /\ UNCHANGED <<log, rest, meta, plan>> /\ pc = "idle" /\ pc' = "inputs" /\ lag' = 0
      /\ next' = Len(log)
      /\ pend' = [i \in DOMAIN pend \cup new |-> IF i \in Reclaimable \cup new THEN 0 ELSE pend[i]]
      /\ tickers' = [m \in Markets |->
             IF Newest(m, new) # None THEN Newest(m, new)
             ELSE IF Newest(m, Reclaimable) # None THEN Newest(m, Reclaimable) ELSE tickers[m]]
  BY DEF Consume
<1>2. /\ Len(log) \in Nat /\ next \in 0..Len(log) /\ MaxLag \in Nat /\ TickerMaxAge \in Nat
      /\ PendingIdle \in Nat /\ TickerCap = TickerMaxAge + MaxLag + 1 /\ lag \in 0..MaxLag
  BY DEF Priced, Entries, ConstantsOK, TickerCap
<1>3. \A i \in Reclaimable : i \in 1..next /\ Aged(i) /\ pend[i] >= PendingIdle
  BY DEF Priced, Entries, Reclaimable
<1>4. ASSUME NEW i \in 1..Len(log) PROVE log[i].age \in Nat /\ log[i].age > 0
  BY EntryType DEF Priced
<1>5. Entries'
  <2>1. ASSUME NEW i \in DOMAIN pend' PROVE i \in 1..next' /\ Aged(i)'
    <3>1. CASE i \in Reclaimable \cup new
      <4>1. i \in 1..Len(log)
        BY <1>2, <1>3, <3>1
      <4>2. pend'[i] = 0
        BY <1>1, <3>1
      <4> QED
        BY <1>1, <1>4, <4>1, <4>2 DEF Aged
    <3>2. CASE i \in DOMAIN pend /\ i \notin Reclaimable \cup new
      <4>1. i \in 1..next /\ Aged(i) /\ pend'[i] = pend[i]
        BY <1>1, <3>2 DEF Priced, Entries
      <4>2. i \in 1..Len(log)
        BY <1>2, <4>1
      <4> QED
        BY <1>1, <4>1, <4>2 DEF Aged, TickerCap
    <3> QED
      BY <1>1, <3>1, <3>2
  <2>2. lag' \in 0..MaxLag /\ next' \in 0..Len(log')
    BY <1>1, <1>2
  <2> QED
    BY <1>1, <2>1, <2>2 DEF Priced, Entries
<1>6. ASSUME NEW m \in Markets PROVE Tracked(m)'
  <2>1. Delivered(m)' = Newest(m, 1..Len(log))
    BY <1>1 DEF Delivered, Newest
  <2>2. /\ Newest(m, new) \in new \cup {None}
        /\ Newest(m, new) # None => log[Newest(m, new)].market = m
        /\ \A i \in new : log[i].market = m => Newest(m, new) # None /\ i <= Newest(m, new)
    <3>1. new \in SUBSET (1..Len(log))
      BY <1>2
    <3> QED
      BY <1>2, <3>1, NewestFacts
  <2>3. Newest(m, Reclaimable) \in Reclaimable \cup {None}
    <3>1. Reclaimable \in SUBSET (1..Len(log))
      BY <1>2, <1>3
    <3> QED
      BY <1>2, <3>1, NewestFacts
  <2>4. ASSUME Newest(m, new) # None PROVE Tracked(m)'
    <3>1. PICK k \in new : k = Newest(m, new)
      BY <2>2, <2>4
    <3>2. k \in 1..Len(log) /\ log[k].market = m /\ tickers'[m] = k
      BY <1>1, <1>2, <2>2, <2>4, <3>1
    <3>3. ASSUME NEW i \in 1..Len(log), log[i].market = m PROVE i <= k
      <4>1. i \in new \/ i <= next
        BY <1>2
      <4> QED
        BY <1>2, <2>2, <3>1, <3>3, <4>1
    <3>4. Newest(m, 1..Len(log)) = k
      BY <1>2, <3>2, <3>3, NewestUnique
    <3> QED
      BY <2>1, <3>2, <3>4 DEF Tracked
  <2>5. ASSUME Newest(m, new) = None, Newest(m, Reclaimable) # None PROVE Tracked(m)'
    <3>1. PICK k \in Reclaimable : k = Newest(m, Reclaimable)
      BY <2>3, <2>5
    <3>2. k \in 1..Len(log) /\ tickers'[m] = k /\ Aged(k) /\ pend[k] >= PendingIdle
      BY <1>1, <1>2, <1>3, <2>5, <3>1
    <3>3. PICK a \in Nat, p \in Nat : a = log[k].age /\ p = pend[k]
      BY <1>4, <3>2 DEF Aged
    <3>4. (a > p \/ a >= TickerCap) /\ p >= PendingIdle
      BY <3>2, <3>3 DEF Aged
    <3>5. a - 0 > TickerMaxAge
      BY <1>2, <3>4
    <3> QED
      BY <1>1, <3>2, <3>3, <3>5 DEF Tracked, Stale
  <2>6. ASSUME Newest(m, new) = None, Newest(m, Reclaimable) = None PROVE Tracked(m)'
    <3>1. tickers'[m] = tickers[m] /\ \A i \in new : log[i].market # m
      BY <1>1, <2>2, <2>6
    <3>2. Newest(m, 1..Len(log)) = Delivered(m)
      <4>1. {i \in 1..Len(log) : log[i].market = m} = {i \in 1..next : log[i].market = m}
        BY <1>2, <3>1
      <4> QED
        BY <4>1 DEF Newest, Delivered
    <3>3. ASSUME Stale(tickers[m]) PROVE Stale(tickers[m])'
      <4>1. PICK i \in 1..Len(log) : i = tickers[m] /\ log[i].age - lag > TickerMaxAge
        BY <3>3 DEF Stale
      <4>2. PICK a \in Nat, l \in Nat : a = log[i].age /\ l = lag
        BY <1>2, <1>4
      <4>3. a - 0 > TickerMaxAge
        <5>1. a - l > TickerMaxAge
          BY <4>1, <4>2
        <5>2. TickerMaxAge \in Nat
          BY <1>2
        <5> QED
          BY <5>1, <5>2
      <4> QED
        BY <1>1, <3>1, <4>1, <4>2, <4>3 DEF Stale
    <3> QED
      BY <1>1, <2>1, <3>1, <3>2, <3>3 DEF Priced, Tracked
  <2> QED
    BY <2>4, <2>5, <2>6
<1>7. Listed' /\ Quotes' /\ DOMAIN tickers' = Markets
  BY <1>1 DEF Priced, Listed, Quotes
<1> QED
  BY <1>1, <1>5, <1>6, <1>7 DEF Priced

LEMMA CrashPriced == ASSUME ConstantsOK, Priced, Crash PROVE Priced'
<1>1. /\ UNCHANGED <<log, next, pend>> /\ pc' = "down" /\ lag' = 0 /\ meta' = {}
      /\ rest' = [markets |-> {}, age |-> Refresh] /\ tickers' = [m \in Markets |-> None]
  BY DEF Crash, stream, Forget
<1>2. Entries'
  BY <1>1 DEF Priced, Entries, Aged, ConstantsOK
<1>3. Listed' /\ Quotes' /\ DOMAIN tickers' = Markets /\ \A m \in Markets : tickers'[m] = None
  BY <1>1 DEF Listed, Quotes
<1> QED
  BY <1>2, <1>3 DEF Priced, Tracked

LEMMA NextPriced ==
    ASSUME ConstantsOK, TickerMaxAge <= PendingIdle
    PROVE  Priced /\ [Next]_vars => Priced'
<1> SUFFICES ASSUME Priced, [Next]_vars PROVE Priced'
  OBVIOUS
<1>1. CASE UNCHANGED vars \/ \E i \in Inputs : Write(i)
  <2>1. UNCHANGED <<log, next, lag, pend, tickers, pc, rest, meta, plan>>
    BY <1>1 DEF vars, Write, stream, cycle, locals, memory
  <2>2. Entries' /\ Listed'
    BY <2>1 DEF Priced, Entries, Aged, Listed
  <2>3. ASSUME NEW m \in Markets PROVE Delivered(m)' = Delivered(m)
    BY <2>1, DeliveredKept
  <2>4. ASSUME NEW m \in Markets PROVE Tracked(m)'
    BY <2>1, <2>3 DEF Priced, Tracked, Stale
  <2> QED
    BY <2>1, <2>2, <2>3, <2>4 DEF Priced, Quotes
<1>2. CASE Tick
  BY <1>2, TickPriced
<1>3. CASE \E m \in Markets : Quote(m)
  BY <1>3, QuotePriced
<1>4. CASE Start \/ Consume \/ Crash
  BY <1>4, StartPriced, ConsumePriced, CrashPriced
<1>5. CASE \/ ReadInputs \/ Unusable \/ ForecastFails \/ Metadata \/ Price \/ Publish
           \/ ExpireInactive \/ \E m \in Markets : Withdraw(m) \/ Retire(m)
  BY <1>5, CycleStepsPriced
<1>6. CASE Close \/ Finish \/ Fail \/ \E s \in SUBSET Markets, m \in Markets : PublishBreaks(s, m)
  BY <1>6, EndPriced
<1> QED
  BY <1>1, <1>2, <1>3, <1>4, <1>5, <1>6 DEF Next, Service

\* Reclaiming never puts an older quote in the place of a newer one for an edge,
\* if entries are not reclaimed while a ticker of their age is still fresh
\* (consume_tickers, claim_pending_tickers and validate_fresh).
THEOREM EdgesAreOfNewest ==
    ASSUME TickerMaxAge <= PendingIdle
    PROVE  Spec => []EdgesFromNewest
<1>1. Priced => EdgesFromNewest
  BY DEF Priced, Quotes, EdgesFromNewest, Delivered
<1> QED
  BY <1>1, InitPriced, NextPriced, ConstantsOK, PTL DEF Spec

-----------------------------------------------------------------------------
(***************************************************************************)
(* The cache of the dashboard.                                             *)
(***************************************************************************)
\* A cached object: the ids it was checked by, the entries it has, and when.
Cached == [ids : Seq(Nat), upto : Seq(Nat), checked : Nat]

Callback ==
    [pc : {"idle", "ids", "windows", "store", "touch", "rows"}, now : Nat,
     held : Cached \cup {<<>>}, shared : BOOLEAN, ids : Seq(Nat), upto : Seq(Nat)]

CacheType ==
    /\ now \in Nat
    /\ feed \in Seq([stream : Streams, market : STRING, value : Nat])
    /\ streams \in [Streams -> Seq([market : STRING, value : Nat, at : Nat])]
    /\ cache \in Cached \cup {<<>>}
    /\ thread \in [Callbacks -> Callback]

\* What came after the n-th entry of a stream came at a time or later.
CameAfter(i, n, time) ==
    \A k \in DOMAIN streams[Order[i]] : n < k => time <= streams[Order[i]][k].at

\* An object has every entry that was there when it was checked.
Complete(o) ==
    /\ Len(o.ids) = 3 /\ Len(o.upto) = 3 /\ o.checked <= now
    /\ \A i \in 1 .. 3 : o.ids[i] <= o.upto[i] /\ CameAfter(i, o.upto[i], o.checked)

\* What a callback in state t has read came no earlier than it began, and the
\* object o it has is fit for what it is about to do.
InStep(t, o) ==
    /\ t.now <= now /\ Len(t.ids) <= 3
    /\ t.held # <<>> => Complete(t.held)
    /\ t.pc = "ids" => Len(t.ids) < 3 /\ t.upto = <<>>
    /\ t.pc = "windows" => Len(t.ids) = 3 /\ Len(t.upto) < 3
    /\ t.pc = "store" => Len(t.ids) = 3 /\ Len(t.upto) = 3
    /\ \A i \in DOMAIN t.ids :
          t.ids[i] <= Len(streams[Order[i]]) /\ CameAfter(i, t.ids[i], t.now)
    /\ \A i \in DOMAIN t.upto : i \in DOMAIN t.ids /\ t.ids[i] <= t.upto[i]
    /\ t.pc = "touch" => o # <<>> /\ \A i \in 1 .. 3 : CameAfter(i, o.upto[i], t.now)
    /\ t.pc = "rows" => o # <<>> /\ \A i \in 1 .. 3 : CameAfter(i, o.upto[i], t.now - Ttl + 1)

CacheInv ==
    /\ CacheType
    /\ cache # <<>> => Complete(cache)
    /\ \A c \in Callbacks :
          /\ thread[c].shared => cache # <<>>
          /\ InStep(thread[c], Held(c))

LEMMA OrderType == \A i \in 1 .. 3 : Order[i] \in Streams
  BY DEF Order, Streams

LEMMA CachedNotEmpty == \A o \in Cached : o # <<>>
<1> SUFFICES ASSUME NEW o \in Cached, o = <<>> PROVE FALSE
  OBVIOUS
<1>1. "ids" \in DOMAIN o
  BY DEF Cached
<1>2. DOMAIN <<>> = {}
  OBVIOUS
<1> QED
  BY <1>1, <1>2

LEMMA HeldType ==
    ASSUME CacheType, NEW c \in Callbacks
    PROVE  thread[c] \in Callback /\ Held(c) \in Cached \cup {<<>>}
  BY DEF CacheType, Callback, Held

LEMMA EntryAt ==
    ASSUME CacheType, NEW i \in 1 .. 3, NEW k \in DOMAIN streams[Order[i]]
    PROVE  streams[Order[i]][k].at \in Nat
<1> DEFINE entries == [market : STRING, value : Nat, at : Nat]
<1>1. streams[Order[i]] \in Seq(entries)
  BY OrderType DEF CacheType
<1> HIDE DEF entries
<1>2. streams[Order[i]][k] \in entries
  BY <1>1
<1> QED
  BY <1>2 DEF entries

LEMMA EntryPlace ==
    ASSUME CacheType, NEW i \in 1 .. 3
    PROVE  \A k \in DOMAIN streams[Order[i]] : k \in Nat
<1>1. streams[Order[i]] \in Seq([market : STRING, value : Nat, at : Nat])
  BY OrderType DEF CacheType
<1> QED
  BY <1>1

LEMMA CacheInitially == CacheInit => CacheInv
<1> SUFFICES ASSUME CacheInit PROVE CacheInv
  OBVIOUS
<1>1. Idle \in Callback
  <2>1. <<>> \in Seq(Nat)
    OBVIOUS
  <2> QED
    BY <2>1 DEF Idle, Callback
<1>2. PICK f \in Feeds : feed = f.feed /\ streams = f.past
  BY DEF CacheInit
<1>3. f.past \in [Streams -> Seq([market : STRING, value : Nat, at : Nat])]
  BY CacheConstantsOK
<1>4. CacheType
  BY <1>1, <1>2, <1>3, CacheConstantsOK DEF CacheInit, CacheType
<1>5. ASSUME NEW c \in Callbacks PROVE ~thread[c].shared /\ InStep(thread[c], Held(c))
  <2>1. thread[c] = Idle /\ now = Began
    BY DEF CacheInit
  <2>2. Began \in Nat
    BY CacheConstantsOK
  <2>3. DOMAIN <<>> = {}
    OBVIOUS
  <2> QED
    BY <2>1, <2>2, <2>3 DEF Idle, InStep
<1> QED
  BY <1>4, <1>5 DEF CacheInv, CacheInit
\* An arrival is no older than what any callback knows the time to be.
LEMMA ArrivalsAreNew ==
    ASSUME CacheType, Arrive, NEW i \in 1 .. 3, NEW n \in Nat, NEW time \in Int,
           time <= now, CameAfter(i, n, time)
    PROVE  CameAfter(i, n, time)'
<1> DEFINE s == Order[i]
           entries == [market : STRING, value : Nat, at : Nat]
<1>1. s \in Streams /\ streams[s] \in Seq(entries)
  BY OrderType DEF CacheType
<1>2. PICK e : e.at = now /\ (streams'[s] = streams[s] \/ streams'[s] = Append(streams[s], e))
  <2>1. PICK e : e = [market |-> Head(feed).market, value |-> Head(feed).value, at |-> now]
    OBVIOUS
  <2>2. e.at = now /\ (streams'[s] = streams[s] \/ streams'[s] = Append(streams[s], e))
    BY <1>1, <2>1 DEF CacheType, Arrive
  <2> QED
    BY <2>2
<1>3. Order' = Order
  BY DEF Order
<1>4. ASSUME NEW k \in DOMAIN streams'[s], n < k PROVE time <= streams'[s][k].at
  <2>1. CASE k \in DOMAIN streams[s]
    <3> HIDE DEF s, entries
    <3>1. streams'[s][k] = streams[s][k]
      BY <1>1, <1>2, <2>1
    <3>2. time <= streams[s][k].at
      BY <1>4, <2>1 DEF CameAfter, s
    <3> QED
      BY <3>1, <3>2
  <2>2. CASE k \notin DOMAIN streams[s]
    <3> HIDE DEF s, entries
    <3>1. streams'[s][k] = e
      BY <1>1, <1>2, <1>4, <2>2
    <3> QED
      BY <1>2, <3>1
  <2> QED
    BY <2>1, <2>2
<1> QED
  BY <1>3, <1>4 DEF CameAfter

LEMMA NothingTrimmed ==
    ASSUME CacheInv, Arrive \/ Elapse, NEW i \in 1 .. 3
    PROVE  Len(streams[Order[i]]) <= Len(streams[Order[i]])'
<1> DEFINE s == Order[i]
           entries == [market : STRING, value : Nat, at : Nat]
<1>1. s \in Streams /\ streams[s] \in Seq(entries)
  BY OrderType DEF CacheInv, CacheType
<1>2. PICK e : streams'[s] = streams[s] \/ streams'[s] = Append(streams[s], e)
  <2>1. PICK e : e = [market |-> Head(feed).market, value |-> Head(feed).value, at |-> now]
    OBVIOUS
  <2>2. streams'[s] = streams[s] \/ streams'[s] = Append(streams[s], e)
    BY <1>1, <2>1 DEF CacheInv, CacheType, Arrive, Elapse
  <2> QED
    BY <2>2
<1> HIDE DEF s, entries
<1>3. Len(streams[s]) <= Len(streams'[s])
  BY <1>1, <1>2
<1> QED
  BY <1>3 DEF s, Order

\* Time and arrivals disturb nothing that was read.
LEMMA StreamsStep ==
    ASSUME CacheInv, Arrive \/ Elapse
    PROVE  CacheInv'
<1>1. CacheType'
  <2>1. CASE Arrive
    <3>1. Head(feed) \in [stream : Streams, market : STRING, value : Nat]
      <4> DEFINE arrivals == [stream : Streams, market : STRING, value : Nat]
      <4>1. feed \in Seq(arrivals) /\ feed # <<>>
        BY <2>1 DEF Arrive, CacheInv, CacheType
      <4> HIDE DEF arrivals
      <4>2. Head(feed) \in arrivals
        BY <4>1
      <4> QED
        BY <4>2 DEF arrivals
    <3>2. [market |-> Head(feed).market, value |-> Head(feed).value, at |-> now]
             \in [market : STRING, value : Nat, at : Nat]
      BY <3>1 DEF CacheInv, CacheType
    <3>3. streams' \in [Streams -> Seq([market : STRING, value : Nat, at : Nat])]
      BY <2>1, <3>1, <3>2 DEF Arrive, CacheInv, CacheType
    <3>4. feed' \in Seq([stream : Streams, market : STRING, value : Nat])
      BY <2>1 DEF Arrive, CacheInv, CacheType
    <3> QED
      BY <2>1, <3>3, <3>4 DEF Arrive, CacheInv, CacheType
  <2>2. CASE Elapse
    BY <2>2 DEF Elapse, CacheInv, CacheType
  <2> QED
    BY <2>1, <2>2
<1>2. now \in Nat /\ now' \in Nat /\ now <= now' /\ cache' = cache /\ thread' = thread
  BY DEF Arrive, Elapse, CacheInv, CacheType
<1>3. ASSUME NEW i \in 1 .. 3, NEW n \in Nat, NEW time \in Int, time <= now, CameAfter(i, n, time)
      PROVE  CameAfter(i, n, time)'
  <2>1. CASE Arrive
    BY <1>3, <2>1, ArrivalsAreNew DEF CacheInv
  <2>2. CASE Elapse
    BY <1>3, <2>2 DEF Elapse, CameAfter
  <2> QED
    BY <2>1, <2>2
<1>4. ASSUME NEW o \in Cached, Complete(o) PROVE Complete(o)'
  <2>1. o.ids \in Seq(Nat) /\ o.upto \in Seq(Nat) /\ o.checked \in Nat
    BY DEF Cached
  <2>2. \A i \in 1 .. 3 : o.upto[i] \in Nat /\ CameAfter(i, o.upto[i], o.checked)
    BY <1>4, <2>1 DEF Complete
  <2>3. ASSUME NEW i \in 1 .. 3 PROVE CameAfter(i, o.upto[i], o.checked)'
    <3>1. PICK n \in Nat, time \in Nat : n = o.upto[i] /\ time = o.checked
      BY <2>1, <2>2
    <3>2. time \in Int /\ time <= now /\ CameAfter(i, n, time)
      BY <1>4, <2>2, <3>1 DEF Complete
    <3>3. CameAfter(i, n, time)'
      BY <1>3, <3>2
    <3> QED
      BY <3>1, <3>3
  <2> QED
    BY <1>2, <1>4, <2>1, <2>3 DEF Complete
<1>5. ASSUME NEW t \in Callback, NEW o \in Cached \cup {<<>>}, InStep(t, o),
             o # <<>> => Complete(o)
      PROVE  InStep(t, o)'
  <2>1. t.now \in Nat /\ t.ids \in Seq(Nat) /\ t.upto \in Seq(Nat) /\ t.now <= now
    BY <1>5 DEF Callback, InStep
  <2>2. \A i \in DOMAIN t.ids : i \in 1 .. 3 /\ t.ids[i] \in Nat
    <3>1. Len(t.ids) <= 3
      BY <1>5 DEF InStep
    <3> QED
      BY <2>1, <3>1
  <2>3. ASSUME NEW i \in DOMAIN t.ids PROVE CameAfter(i, t.ids[i], t.now)'
    <3>1. PICK n \in Nat, time \in Nat : n = t.ids[i] /\ time = t.now
      BY <2>1, <2>2
    <3>2. i \in 1 .. 3 /\ time \in Int /\ time <= now /\ CameAfter(i, n, time)
      BY <1>5, <2>1, <2>2, <3>1 DEF InStep
    <3>3. CameAfter(i, n, time)'
      BY <1>3, <3>2
    <3> QED
      BY <3>1, <3>3
  <2>8. \A i \in DOMAIN t.ids : t.ids[i] <= Len(streams[Order[i]])'
    <3> TAKE i \in DOMAIN t.ids
    <3>1. t.ids[i] \in Nat /\ t.ids[i] <= Len(streams[Order[i]])
      BY <1>5, <2>2 DEF InStep
    <3>2. Len(streams[Order[i]]) <= Len(streams[Order[i]])'
      BY <2>2, NothingTrimmed
    <3>3. Len(streams[Order[i]]) \in Nat /\ Len(streams[Order[i]])' \in Nat
      BY <1>1, <2>2, OrderType DEF CacheInv, CacheType, Order
    <3> QED
      BY <3>1, <3>2, <3>3
  <2>4. t.held # <<>> => Complete(t.held)'
    BY <1>4, <1>5 DEF InStep, Callback
  <2>5. o # <<>> => \A i \in 1 .. 3 : o.upto[i] \in Nat
    BY <1>5 DEF Cached, Complete
  <2>6. t.pc = "touch" => \A i \in 1 .. 3 : CameAfter(i, o.upto[i], t.now)'
    BY <1>3, <1>5, <2>1, <2>5 DEF InStep
  <2>7. t.pc = "rows" => \A i \in 1 .. 3 : CameAfter(i, o.upto[i], t.now - Ttl + 1)'
    <3>1. t.now - Ttl + 1 \in Int /\ t.now - Ttl + 1 <= now
      BY <1>2, <2>1, CacheConstantsOK
    <3> QED
      BY <1>3, <1>5, <2>5, <3>1 DEF InStep
  <2> QED
    BY <1>2, <1>5, <2>1, <2>3, <2>4, <2>6, <2>7, <2>8 DEF InStep
<1>6. ASSUME NEW c \in Callbacks
      PROVE  (thread[c].shared => cache # <<>>)' /\ InStep(thread[c], Held(c))'
  <2>1. PICK t, o : t = thread[c] /\ o = Held(c)
    OBVIOUS
  <2>2. t \in Callback /\ o \in Cached \cup {<<>>} /\ InStep(t, o)
    BY <2>1, HeldType DEF CacheInv
  <2>3. o # <<>> => Complete(o)
    BY <2>1, <2>2 DEF Held, InStep, CacheInv
  <2>4. InStep(t, o)'
    BY <1>5, <2>2, <2>3
  <2>5. thread[c]' = t /\ Held(c)' = o
    BY <1>2, <2>1 DEF Held
  <2> QED
    BY <1>2, <2>4, <2>5 DEF CacheInv
<1>7. (cache # <<>> => Complete(cache))'
  BY <1>2, <1>4 DEF CacheInv, CacheType
<1> QED
  BY <1>1, <1>6, <1>7 DEF CacheInv

\* A step in which a callback changes its own state only.
LEMMA OwnStep ==
    ASSUME CacheInv, NEW c \in Callbacks, NEW t \in Callback, Becomes(c, t),
           UNCHANGED <<now, feed, streams, cache>>, t.shared => cache # <<>>,
           InStep(t, IF t.shared THEN cache ELSE t.held)
    PROVE  CacheInv'
<1>1. \A d \in Callbacks : thread'[d] = IF d = c THEN t ELSE thread[d]
  BY DEF Becomes, CacheInv, CacheType
<1>2. CacheType'
  BY DEF Becomes, CacheInv, CacheType
<1>3. (cache # <<>> => Complete(cache))'
  BY DEF CacheInv, Complete, CameAfter
<1>4. ASSUME NEW s, NEW o, InStep(s, o) PROVE InStep(s, o)'
  BY <1>4 DEF InStep, Complete, CameAfter
<1>5. ASSUME NEW d \in Callbacks
      PROVE  (thread[d].shared => cache # <<>>)' /\ InStep(thread[d], Held(d))'
  <2>1. PICK s, o : s = thread'[d] /\ o = Held(d)'
    OBVIOUS
  <2>2. (s.shared => cache # <<>>) /\ InStep(s, o)
    <3>1. CASE d = c
      BY <1>1, <2>1, <3>1 DEF Held
    <3>2. CASE d # c
      BY <1>1, <2>1, <3>2 DEF Held, CacheInv
    <3> QED
      BY <3>1, <3>2
  <2>3. InStep(s, o)'
    BY <1>4, <2>2
  <2> QED
    BY <2>1, <2>2, <2>3
<1> QED
  BY <1>2, <1>3, <1>5 DEF CacheInv

LEMMA BeginStep ==
    ASSUME CacheInv, NEW c \in Callbacks, Begin(c)
    PROVE  CacheInv'
<1>1. PICK t : t = [Idle EXCEPT !.now = now, !.shared = cache # <<>>,
                        !.pc = IF cache = <<>> THEN "ids"
                               ELSE IF now - cache.checked >= Ttl THEN "ids" ELSE "rows"]
  OBVIOUS
<1>2. Becomes(c, t) /\ UNCHANGED <<now, feed, streams, cache>>
  BY <1>1 DEF Begin
<1>3. now \in Nat /\ Ttl \in Nat \ {0}
  BY CacheConstantsOK DEF CacheInv, CacheType
<1>4. /\ t.now = now /\ t.ids = <<>> /\ t.upto = <<>> /\ t.held = <<>>
      /\ t.shared = (cache # <<>>)
      /\ t.pc = IF cache = <<>> THEN "ids"
                ELSE IF now - cache.checked >= Ttl THEN "ids" ELSE "rows"
  BY <1>1 DEF Idle
<1>5. t \in Callback
  <2>1. <<>> \in Seq(Nat)
    OBVIOUS
  <2>2. t = [pc |-> t.pc, now |-> t.now, held |-> t.held, shared |-> t.shared,
             ids |-> t.ids, upto |-> t.upto]
    BY <1>1 DEF Idle
  <2>3. t.pc \in {"ids", "rows"} /\ t.now \in Nat /\ t.held \in {<<>>} /\ t.shared \in BOOLEAN
    BY <1>3, <1>4
  <2> QED
    BY <1>4, <2>1, <2>2, <2>3 DEF Callback
<1>6. InStep(t, IF t.shared THEN cache ELSE t.held)
  <2> DEFINE o == IF t.shared THEN cache ELSE t.held
  <2>1. t.ids = <<>> /\ Len(t.ids) = 0 /\ DOMAIN t.ids = {} /\ DOMAIN t.upto = {}
    BY <1>4
  <2>2. t.pc # "windows" /\ t.pc # "store" /\ t.pc # "touch"
    BY <1>4
  <2>3. t.pc = "rows" => o # <<>> /\ \A i \in 1 .. 3 : CameAfter(i, o.upto[i], t.now - Ttl + 1)
    <3> SUFFICES ASSUME t.pc = "rows" PROVE cache # <<>> /\ o = cache
                        /\ \A i \in 1 .. 3 : CameAfter(i, cache.upto[i], now - Ttl + 1)
      BY <1>4
    <3>1. cache # <<>> /\ ~(now - cache.checked >= Ttl)
      BY <1>4
    <3>2. cache \in Cached /\ Complete(cache) /\ o = cache
      BY <1>4, <3>1 DEF CacheInv, CacheType
    <3>3. cache.checked \in Nat /\ now - cache.checked < Ttl
      BY <1>3, <3>1, <3>2 DEF Cached
    <3>4. ASSUME NEW i \in 1 .. 3, NEW k \in DOMAIN streams[Order[i]], cache.upto[i] < k
          PROVE  now - Ttl + 1 <= streams[Order[i]][k].at
      <4>1. cache.checked <= streams[Order[i]][k].at
        BY <3>2, <3>4 DEF Complete, CameAfter
      <4>2. streams[Order[i]][k].at \in Nat
        BY EntryAt, <3>4 DEF CacheInv
      <4> QED
        BY <1>3, <3>3, <4>1, <4>2
    <3> QED
      BY <3>1, <3>2, <3>4 DEF CameAfter
  <2> QED
    BY <1>3, <1>4, <2>1, <2>2, <2>3 DEF InStep
<1> QED
  BY <1>2, <1>4, <1>5, <1>6, OwnStep

\* A callback that is not there yet has read what it says it has.
LEMMA ReadIdStep ==
    ASSUME CacheInv, NEW c \in Callbacks, ReadId(c)
    PROVE  CacheInv'
<1>1. PICK t \in Callback : t = thread[c] /\ InStep(t, Held(c)) /\ t.pc = "ids"
  BY HeldType DEF CacheInv, ReadId, At
<1>2. PICK n : n = Len(t.ids) + 1
  OBVIOUS
<1>3. /\ t.ids \in Seq(Nat) /\ t.upto = <<>> /\ t.now \in Nat /\ t.now <= now
      /\ Len(t.ids) < 3 /\ n \in 1 .. 3
  <2>1. /\ t.ids \in Seq(Nat) /\ t.upto = <<>> /\ t.now \in Nat /\ t.now <= now
        /\ Len(t.ids) < 3
    BY <1>1 DEF Callback, InStep
  <2>2. Len(t.ids) \in Nat
    BY <2>1
  <2> QED
    BY <1>2, <2>1, <2>2
<1>4. PICK ids : ids = Append(t.ids, Len(streams[Order[n]]))
  OBVIOUS
<1>5. Len(streams[Order[n]]) \in Nat
  BY <1>3, OrderType DEF CacheInv, CacheType
<1>6. /\ ids \in Seq(Nat) /\ Len(ids) = n
      /\ \A i \in DOMAIN ids : ids[i] = IF i = n THEN Len(streams[Order[n]]) ELSE t.ids[i]
      /\ \A i \in DOMAIN ids : i # n => i \in DOMAIN t.ids
  BY <1>2, <1>3, <1>4, <1>5
<1>7. \A i \in DOMAIN ids : ids[i] <= Len(streams[Order[i]]) /\ CameAfter(i, ids[i], t.now)
  <2> TAKE i \in DOMAIN ids
  <2>1. CASE i = n
    <3>1. streams[Order[n]] \in Seq([market : STRING, value : Nat, at : Nat])
      BY <1>3, OrderType DEF CacheInv, CacheType
    <3>2. \A k \in DOMAIN streams[Order[n]] : ~(Len(streams[Order[n]]) < k)
      BY <3>1
    <3> QED
      BY <1>5, <1>6, <2>1, <3>2 DEF CameAfter
  <2>2. CASE i # n
    BY <1>1, <1>6, <2>2 DEF InStep
  <2> QED
    BY <2>1, <2>2
<1>8. UNCHANGED <<now, feed, streams, cache>>
  BY DEF ReadId
<1>9. now \in Nat
  BY DEF CacheInv, CacheType
<1>10. CASE Len(ids) < 3
  <2>1. PICK u : u = [t EXCEPT !.ids = ids]
    OBVIOUS
  <2>2. Becomes(c, u)
    BY <1>1, <1>2, <1>4, <1>10, <2>1 DEF ReadId
  <2>3. u \in Callback
    BY <1>6, <2>1 DEF Callback
  <2>4. /\ u.pc = "ids" /\ u.now = t.now /\ u.ids = ids /\ u.upto = <<>>
        /\ u.held = t.held /\ u.shared = t.shared
    BY <1>1, <1>3, <2>1 DEF Callback
  <2>5. InStep(u, IF u.shared THEN cache ELSE u.held)
    <3>1. DOMAIN u.upto = {}
      BY <2>4
    <3> QED
      BY <1>1, <1>3, <1>6, <1>7, <1>10, <2>4, <3>1 DEF InStep
  <2>6. u.shared => cache # <<>>
    BY <1>1, <2>4 DEF CacheInv
  <2> QED
    BY <1>8, <2>2, <2>3, <2>5, <2>6, OwnStep
<1>11. CASE ~(Len(ids) < 3) /\ Held(c) # <<>> /\ Held(c).ids = ids
  <2>1. PICK u : u = [t EXCEPT !.pc = "touch", !.ids = <<>>]
    OBVIOUS
  <2>2. Becomes(c, u)
    BY <1>1, <1>2, <1>4, <1>11, <2>1 DEF ReadId
  <2>3. u \in Callback
    <3>1. <<>> \in Seq(Nat)
      OBVIOUS
    <3> QED
      BY <2>1, <3>1 DEF Callback
  <2>4. /\ u.pc = "touch" /\ u.now = t.now /\ u.ids = <<>> /\ u.upto = <<>>
        /\ u.held = t.held /\ u.shared = t.shared
    BY <1>1, <1>3, <2>1 DEF Callback
  <2>5. PICK o : o = Held(c) /\ o = IF u.shared THEN cache ELSE u.held
    BY <1>1, <2>4 DEF Held
  <2>6. o \in Cached /\ Complete(o)
    BY <1>1, <1>11, <2>4, <2>5, HeldType DEF CacheInv, InStep
  <2>7. ASSUME NEW i \in 1 .. 3 PROVE CameAfter(i, o.upto[i], t.now)
    <3>1. i \in DOMAIN ids /\ o.ids[i] = ids[i] /\ o.ids[i] \in Nat /\ o.upto[i] \in Nat
      <4>1. o.ids = ids /\ Len(ids) = 3 /\ o.upto \in Seq(Nat) /\ Len(o.upto) = 3
        BY <1>3, <1>6, <1>11, <2>5, <2>6 DEF Cached, Complete
      <4>2. DOMAIN ids = 1 .. 3 /\ DOMAIN o.upto = 1 .. 3
        BY <1>6, <4>1
      <4>3. i \in DOMAIN ids /\ ids[i] \in Nat
        <5>1. ids \in Seq(Nat)
          BY <1>6
        <5>2. i \in DOMAIN ids
          BY <4>2
        <5> QED
          BY <5>1, <5>2
      <4>4. o.upto[i] \in Nat
        BY <4>1, <4>2
      <4> QED
        BY <4>1, <4>3, <4>4
    <3>2. CameAfter(i, ids[i], t.now) /\ ids[i] <= o.upto[i]
      BY <1>7, <2>6, <3>1 DEF Complete
    <3>3. ASSUME NEW k \in DOMAIN streams[Order[i]], o.upto[i] < k
          PROVE  t.now <= streams[Order[i]][k].at
      <4>1. ids[i] < k
        BY <3>1, <3>2, <3>3, EntryPlace DEF CacheInv
      <4> QED
        BY <3>2, <4>1 DEF CameAfter
    <3> QED
      BY <3>3 DEF CameAfter
  <2>8. InStep(u, o)
    <3>1. DOMAIN u.upto = {} /\ DOMAIN u.ids = {} /\ Len(u.ids) = 0
      BY <2>4
    <3> QED
      BY <1>1, <1>3, <1>11, <2>4, <2>5, <2>7, <3>1 DEF InStep
  <2>9. u.shared => cache # <<>>
    BY <1>1, <2>4 DEF CacheInv
  <2> QED
    BY <1>8, <2>2, <2>3, <2>5, <2>8, <2>9, OwnStep
<1>12. CASE ~(Len(ids) < 3) /\ ~(Held(c) # <<>> /\ Held(c).ids = ids)
  <2>1. PICK u : u = [t EXCEPT !.pc = "windows", !.ids = ids, !.shared = FALSE, !.held = <<>>]
    OBVIOUS
  <2>2. Becomes(c, u)
    BY <1>1, <1>2, <1>4, <1>12, <2>1 DEF ReadId
  <2>3. u \in Callback
    BY <1>6, <2>1 DEF Callback
  <2>4. /\ u.pc = "windows" /\ u.now = t.now /\ u.ids = ids /\ u.upto = <<>>
        /\ u.held = <<>> /\ ~u.shared
    BY <1>1, <1>3, <2>1 DEF Callback
  <2>5. InStep(u, IF u.shared THEN cache ELSE u.held)
    <3>1. DOMAIN u.upto = {} /\ Len(u.upto) = 0 /\ Len(u.ids) = 3
      <4>1. n \in 1 .. 3 /\ Len(ids) = n /\ ~(Len(ids) < 3)
        BY <1>3, <1>6, <1>12
      <4>2. Len(ids) = 3
        BY <4>1
      <4> QED
        BY <2>4, <4>2
    <3>2. PICK o : o = IF u.shared THEN cache ELSE u.held
      OBVIOUS
    <3>3. \A i \in DOMAIN u.ids :
              u.ids[i] <= Len(streams[Order[i]]) /\ CameAfter(i, u.ids[i], u.now)
      BY <1>7, <2>4
    <3>4. InStep(u, o)
      BY <1>3, <2>4, <3>1, <3>3 DEF InStep
    <3> QED
      BY <3>2, <3>4
  <2> QED
    BY <1>8, <2>2, <2>3, <2>4, <2>5, OwnStep
<1> QED
  BY <1>10, <1>11, <1>12

LEMMA ReadWindowStep ==
    ASSUME CacheInv, NEW c \in Callbacks, ReadWindow(c)
    PROVE  CacheInv'
<1>1. PICK t \in Callback : t = thread[c] /\ InStep(t, Held(c)) /\ t.pc = "windows"
  BY HeldType DEF CacheInv, ReadWindow, At
<1>2. PICK n : n = Len(t.upto) + 1
  OBVIOUS
<1>3. t.ids \in Seq(Nat) /\ t.upto \in Seq(Nat) /\ Len(t.ids) = 3 /\ Len(t.upto) < 3
  BY <1>1 DEF Callback, InStep
<1>4. n \in 1 .. 3 /\ n \in DOMAIN t.ids
  <2>1. Len(t.upto) \in Nat
    BY <1>3
  <2> QED
    BY <1>2, <1>3, <2>1
<1>5. PICK size : size = Len(streams[Order[n]])
  OBVIOUS
<1>6. size \in Nat /\ t.ids[n] <= size
  BY <1>1, <1>4, <1>5, OrderType DEF CacheInv, CacheType, InStep
<1>7. PICK upto : upto = Append(t.upto, size)
  OBVIOUS
<1>8. /\ upto \in Seq(Nat) /\ Len(upto) = n
      /\ \A i \in DOMAIN upto : upto[i] = IF i = n THEN size ELSE t.upto[i]
      /\ \A i \in DOMAIN upto : i # n => i \in DOMAIN t.upto
  BY <1>2, <1>3, <1>6, <1>7
<1>9. \A i \in DOMAIN upto : i \in DOMAIN t.ids /\ t.ids[i] <= upto[i]
  <2> TAKE i \in DOMAIN upto
  <2>1. CASE i = n
    BY <1>4, <1>6, <1>8, <2>1
  <2>2. CASE i # n
    BY <1>1, <1>8, <2>2 DEF InStep
  <2> QED
    BY <2>1, <2>2
<1>10. PICK u : u = [t EXCEPT !.upto = upto, !.pc = IF Len(upto) < 3 THEN "windows" ELSE "store"]
  OBVIOUS
<1>11. Becomes(c, u) /\ UNCHANGED <<now, feed, streams, cache>>
  BY <1>1, <1>2, <1>5, <1>7, <1>10 DEF ReadWindow
<1>12. u \in Callback
  BY <1>8, <1>10 DEF Callback
<1>13. /\ u.pc = (IF Len(upto) < 3 THEN "windows" ELSE "store") /\ u.now = t.now
       /\ u.ids = t.ids /\ u.upto = upto /\ u.held = t.held /\ u.shared = t.shared
  BY <1>10 DEF Callback
<1>14. u.shared => cache # <<>>
  BY <1>1, <1>13 DEF CacheInv
<1>15. PICK o : o = IF u.shared THEN cache ELSE u.held
  OBVIOUS
<1>16. InStep(u, o)
  <2>1. u.pc # "ids" /\ u.pc # "touch" /\ u.pc # "rows"
    BY <1>13
  <2>2. (u.pc = "windows" => Len(upto) < 3) /\ (u.pc = "store" => Len(upto) = 3)
    BY <1>4, <1>8, <1>13
  <2> QED
    BY <1>1, <1>3, <1>9, <1>13, <2>1, <2>2 DEF InStep
<1> QED
  BY <1>11, <1>12, <1>14, <1>15, <1>16, OwnStep

\* A view that is returned, or a Redis command that failed.
LEMMA LeaveStep ==
    ASSUME CacheInv, NEW c \in Callbacks, Return(c) \/ RedisError(c)
    PROVE  CacheInv'
<1>1. PICK t : t = Idle
  OBVIOUS
<1>2. /\ t.pc = "idle" /\ t.now = 0 /\ t.held = <<>> /\ ~t.shared /\ t.ids = <<>>
      /\ t.upto = <<>>
  BY <1>1 DEF Idle
<1>3. t \in Callback
  <2>1. <<>> \in Seq(Nat)
    OBVIOUS
  <2> QED
    BY <1>1, <2>1 DEF Idle, Callback
<1>4. InStep(t, t.held)
  <2>1. DOMAIN t.ids = {} /\ DOMAIN t.upto = {} /\ Len(t.ids) = 0 /\ now \in Nat
    BY <1>2 DEF CacheInv, CacheType
  <2> QED
    BY <1>2, <2>1 DEF InStep
<1>5. Becomes(c, t) /\ UNCHANGED <<now, feed, streams, cache>>
  BY <1>1 DEF Return, RedisError
<1> QED
  BY <1>2, <1>3, <1>4, <1>5, OwnStep

\* The object that is stored has every entry that was there before its ids were
\* read; the one that it replaces stays as it was for those that hold it.
LEMMA StoreStep ==
    ASSUME CacheInv, NEW c \in Callbacks, Store(c)
    PROVE  CacheInv'
<1>1. PICK t \in Callback : t = thread[c] /\ InStep(t, Held(c)) /\ t.pc = "store"
  BY HeldType DEF CacheInv, Store, At
<1>2. /\ t.ids \in Seq(Nat) /\ t.upto \in Seq(Nat) /\ t.now \in Nat /\ t.now <= now
      /\ Len(t.ids) = 3 /\ Len(t.upto) = 3
  BY <1>1 DEF Callback, InStep
<1>3. \A i \in 1 .. 3 : i \in DOMAIN t.ids /\ i \in DOMAIN t.upto
  BY <1>2
<1>4. PICK o : o = [ids |-> t.ids, upto |-> t.upto, checked |-> t.now]
  OBVIOUS
<1>5. o \in Cached /\ cache' = o
  BY <1>1, <1>2, <1>4 DEF Cached, Store
<1>6. \A i \in 1 .. 3 : t.ids[i] <= t.upto[i] /\ CameAfter(i, t.upto[i], t.now)
  <2> TAKE i \in 1 .. 3
  <2>1. t.ids[i] \in Nat /\ t.upto[i] \in Nat
    <3>1. i \in DOMAIN t.ids /\ i \in DOMAIN t.upto
      BY <1>3
    <3>2. t.ids \in Seq(Nat) /\ t.upto \in Seq(Nat)
      BY <1>2
    <3> QED
      BY <3>1, <3>2
  <2>2. t.ids[i] <= t.upto[i] /\ CameAfter(i, t.ids[i], t.now)
    BY <1>1, <1>3 DEF InStep
  <2>3. ASSUME NEW k \in DOMAIN streams[Order[i]], t.upto[i] < k
        PROVE  t.now <= streams[Order[i]][k].at
    <3>1. t.ids[i] < k
      BY <2>1, <2>2, <2>3, EntryPlace DEF CacheInv
    <3> QED
      BY <2>2, <3>1 DEF CameAfter
  <2> QED
    BY <2>2, <2>3 DEF CameAfter
<1>7. Complete(o)
  BY <1>2, <1>4, <1>6 DEF Complete
<1>8. UNCHANGED <<now, feed, streams>>
  BY DEF Store
<1>9. ASSUME NEW s, NEW x, InStep(s, x) PROVE InStep(s, x)'
  BY <1>8, <1>9 DEF InStep, Complete, CameAfter
<1>10. Complete(o)'
  BY <1>7, <1>8 DEF Complete, CameAfter
<1>11. ASSUME NEW d \in Callbacks
       PROVE  thread'[d] \in Callback /\ InStep(thread'[d], Held(d)')
  <2>1. CASE d = c
    <3>1. PICK s : s = [Idle EXCEPT !.pc = "rows", !.now = t.now, !.shared = TRUE]
      OBVIOUS
    <3>2. /\ s.pc = "rows" /\ s.now = t.now /\ s.shared /\ s.held = <<>> /\ s.ids = <<>>
          /\ s.upto = <<>>
      BY <3>1 DEF Idle
    <3>3. s \in Callback
      <4>1. <<>> \in Seq(Nat)
        OBVIOUS
      <4> QED
        BY <1>2, <3>1, <4>1 DEF Idle, Callback
    <3>4. thread'[d] = s /\ Held(d)' = o
      BY <1>1, <1>5, <2>1, <3>1, <3>2 DEF Store, Held
    <3>5. \A i \in 1 .. 3 : CameAfter(i, o.upto[i], t.now - Ttl + 1)
      <4> SUFFICES ASSUME NEW i \in 1 .. 3, NEW k \in DOMAIN streams[Order[i]], t.upto[i] < k
                   PROVE  t.now - Ttl + 1 <= streams[Order[i]][k].at
        BY <1>4 DEF CameAfter
      <4>1. t.now <= streams[Order[i]][k].at /\ streams[Order[i]][k].at \in Nat
        BY <1>6, EntryAt DEF CameAfter, CacheInv
      <4> QED
        BY <1>2, <4>1, CacheConstantsOK
    <3>6. InStep(s, o)
      <4>1. DOMAIN s.ids = {} /\ DOMAIN s.upto = {} /\ Len(s.ids) = 0
        BY <3>2
      <4> QED
        BY <1>2, <1>5, <3>2, <3>5, <4>1, CachedNotEmpty DEF InStep
    <3> QED
      BY <3>3, <3>4, <3>6
  <2>2. CASE d # c /\ thread[d].shared
    <3>1. PICK s \in Callback : s = thread[d]
      BY HeldType DEF CacheInv
    <3>2. PICK u : u = [s EXCEPT !.shared = FALSE, !.held = cache]
      OBVIOUS
    <3>3. thread'[d] = u
      BY <2>2, <3>1, <3>2 DEF Store
    <3>4. cache \in Cached /\ Complete(cache) /\ Held(d) = cache
      BY <2>2 DEF CacheInv, CacheType, Held
    <3>5. u \in Callback
      BY <3>2, <3>4 DEF Callback
    <3>6. /\ u.pc = s.pc /\ u.now = s.now /\ u.ids = s.ids /\ u.upto = s.upto
          /\ u.held = cache /\ ~u.shared
      BY <3>2 DEF Callback
    <3>7. Held(d)' = cache
      BY <3>3, <3>6 DEF Held
    <3>8. InStep(s, cache)
      BY <3>1, <3>4 DEF CacheInv
    <3>9. InStep(u, cache)
      BY <3>4, <3>6, <3>8 DEF InStep
    <3> QED
      BY <3>3, <3>5, <3>7, <3>9
  <2>3. CASE d # c /\ ~thread[d].shared
    <3>1. thread'[d] = thread[d]
      BY <2>3 DEF Store
    <3>2. Held(d)' = Held(d)
      BY <2>3, <3>1 DEF Held
    <3> QED
      BY <3>1, <3>2, HeldType DEF CacheInv
  <2> QED
    BY <2>1, <2>2, <2>3
<1>12. CacheType'
  <2>1. thread' \in [Callbacks -> Callback]
    BY <1>11 DEF Store
  <2> QED
    BY <1>5, <1>8, <2>1 DEF CacheInv, CacheType
<1>13. cache' # <<>>
  BY <1>5, CachedNotEmpty
<1> QED
  BY <1>5, <1>9, <1>10, <1>11, <1>12, <1>13 DEF CacheInv

\* The entries of the object that is touched stay those it has, whoever holds it.
LEMMA TouchStep ==
    ASSUME CacheInv, NEW c \in Callbacks, Touch(c)
    PROVE  CacheInv'
<1>1. PICK t \in Callback : t = thread[c] /\ InStep(t, Held(c)) /\ t.pc = "touch"
  BY HeldType DEF CacheInv, Touch, At
<1>2. PICK o \in Cached : o = Held(c)
  BY <1>1, HeldType DEF InStep, CacheInv
<1>3. Complete(o)
  BY <1>1, <1>2, CachedNotEmpty DEF Held, InStep, CacheInv
<1>4. \A i \in 1 .. 3 : CameAfter(i, o.upto[i], t.now)
  BY <1>1, <1>2 DEF InStep
<1>5. t.now \in Nat /\ t.now <= now
  BY <1>1 DEF Callback, InStep
<1>6. PICK p : p = [o EXCEPT !.checked = t.now]
  OBVIOUS
<1>7. p \in Cached /\ p.ids = o.ids /\ p.upto = o.upto /\ p.checked = t.now /\ p # <<>>
  BY <1>5, <1>6, CachedNotEmpty DEF Cached
<1>8. Complete(p)
  BY <1>3, <1>4, <1>5, <1>7 DEF Complete
<1>9. UNCHANGED <<now, feed, streams>>
  BY DEF Touch
<1>10. \A i \in 1 .. 3 : CameAfter(i, p.upto[i], t.now - Ttl + 1)
  <2> SUFFICES ASSUME NEW i \in 1 .. 3, NEW k \in DOMAIN streams[Order[i]], o.upto[i] < k
               PROVE  t.now - Ttl + 1 <= streams[Order[i]][k].at
    BY <1>7 DEF CameAfter
  <2>1. t.now <= streams[Order[i]][k].at /\ streams[Order[i]][k].at \in Nat
    BY <1>4, EntryAt DEF CameAfter, CacheInv
  <2> QED
    BY <1>5, <2>1, CacheConstantsOK
<1>11. CASE ~thread[c].shared
  <2>1. PICK u : u = [t EXCEPT !.pc = "rows", !.held.checked = t.now]
    OBVIOUS
  <2>2. t.held = o /\ Becomes(c, u) /\ UNCHANGED <<now, feed, streams, cache>>
    BY <1>1, <1>2, <1>11, <2>1 DEF Touch, Held
  <2>3. /\ u.pc = "rows" /\ u.now = t.now /\ u.ids = t.ids /\ u.upto = t.upto
        /\ u.held = p /\ ~u.shared /\ u \in Callback
    <3>1. t = [pc |-> t.pc, now |-> t.now, held |-> t.held, shared |-> t.shared,
               ids |-> t.ids, upto |-> t.upto]
      BY DEF Callback
    <3>2. u = [t EXCEPT !.pc = "rows", !.held = p]
      BY <1>6, <2>1, <2>2, <3>1
    <3> QED
      BY <1>1, <1>7, <1>11, <3>2 DEF Callback
  <2>4. InStep(u, p)
    BY <1>1, <1>7, <1>8, <1>10, <2>3 DEF InStep
  <2> QED
    BY <2>2, <2>3, <2>4, OwnStep
<1>12. CASE thread[c].shared
  <2>1. o = cache /\ cache' = p
    BY <1>1, <1>2, <1>6, <1>12 DEF Touch, Held
  <2>2. PICK u : u = [t EXCEPT !.pc = "rows"]
    OBVIOUS
  <2>3. thread' = [thread EXCEPT ![c] = u]
    BY <1>1, <1>12, <2>2 DEF Touch, Becomes
  <2>4. /\ u.pc = "rows" /\ u.now = t.now /\ u.ids = t.ids /\ u.upto = t.upto
        /\ u.held = t.held /\ u.shared /\ u \in Callback
    BY <1>1, <1>12, <2>2 DEF Callback
  <2>5. CacheType'
    BY <1>7, <1>9, <2>1, <2>3, <2>4 DEF CacheInv, CacheType
  <2>6. ASSUME NEW s, NEW x, InStep(s, x) PROVE InStep(s, x)'
    BY <1>9, <2>6 DEF InStep, Complete, CameAfter
  <2>7. ASSUME NEW d \in Callbacks PROVE InStep(thread'[d], Held(d)')
    <3>1. CASE d = c
      <4>1. thread'[d] = u /\ Held(d)' = p
        BY <2>1, <2>3, <2>4, <3>1 DEF Held, CacheInv, CacheType
      <4>2. InStep(u, p)
        BY <1>1, <1>7, <1>8, <1>10, <2>4 DEF InStep
      <4> QED
        BY <4>1, <4>2
    <3>2. CASE d # c /\ thread[d].shared
      <4>1. PICK s : s = thread[d] /\ s = thread'[d]
        BY <2>3, <3>2 DEF CacheInv, CacheType
      <4>2. Held(d) = o /\ Held(d)' = p
        BY <2>1, <3>2, <4>1 DEF Held
      <4>3. InStep(s, o)
        BY <4>1, <4>2 DEF CacheInv
      <4>4. InStep(s, p)
        BY <1>7, <4>3 DEF InStep
      <4> QED
        BY <4>1, <4>2, <4>4
    <3>3. CASE d # c /\ ~thread[d].shared
      <4>1. thread'[d] = thread[d] /\ Held(d)' = Held(d)
        BY <2>3, <3>3 DEF Held, CacheInv, CacheType
      <4> QED
        BY <4>1 DEF CacheInv
    <3> QED
      BY <3>1, <3>2, <3>3
  <2>8. Complete(p)'
    BY <1>8, <1>9 DEF Complete, CameAfter
  <2> QED
    BY <1>7, <2>1, <2>5, <2>6, <2>7, <2>8 DEF CacheInv
<1> QED
  BY <1>11, <1>12

LEMMA CachePreserved == CacheInv /\ [CacheNext]_cacheVars => CacheInv'
<1> SUFFICES ASSUME CacheInv, [CacheNext]_cacheVars PROVE CacheInv'
  OBVIOUS
<1>1. CASE Arrive \/ Elapse
  BY <1>1, StreamsStep
<1>2. CASE \E c \in Callbacks : CallbackStep(c)
  BY <1>2, BeginStep, ReadIdStep, ReadWindowStep, StoreStep, TouchStep, LeaveStep
     DEF CallbackStep
<1>3. CASE UNCHANGED cacheVars
  BY <1>3 DEF cacheVars, CacheInv, CacheType, InStep, Complete, CameAfter, Held
<1> QED
  BY <1>1, <1>2, <1>3 DEF CacheNext

\* The cache of the dashboard, for any number of callbacks: whatever was received
\* a time-to-live before a view was asked for is in the view.
THEOREM ViewsAreFresh == CacheSpec => []FreshWithinTtl
<1>1. CacheInv => FreshWithinTtl
  <2> SUFFICES ASSUME CacheInv, NEW c \in Returning, NEW i \in 1 .. 3,
                      NEW k \in DOMAIN streams[Order[i]],
                      streams[Order[i]][k].at <= thread[c].now - Ttl
               PROVE  k <= Held(c).upto[i]
    BY DEF FreshWithinTtl
  <2>1. PICK t \in Callback : t = thread[c] /\ t.pc = "rows" /\ InStep(t, Held(c))
    BY HeldType DEF CacheInv, Returning, At
  <2>2. PICK o \in Cached : o = Held(c)
    BY <2>1, HeldType DEF InStep, CacheInv, Returning
  <2>3. Complete(o)
    BY <2>1, <2>2, CachedNotEmpty DEF Held, InStep, CacheInv, Returning
  <2>4. o.upto[i] \in Nat
    <3>1. o.upto \in Seq(Nat) /\ Len(o.upto) = 3
      BY <2>3 DEF Complete, Cached
    <3> QED
      BY <3>1
  <2>5. k \in Nat /\ streams[Order[i]][k].at \in Nat
    BY EntryPlace, EntryAt DEF CacheInv
  <2>6. t.now \in Nat /\ Ttl \in Nat /\ streams[Order[i]][k].at <= t.now - Ttl
    BY <2>1, CacheConstantsOK DEF Callback
  <2>7. ~(o.upto[i] < k)
    <3>1. CameAfter(i, o.upto[i], t.now - Ttl + 1)
      BY <2>1, <2>2 DEF InStep
    <3>2. ~(t.now - Ttl + 1 <= streams[Order[i]][k].at)
      BY <2>5, <2>6
    <3> QED
      BY <3>1, <3>2 DEF CameAfter
  <2> QED
    BY <2>2, <2>4, <2>5, <2>7
<1> QED
  BY <1>1, CacheInitially, CachePreserved, PTL DEF CacheSpec

-----------------------------------------------------------------------------
(***************************************************************************)
(* The rows of the dashboard.                                              *)
(***************************************************************************)
LEMMA KeyType ==
    ASSUME NEW r, r.market \in Tickers
    PROVE  Key(r)[1] \in Nat /\ Key(r)[2] \in Nat /\ Key(r)[3] = Name[r.market]
<1>1. Strike[r.market] \in Nat \cup {NoValue} /\ Name[r.market] \in Nat
  BY DashboardConstantsOK
<1>2. CASE Strike[r.market] = NoValue
  BY <1>1, <1>2 DEF Key
<1>3. CASE Strike[r.market] # NoValue
  BY <1>1, <1>3 DEF Key
<1> QED
  BY <1>2, <1>3

\* Rows are told apart by strike and name in that order.
LEMMA BeforeIs ==
    ASSUME NEW r, NEW q
    PROVE  Before(r, q) <=>
             \/ Key(r)[1] < Key(q)[1]
             \/ Key(r)[1] = Key(q)[1] /\ Key(r)[2] < Key(q)[2]
             \/ Key(r)[1] = Key(q)[1] /\ Key(r)[2] = Key(q)[2] /\ Key(r)[3] < Key(q)[3]
<1> DEFINE less(i) == Key(r)[i] < Key(q)[i]
           same(i) == Key(r)[i] = Key(q)[i]
<1>1. Before(r, q) <=> \E i \in 1 .. 3 : less(i) /\ \A j \in 1 .. i - 1 : same(j)
  BY DEF Before
<1> HIDE DEF less, same
<1>2. \A i \in 1 .. 3 : i = 1 \/ i = 2 \/ i = 3
  OBVIOUS
<1>3. (\A j \in 1 .. 1 - 1 : same(j)) /\ ((\A j \in 1 .. 2 - 1 : same(j)) <=> same(1))
      /\ ((\A j \in 1 .. 3 - 1 : same(j)) <=> same(1) /\ same(2))
  <2>1. 1 .. 1 - 1 = {} /\ 1 .. 2 - 1 = {1} /\ 1 .. 3 - 1 = {1, 2}
    OBVIOUS
  <2> QED
    BY <2>1
<1>4. 1 \in 1 .. 3 /\ 2 \in 1 .. 3 /\ 3 \in 1 .. 3
  OBVIOUS
<1>5. (\E i \in 1 .. 3 : less(i) /\ \A j \in 1 .. i - 1 : same(j)) <=>
        \/ less(1)
        \/ less(2) /\ same(1)
        \/ less(3) /\ same(1) /\ same(2)
  BY <1>2, <1>3, <1>4
<1> QED
  BY <1>1, <1>5 DEF less, same

\* Sorted by it, rows of different markets are a sequence that has each once.
LEMMA RowsPlaced ==
    ASSUME NEW rows, IsFiniteSet(rows), \A r \in rows : r.market \in Tickers,
           \A r, q \in rows : r.market = q.market => r = q
    PROVE  LET list == [i \in 1 .. Cardinality(rows) |->
                          CHOOSE r \in rows : Cardinality({q \in rows : Before(q, r)}) = i - 1]
           IN list \in Seq(rows) /\ ToSet(list) = rows
<1> DEFINE n == Cardinality(rows)
           R == {p \in rows \X rows : Before(p[1], p[2])}
           rank == [r \in rows |-> Cardinality({q \in rows : <<q, r>> \in R})]
           list == [i \in 1 .. n |->
                      CHOOSE r \in rows : Cardinality({q \in rows : Before(q, r)}) = i - 1]
<1>1. \A r, q \in rows : <<r, q>> \in R <=> Before(r, q)
  OBVIOUS
<1>2. \A r \in rows : {q \in rows : <<q, r>> \in R} = {q \in rows : Before(q, r)}
  BY <1>1
<1>3. R \in SUBSET (rows \X rows)
  OBVIOUS
<1>4. \A r \in rows : Key(r)[1] \in Nat /\ Key(r)[2] \in Nat /\ Key(r)[3] \in Nat
  BY KeyType, DashboardConstantsOK
<1> HIDE DEF R
<1>5. \A x \in rows : <<x, x>> \notin R
  <2> SUFFICES ASSUME NEW x \in rows PROVE ~Before(x, x)
    BY <1>1
  <2> QED
    BY <1>4, BeforeIs
<1>6. \A x, y, z \in rows : <<x, y>> \in R /\ <<y, z>> \in R => <<x, z>> \in R
  <2> SUFFICES ASSUME NEW x \in rows, NEW y \in rows, NEW z \in rows,
                      Before(x, y), Before(y, z)
               PROVE  Before(x, z)
    BY <1>1
  <2> QED
    BY <1>4, BeforeIs
<1>7. \A x, y \in rows : x # y => <<x, y>> \in R \/ <<y, x>> \in R
  <2> SUFFICES ASSUME NEW x \in rows, NEW y \in rows, x # y
               PROVE  Before(x, y) \/ Before(y, x)
    BY <1>1
  <2>1. Key(x)[3] # Key(y)[3]
    <3>1. x.market # y.market /\ x.market \in Tickers /\ y.market \in Tickers
      OBVIOUS
    <3>2. Name[x.market] # Name[y.market]
      BY <3>1, DashboardConstantsOK
    <3> QED
      BY <3>1, <3>2, KeyType
  <2> QED
    BY <1>4, <2>1, BeforeIs
<1>8. rank \in Injection(rows, 0 .. n - 1) /\ rank \in Surjection(rows, 0 .. n - 1)
  BY <1>3, <1>5, <1>6, <1>7, Ranked
<1>9. n \in Nat
  BY FS_CardinalityType
<1> HIDE DEF n
<1>10. \A r \in rows : rank[r] = Cardinality({q \in rows : Before(q, r)})
  BY <1>2
<1>11. \A r, q \in rows : rank[r] = rank[q] => r = q
  <2>1. DOMAIN rank = rows
    OBVIOUS
  <2> HIDE DEF rank
  <2> QED
    BY <1>8, <2>1 DEF Injection, IsInjective
<1>12. \A i \in 0 .. n - 1 : \E r \in rows : rank[r] = i
  <2> HIDE DEF rank
  <2> QED
    BY <1>8 DEF Surjection
<1>13. \A r \in rows : rank[r] \in 0 .. n - 1
  <2> HIDE DEF rank
  <2> QED
    BY <1>8 DEF Surjection
<1> HIDE DEF rank
<1>14. ASSUME NEW i \in 1 .. n PROVE list[i] \in rows /\ rank[list[i]] = i - 1
  <2>1. i - 1 \in 0 .. n - 1
    BY <1>9
  <2>2. \E r \in rows : Cardinality({q \in rows : Before(q, r)}) = i - 1
    BY <1>10, <1>12, <2>1
  <2>3. list[i] \in rows /\ Cardinality({q \in rows : Before(q, list[i])}) = i - 1
    BY <2>2
  <2> HIDE DEF list
  <2> QED
    BY <1>10, <2>3
<1>15. DOMAIN list = 1 .. n
  OBVIOUS
<1>16. list \in Seq(rows)
  <2>1. list \in [1 .. n -> rows]
    BY <1>14
  <2> HIDE DEF list
  <2> QED
    BY <1>9, <2>1
<1> HIDE DEF list
<1>17. ASSUME NEW r \in rows PROVE \E i \in 1 .. n : list[i] = r
  <2>1. PICK k \in 0 .. n - 1 : rank[r] = k
    BY <1>13
  <2>2. k + 1 \in 1 .. n /\ (k + 1) - 1 = k
    BY <1>9
  <2>3. list[k + 1] \in rows /\ rank[list[k + 1]] = k
    BY <1>14, <2>2
  <2>4. list[k + 1] = r
    BY <1>11, <2>1, <2>3
  <2> QED
    BY <2>2, <2>4
<1>18. ToSet(list) = rows
  BY <1>14, <1>15, <1>17 DEF ToSet
<1> QED
  BY <1>16, <1>18 DEF list, n

Quoted(entries, fresh) ==
    {m \in Tickers : /\ EventTicker[m] = ActiveEvent(entries, fresh)
                     /\ OfMarket(entries["tickers"], fresh["tickers"], m) # {}}

RowSet(entries, fresh) == {Row(m, entries, fresh) : m \in Quoted(entries, fresh)}

LEMMA RowMarket ==
    ASSUME NEW m, NEW entries, NEW fresh
    PROVE  Row(m, entries, fresh).market = m
BY DEF Row

LEMMA ContractRowsAre ==
    ASSUME NEW entries, NEW fresh
    PROVE  /\ ContractRows(entries, fresh) \in Seq(RowSet(entries, fresh))
           /\ ToSet(ContractRows(entries, fresh)) = RowSet(entries, fresh)
<1> DEFINE rows == RowSet(entries, fresh)
           quoted == Quoted(entries, fresh)
           row == [m \in quoted |-> Row(m, entries, fresh)]
<1>1. IsFiniteSet(rows)
  <2>1. IsFiniteSet(quoted)
    <3>1. quoted \in SUBSET Tickers
      BY DEF Quoted
    <3> HIDE DEF quoted
    <3> QED
      BY <3>1, DashboardConstantsOK, FS_Subset
  <2>2. row \in Surjection(quoted, rows)
    BY DEF Surjection, RowSet
  <2> HIDE DEF row, rows, quoted
  <2> QED
    BY <2>1, <2>2, FS_Surjection
<1>2. \A r \in rows : r.market \in Tickers /\ r = Row(r.market, entries, fresh)
  <2> SUFFICES ASSUME NEW m \in quoted
               PROVE  /\ Row(m, entries, fresh).market \in Tickers
                      /\ Row(m, entries, fresh) =
                           Row(Row(m, entries, fresh).market, entries, fresh)
    BY DEF RowSet
  <2>1. m \in Tickers
    BY DEF Quoted
  <2> QED
    BY <2>1, RowMarket
<1>3. \A r, q \in rows : r.market = q.market => r = q
  <2> HIDE DEF rows
  <2> SUFFICES ASSUME NEW r \in rows, NEW q \in rows, r.market = q.market PROVE r = q
    OBVIOUS
  <2>1. r = Row(r.market, entries, fresh) /\ q = Row(q.market, entries, fresh)
    BY <1>2
  <2> QED
    BY <2>1
<1>4. ContractRows(entries, fresh) =
        [i \in 1 .. Cardinality(rows) |->
           CHOOSE r \in rows : Cardinality({q \in rows : Before(q, r)}) = i - 1]
  BY DEF ContractRows, RowSet, Quoted
<1> HIDE DEF rows
<1>5. QED
  BY <1>1, <1>2, <1>3, <1>4, RowsPlaced DEF rows

\* The slice of the rows has one of the contracts nearest to the spot.
LEMMA NearestShown ==
    ASSUME NEW rows, NEW list \in Seq(rows), \A r \in rows : r.market \in Tickers,
           NEW spot \in Nat, NEW r \in ToSet(list) \ ToSet(SelectContractWindow(list, spot, 1)),
           Strike[r.market] # NoValue
    PROVE  \E q \in ToSet(SelectContractWindow(list, spot, 1)) :
              /\ Strike[q.market] # NoValue
              /\ Distance(Strike[q.market], spot) <= Distance(Strike[r.market], spot)
<1> DEFINE struck == {i \in DOMAIN list : Strike[list[i].market] # NoValue}
           far(i) == Distance(Strike[list[i].market], spot)
           nearest == {i \in struck : \A j \in struck : far(i) <= far(j)}
           atm == Min(nearest)
           lo == Max({1, atm - Reach})
           hi == Min({Len(list), atm + Reach})
           window == SelectContractWindow(list, spot, 1)
<1>1. spot # NoValue
  BY DEF NoValue
<1>2. PICK k \in DOMAIN list : list[k] = r
  BY DEF ToSet
<1>3. k \in struck
  BY <1>2
<1>4. window = SubSeq(list, lo, hi)
  BY <1>1, <1>3 DEF SelectContractWindow
<1>5. DOMAIN list = 1 .. Len(list) /\ Len(list) \in Nat
  OBVIOUS
<1>6. \A i \in DOMAIN list : list[i] \in rows
  OBVIOUS
<1>7. \A i \in struck : far(i) \in Nat
  <2> SUFFICES ASSUME NEW i \in struck PROVE far(i) \in Nat
    OBVIOUS
  <2>1. list[i].market \in Tickers /\ Strike[list[i].market] # NoValue
    BY <1>6
  <2>2. Strike[list[i].market] \in Nat
    BY <2>1, DashboardConstantsOK
  <2> QED
    BY <2>2 DEF Distance
<1>8. struck \subseteq 1 .. Len(list)
  BY <1>5
<1> HIDE DEF far, struck
<1>9. nearest # {}
  <2> DEFINE fars == {far(i) : i \in struck}
  <2>1. fars \in SUBSET Nat /\ fars # {}
    BY <1>3, <1>7
  <2>2. PICK d \in fars : \A x \in fars : d <= x
    <3> HIDE DEF fars
    <3> QED
      BY <2>1, MinExists
  <2>3. PICK i \in struck : far(i) = d
    OBVIOUS
  <2> QED
    BY <2>2, <2>3
<1>10. atm \in nearest
  <2>1. nearest \in SUBSET Nat
    <3>1. nearest \subseteq struck
      OBVIOUS
    <3>2. 1 .. Len(list) \subseteq Nat
      BY <1>5
    <3> HIDE DEF nearest
    <3> QED
      BY <1>8, <3>1, <3>2
  <2> HIDE DEF nearest
  <2> QED
    BY <1>9, <2>1, MinFacts
<1>11. atm \in struck /\ far(atm) <= far(k)
  BY <1>3, <1>10
<1>12. atm \in 1 .. Len(list)
  BY <1>8, <1>11
<1> HIDE DEF atm
<1>13. Reach \in Nat
  BY DashboardConstantsOK
<1>14. lo \in 1 .. atm
  <2>1. atm - Reach \in Int
    BY <1>12, <1>13
  <2>2. lo = IF 1 <= atm - Reach THEN atm - Reach ELSE 1
    BY <2>1, MaxWithOne
  <2> QED
    BY <1>12, <1>13, <2>2
<1>15. hi \in atm .. Len(list)
  <2>1. CASE Len(list) <= atm + Reach
    <3>1. /\ {Len(list), atm + Reach} \in SUBSET Int
          /\ \A x \in {Len(list), atm + Reach} : Len(list) <= x
      BY <1>5, <1>12, <1>13, <2>1
    <3>2. hi = Len(list)
      BY <3>1, MinIs
    <3> QED
      BY <1>5, <1>12, <3>2
  <2>2. CASE ~(Len(list) <= atm + Reach)
    <3>1. /\ {Len(list), atm + Reach} \in SUBSET Int
          /\ \A x \in {Len(list), atm + Reach} : atm + Reach <= x
      BY <1>5, <1>12, <1>13, <2>2
    <3>2. hi = atm + Reach
      BY <3>1, MinIs
    <3> QED
      BY <1>5, <1>12, <1>13, <2>2, <3>2
  <2> QED
    BY <2>1, <2>2
<1> HIDE DEF lo, hi
<1>16. list[atm] \in ToSet(window)
  <2>1. lo \in Int /\ hi \in Int /\ \A i \in lo .. hi : list[i] \in rows
    <3>1. \A i \in lo .. hi : i \in 1 .. Len(list)
      BY <1>5, <1>12, <1>14, <1>15
    <3> QED
      BY <1>5, <1>6, <1>12, <1>14, <1>15, <3>1
  <2>2. /\ SubSeq(list, lo, hi) \in Seq(rows)
        /\ Len(SubSeq(list, lo, hi)) = IF lo <= hi THEN hi - lo + 1 ELSE 0
        /\ \A i \in 1 .. hi - lo + 1 : SubSeq(list, lo, hi)[i] = list[lo + i - 1]
    BY <2>1, SubSeqProperties
  <2>3. PICK i \in 1 .. hi - lo + 1 : lo + i - 1 = atm
    <3>1. atm - lo + 1 \in 1 .. hi - lo + 1 /\ lo + (atm - lo + 1) - 1 = atm
      BY <1>12, <1>14, <1>15
    <3> QED
      BY <3>1
  <2>4. i \in DOMAIN SubSeq(list, lo, hi)
    <3>1. lo <= hi
      BY <1>12, <1>14, <1>15
    <3> QED
      BY <2>2, <3>1
  <2>5. SubSeq(list, lo, hi)[i] = list[atm]
    BY <2>2, <2>3
  <2> QED
    BY <1>4, <2>4, <2>5 DEF ToSet
<1>17. Strike[list[atm].market] # NoValue
  BY <1>11 DEF struck
<1> QED
  BY <1>2, <1>11, <1>16, <1>17 DEF far

\* The first u entries of s that are not too old.
Recent(s, u, at) == {k \in 1 .. u : at - s[k].at <= DefaultMaxAge}

LEMMA FreshIs ==
    ASSUME NEW s, NEW u \in Nat, NEW at
    PROVE  Fresh(s, u, at) = {k \in Recent(s, u, at) : k > u - WindowSize}
<1> DEFINE lo == Max({1, u - WindowSize + 1})
           young(k) == at - s[k].at <= DefaultMaxAge
<1>1. WindowSize \in Nat
  BY DashboardConstantsOK
<1>2. u - WindowSize + 1 \in Int
  BY <1>1
<1>3. lo = IF 1 <= u - WindowSize + 1 THEN u - WindowSize + 1 ELSE 1
  BY <1>2, MaxWithOne
<1> HIDE DEF lo
<1>4. {k \in lo .. u : young(k)} = {k \in {j \in 1 .. u : young(j)} : k > u - WindowSize}
  <2> HIDE DEF young
  <2>1. \A k : k \in lo .. u <=> k \in 1 .. u /\ k > u - WindowSize
    BY <1>1, <1>3
  <2> QED
    BY <2>1
<1> QED
  BY <1>4 DEF Fresh, StreamPayloads, Recent, lo

LEMMA RecentPlaces ==
    ASSUME NEW s, NEW u \in Nat, NEW at, NEW m
    PROVE  /\ Recent(s, u, at) \in SUBSET (1 .. u)
           /\ Fresh(s, u, at) \in SUBSET Recent(s, u, at)
           /\ OfMarket(s, Recent(s, u, at), m) \in SUBSET (1 .. u)
           /\ OfMarket(s, Fresh(s, u, at), m) \in SUBSET OfMarket(s, Recent(s, u, at), m)
<1>1. Recent(s, u, at) \in SUBSET (1 .. u)
  BY DEF Recent
<1>2. Fresh(s, u, at) \in SUBSET Recent(s, u, at)
  BY FreshIs
<1> QED
  BY <1>1, <1>2 DEF OfMarket

\* Of a market that is in the window at all, the newest entry is in the window.
LEMMA NewestInWindow ==
    ASSUME NEW s, NEW u \in Nat, NEW at, NEW m,
           OfMarket(s, Fresh(s, u, at), m) # {}
    PROVE  /\ Max(OfMarket(s, Fresh(s, u, at), m)) = Max(OfMarket(s, Recent(s, u, at), m))
           /\ OfMarket(s, Recent(s, u, at), m) # {}
<1> DEFINE K == OfMarket(s, Fresh(s, u, at), m)
           J == OfMarket(s, Recent(s, u, at), m)
<1>1. J \in SUBSET (1 .. u) /\ K \in SUBSET J /\ K # {}
  BY RecentPlaces
<1>2. Max(J) \in J /\ \A x \in J : x <= Max(J)
  <2> HIDE DEF J, K
  <2> QED
    BY <1>1, MaxFacts
<1>3. PICK top \in J : top = Max(J) /\ \A x \in J : x <= top
  BY <1>2
<1>4. PICK k \in K : TRUE
  BY <1>1
<1>5. k > u - WindowSize /\ k <= top /\ k \in Nat /\ top \in Nat
  <2>1. k \in Fresh(s, u, at) /\ k \in J
    BY <1>1, <1>4 DEF OfMarket
  <2> HIDE DEF J, K
  <2>2. k > u - WindowSize
    BY <2>1, FreshIs
  <2> QED
    BY <1>1, <1>3, <2>1, <2>2
<1>6. top > u - WindowSize
  <2>1. WindowSize \in Nat
    BY DashboardConstantsOK
  <2> QED
    BY <1>5, <2>1
<1>7. top \in K
  <2>1. top \in Recent(s, u, at) /\ s[top].market = m
    BY <1>3 DEF OfMarket
  <2>2. top \in Fresh(s, u, at)
    BY <1>6, <2>1, FreshIs
  <2> QED
    BY <2>1, <2>2 DEF OfMarket
<1> HIDE DEF J, K
<1>8. K \in SUBSET Int /\ \A x \in K : x <= top
  BY <1>1, <1>3
<1>9. Max(K) = top
  BY <1>7, <1>8, MaxIs
<1> QED
  BY <1>1, <1>3, <1>9 DEF J, K

\* The trade that is shown is the first of those that look like the newest one
\* and have none but such after them.
LEMMA FirstOfRun ==
    ASSUME NEW n \in Nat, NEW K \in SUBSET (1 .. n), K # {}, NEW s
    PROVE  LET since == Min({k \in K : \A j \in K : k <= j => s[j].value = s[Max(K)].value})
           IN Shown(s, K) = s[since] /\ s[since].value = s[Max(K)].value
<1> DEFINE same(j) == s[j].value = s[Max(K)].value
           run == {k \in K : \A j \in K : k <= j => same(j)}
           other == {j \in K : ~same(j)}
           before == {k \in K : \A j \in other : j < k}
<1>1. Max(K) \in K /\ \A x \in K : x <= Max(K)
  BY MaxFacts
<1>2. Shown(s, K) = s[Min(before)]
  BY DEF Shown
<1>3. same(Max(K))
  OBVIOUS
<1>4. \A k \in K : k \in Nat
  OBVIOUS
<1> HIDE DEF same
<1>5. run = before
  <2>1. \A k, j \in K : k <= j <=> ~(j < k)
    BY <1>4
  <2>2. ASSUME NEW k \in K
        PROVE  (\A j \in K : k <= j => same(j)) <=> (\A j \in other : j < k)
    BY <2>1
  <2> HIDE DEF other
  <2> QED
    BY <2>2
<1>6. Max(K) \in run
  <2>1. PICK top \in K : top = Max(K) /\ \A x \in K : x <= top
    BY <1>1
  <2>2. \A j \in K : top <= j => j = top
    BY <1>4, <2>1
  <2> QED
    BY <1>3, <2>1, <2>2
<1>7. run \in SUBSET Nat /\ run # {}
  BY <1>4, <1>6
<1>8. Min(run) \in run
  <2> HIDE DEF run
  <2> QED
    BY <1>7, MinFacts
<1>9. same(Min(run))
  <2>1. PICK k \in run : k = Min(run)
    BY <1>8
  <2>2. k \in K /\ k <= k
    BY <1>4, <2>1
  <2>3. same(k)
    BY <2>1, <2>2
  <2> HIDE DEF run
  <2> QED
    BY <2>1, <2>3
<1> QED
  BY <1>2, <1>5, <1>9 DEF same

Looked(entries, fresh) == UNION {{entries[s][k] : k \in fresh[s]} : s \in Streams}
NewestOf(all) == {e \in all : \A f \in all : f.at <= e.at}

\* The event is that of an entry that none of those looked at is newer than.
LEMMA EventOfNewest ==
    ASSUME NEW entries, NEW fresh, NEW u \in [Streams -> Nat],
           \A s \in Streams : fresh[s] \in SUBSET (1 .. u[s]),
           \A s \in Streams : \A k \in fresh[s] : entries[s][k].at \in Int,
           NewestOf(Looked(entries, fresh)) # {}
    PROVE  \E e \in NewestOf(Looked(entries, fresh)) :
              ActiveEvent(entries, fresh) = EventTicker[e.market]
<1> DEFINE all == Looked(entries, fresh)
           times == UNION {{entries[s][k].at : k \in fresh[s]} : s \in Streams}
           newest(s) == {k \in fresh[s] : entries[s][k].at = Max(times)}
           places == {i \in 1 .. 3 : newest(Order[i]) # {}}
           first == Order[Min(places)]
           place == Max(newest(first))
<1>1. PICK e \in all : \A f \in all : f.at <= e.at
  BY DEF NewestOf
<1>2. PICK s \in Streams : \E k \in fresh[s] : e = entries[s][k]
  BY DEF Looked
<1>3. PICK k \in fresh[s] : e = entries[s][k]
  BY <1>2
<1>4. e.at \in times /\ times \in SUBSET Int
  BY <1>3
<1>5. \A x \in times : \E f \in all : x = f.at
  BY DEF Looked
<1>6. Max(times) = e.at
  <2> HIDE DEF times, all
  <2>1. \A x \in times : x <= e.at
    BY <1>1, <1>5
  <2> QED
    BY <1>4, <2>1, MaxIs
<1>7. k \in newest(s)
  <2> HIDE DEF times
  <2> QED
    BY <1>3, <1>6
<1>8. \E i \in 1 .. 3 : Order[i] = s
  <2>1. s = "tickers" \/ s = "trades" \/ s = "books"
    BY DEF Streams
  <2>2. Order[1] = "tickers" /\ Order[2] = "trades" /\ Order[3] = "books"
    BY DEF Order
  <2> QED
    BY <2>1, <2>2
<1>9. ActiveEvent(entries, fresh) = EventTicker[entries[first][place].market]
  <2>1. times # {}
    BY <1>4
  <2> QED
    BY <2>1 DEF ActiveEvent
<1> HIDE DEF times
<1>10. Min(places) \in places
  <2>1. places \in SUBSET Nat /\ places # {}
    BY <1>7, <1>8
  <2> HIDE DEF places
  <2> QED
    BY <2>1, MinFacts
<1>11. first \in Streams /\ newest(first) # {}
  BY <1>10, OrderType
<1> HIDE DEF first, places
<1>12. place \in newest(first)
  <2>1. newest(first) \in SUBSET (1 .. u[first]) /\ u[first] \in Nat
    BY <1>11
  <2> HIDE DEF newest
  <2> QED
    BY <1>11, <2>1, MaxFacts
<1>13. place \in fresh[first] /\ entries[first][place].at = e.at
  BY <1>6, <1>12
<1> HIDE DEF newest, place
<1>14. entries[first][place] \in all
  BY <1>11, <1>13 DEF Looked
<1> HIDE DEF all
<1>15. PICK d : d = entries[first][place]
  OBVIOUS
<1>16. d \in all /\ \A f \in all : f.at <= d.at
  BY <1>1, <1>13, <1>14, <1>15
<1>17. d \in NewestOf(all)
  BY <1>16 DEF NewestOf
<1>18. ActiveEvent(entries, fresh) = EventTicker[d.market]
  BY <1>9, <1>15 DEF place
<1> QED
  BY <1>17, <1>18 DEF all

\* What is held was read from the streams.
WasRead(upto) ==
    \A i \in 1 .. 3 : i \in DOMAIN upto => upto[i] <= Len(streams[Order[i]])

ReadInv ==
    /\ cache # <<>> => WasRead(cache.upto)
    /\ \A c \in Callbacks :
          /\ WasRead(thread[c].upto)
          /\ thread[c].held # <<>> => WasRead(thread[c].held.upto)

LEMMA ReadNothing == WasRead(<<>>)
<1>1. DOMAIN <<>> = {}
  OBVIOUS
<1> QED
  BY <1>1 DEF WasRead

LEMMA ReadInitially == CacheInit => ReadInv
  BY ReadNothing DEF CacheInit, ReadInv, Idle

\* A step in which a callback changes its own state only.
LEMMA OwnRead ==
    ASSUME CacheType, ReadInv, NEW c \in Callbacks, NEW t, Becomes(c, t),
           UNCHANGED <<streams, cache>>, WasRead(t.upto),
           t.held # <<>> => WasRead(t.held.upto)
    PROVE  ReadInv'
<1>1. \A d \in Callbacks : thread'[d] = IF d = c THEN t ELSE thread[d]
  BY DEF Becomes, CacheType
<1>2. \A upto : WasRead(upto) => WasRead(upto)'
  BY DEF WasRead
<1>3. (cache # <<>> => WasRead(cache.upto))'
  BY <1>2 DEF ReadInv
<1>4. ASSUME NEW d \in Callbacks
      PROVE  (WasRead(thread[d].upto) /\ (thread[d].held # <<>> => WasRead(thread[d].held.upto)))'
  <2>1. PICK s : s = thread'[d]
    OBVIOUS
  <2>2. WasRead(s.upto) /\ (s.held # <<>> => WasRead(s.held.upto))
    BY <1>1, <2>1 DEF ReadInv
  <2>3. (WasRead(s.upto))' /\ (s.held # <<>> => (WasRead(s.held.upto))')
    BY <1>2, <2>2
  <2> QED
    BY <2>1, <2>3
<1> QED
  BY <1>3, <1>4 DEF ReadInv

\* Streams only grow.
LEMMA StreamsRead ==
    ASSUME CacheInv, ReadInv, Arrive \/ Elapse
    PROVE  ReadInv'
<1>1. UNCHANGED <<cache, thread>>
  BY DEF Arrive, Elapse
<1>2. ASSUME NEW upto \in Seq(Nat), WasRead(upto) PROVE (WasRead(upto))'
  <2>1. ASSUME NEW i \in 1 .. 3, i \in DOMAIN upto PROVE upto[i] <= Len(streams[Order[i]])'
    <3>1. Len(streams[Order[i]]) <= Len(streams[Order[i]])'
      BY NothingTrimmed
    <3>2. upto[i] <= Len(streams[Order[i]]) /\ upto[i] \in Nat
      BY <1>2, <2>1 DEF WasRead
    <3>3. Len(streams[Order[i]]) \in Nat
      BY OrderType DEF CacheInv, CacheType
    <3>4. (Len(streams[Order[i]]))' \in Nat
      <4>1. CacheType'
        BY StreamsStep DEF CacheInv
      <4>2. streams'[Order[i]] \in Seq([market : STRING, value : Nat, at : Nat])
        BY <4>1, OrderType DEF CacheType
      <4> QED
        BY <4>2 DEF Order
    <3> QED
      BY <3>1, <3>2, <3>3, <3>4
  <2> QED
    BY <2>1 DEF WasRead, Order
<1>3. (cache # <<>> => WasRead(cache.upto))'
  <2>1. cache # <<>> => cache.upto \in Seq(Nat)
    BY DEF CacheInv, CacheType, Cached
  <2> QED
    BY <1>1, <1>2, <2>1 DEF ReadInv
<1>4. ASSUME NEW d \in Callbacks
      PROVE  (WasRead(thread[d].upto) /\ (thread[d].held # <<>> => WasRead(thread[d].held.upto)))'
  <2>1. thread[d].upto \in Seq(Nat) /\ (thread[d].held # <<>> => thread[d].held.upto \in Seq(Nat))
    BY HeldType DEF CacheInv, Callback, Cached
  <2> QED
    BY <1>1, <1>2, <2>1 DEF ReadInv
<1> QED
  BY <1>3, <1>4 DEF ReadInv

LEMMA WindowRead ==
    ASSUME CacheInv, ReadInv, NEW c \in Callbacks, ReadWindow(c)
    PROVE  ReadInv'
<1>1. PICK t \in Callback : t = thread[c] /\ InStep(t, Held(c)) /\ t.pc = "windows"
  BY HeldType DEF CacheInv, ReadWindow, At
<1>2. PICK n : n = Len(t.upto) + 1
  OBVIOUS
<1>3. t.upto \in Seq(Nat) /\ Len(t.upto) < 3 /\ n \in 1 .. 3
  <2>1. t.upto \in Seq(Nat) /\ Len(t.upto) < 3
    BY <1>1 DEF Callback, InStep
  <2>2. Len(t.upto) \in Nat
    BY <2>1
  <2> QED
    BY <1>2, <2>1, <2>2
<1>4. PICK size : size = Len(streams[Order[n]])
  OBVIOUS
<1>5. size \in Nat
  BY <1>3, <1>4, OrderType DEF CacheInv, CacheType
<1>6. PICK upto : upto = Append(t.upto, size)
  OBVIOUS
<1>7. /\ \A i \in DOMAIN upto : upto[i] = IF i = n THEN size ELSE t.upto[i]
      /\ \A i \in DOMAIN upto : i # n => i \in DOMAIN t.upto
  BY <1>2, <1>3, <1>5, <1>6
<1>8. WasRead(upto)
  <2> SUFFICES ASSUME NEW i \in 1 .. 3, i \in DOMAIN upto
               PROVE  upto[i] <= Len(streams[Order[i]])
    BY DEF WasRead
  <2>1. CASE i = n
    BY <1>4, <1>5, <1>7, <2>1
  <2>2. CASE i # n
    BY <1>1, <1>7, <2>2 DEF ReadInv, WasRead
  <2> QED
    BY <2>1, <2>2
<1>9. PICK u : u = [t EXCEPT !.upto = upto, !.pc = IF Len(upto) < 3 THEN "windows" ELSE "store"]
  OBVIOUS
<1>10. Becomes(c, u) /\ UNCHANGED <<streams, cache>>
  BY <1>1, <1>2, <1>4, <1>6, <1>9 DEF ReadWindow
<1>11. u.upto = upto /\ u.held = t.held
  BY <1>9 DEF Callback
<1>12. u.held # <<>> => WasRead(u.held.upto)
  BY <1>1, <1>11 DEF ReadInv
<1> QED
  BY <1>8, <1>10, <1>11, <1>12, OwnRead DEF CacheInv

LEMMA StoreRead ==
    ASSUME CacheInv, ReadInv, NEW c \in Callbacks, Store(c)
    PROVE  ReadInv'
<1>1. UNCHANGED streams
  BY DEF Store
<1>2. \A upto : WasRead(upto) => WasRead(upto)'
  BY <1>1 DEF WasRead
<1>3. (cache # <<>> => WasRead(cache.upto))'
  <2>1. cache'.upto = thread[c].upto
    BY DEF Store
  <2>2. PICK upto : upto = thread[c].upto
    OBVIOUS
  <2>3. (WasRead(upto))'
    BY <1>2, <2>2 DEF ReadInv
  <2> QED
    BY <2>1, <2>2, <2>3
<1>4. ASSUME NEW d \in Callbacks
      PROVE  (WasRead(thread[d].upto) /\ (thread[d].held # <<>> => WasRead(thread[d].held.upto)))'
  <2>1. PICK s : s = thread'[d]
    OBVIOUS
  <2>2. CASE d = c
    <3>1. s.upto = <<>> /\ s.held = <<>>
      BY <2>1, <2>2 DEF Store, Idle
    <3>2. (WasRead(<<>>))'
      BY <1>2, ReadNothing
    <3> QED
      BY <2>1, <3>1, <3>2
  <2>3. CASE d # c /\ thread[d].shared
    <3>1. PICK t \in Callback : t = thread[d]
      BY HeldType DEF CacheInv
    <3>2. s = [t EXCEPT !.shared = FALSE, !.held = cache]
      BY <2>1, <2>3, <3>1 DEF Store
    <3>3. s.upto = t.upto /\ s.held = cache
      BY <3>1, <3>2 DEF Callback
    <3>4. WasRead(s.upto) /\ (s.held # <<>> => WasRead(s.held.upto))
      BY <3>1, <3>3 DEF ReadInv
    <3>5. (WasRead(s.upto))' /\ (s.held # <<>> => (WasRead(s.held.upto))')
      BY <1>2, <3>4
    <3> QED
      BY <2>1, <3>5
  <2>4. CASE d # c /\ ~thread[d].shared
    <3>1. s = thread[d]
      BY <2>1, <2>4 DEF Store
    <3>2. WasRead(s.upto) /\ (s.held # <<>> => WasRead(s.held.upto))
      BY <3>1 DEF ReadInv
    <3>3. (WasRead(s.upto))' /\ (s.held # <<>> => (WasRead(s.held.upto))')
      BY <1>2, <3>2
    <3> QED
      BY <2>1, <3>3
  <2> QED
    BY <2>2, <2>3, <2>4
<1> QED
  BY <1>3, <1>4 DEF ReadInv

LEMMA TouchRead ==
    ASSUME CacheInv, ReadInv, NEW c \in Callbacks, Touch(c)
    PROVE  ReadInv'
<1>1. PICK t \in Callback : t = thread[c] /\ InStep(t, Held(c)) /\ t.pc = "touch"
  BY HeldType DEF CacheInv, Touch, At
<1>2. CASE t.shared
  <2>1. cache \in Cached
    BY <1>1, <1>2 DEF CacheInv, CacheType
  <2>2. cache' = [cache EXCEPT !.checked = t.now]
    BY <1>1, <1>2 DEF Touch
  <2>3. cache'.upto = cache.upto /\ cache # <<>>
    BY <2>1, <2>2, CachedNotEmpty DEF Cached
  <2>4. UNCHANGED streams
    BY DEF Touch
  <2>5. (WasRead(cache.upto))'
    BY <2>3, <2>4 DEF ReadInv, WasRead
  <2>6. ASSUME NEW d \in Callbacks PROVE thread'[d].upto = thread[d].upto /\ thread'[d].held = thread[d].held
    <3>1. thread' = [thread EXCEPT ![c] = [t EXCEPT !.pc = "rows"]]
      BY <1>1, <1>2 DEF Touch, Becomes
    <3>2. PICK u : u = [t EXCEPT !.pc = "rows"]
      OBVIOUS
    <3>3. u.upto = t.upto /\ u.held = t.held
      BY <3>2 DEF Callback
    <3>4. thread'[d] = IF d = c THEN u ELSE thread[d]
      BY <3>1, <3>2 DEF CacheInv, CacheType
    <3> QED
      BY <1>1, <3>3, <3>4
  <2>7. \A upto : WasRead(upto) => WasRead(upto)'
    BY <2>4 DEF WasRead
  <2>8. ASSUME NEW d \in Callbacks
        PROVE  (WasRead(thread[d].upto) /\ (thread[d].held # <<>> => WasRead(thread[d].held.upto)))'
    <3>1. (WasRead(thread[d].upto)) /\ (thread[d].held # <<>> => WasRead(thread[d].held.upto))
      BY DEF ReadInv
    <3>2. PICK x, y : x = thread[d].upto /\ y = thread[d].held
      OBVIOUS
    <3>3. (WasRead(x))' /\ (y # <<>> => (WasRead(y.upto))')
      BY <2>7, <3>1, <3>2
    <3> QED
      BY <2>6, <3>2, <3>3
  <2> QED
    BY <2>5, <2>8 DEF ReadInv
<1>3. CASE ~t.shared
  <2>1. t.held \in Cached
    BY <1>1, <1>3 DEF InStep, Held, Callback
  <2>2. PICK u : u = [t EXCEPT !.pc = "rows", !.held.checked = t.now]
    OBVIOUS
  <2>3. Becomes(c, u) /\ UNCHANGED <<streams, cache>>
    BY <1>1, <1>3, <2>2 DEF Touch
  <2>4. u.upto = t.upto /\ u.held = [t.held EXCEPT !.checked = t.now]
    BY <2>2 DEF Callback
  <2>5. u.held.upto = t.held.upto
    BY <2>1, <2>4 DEF Cached
  <2>6. t.held # <<>>
    BY <2>1, CachedNotEmpty
  <2>7. WasRead(u.upto) /\ WasRead(u.held.upto)
    BY <1>1, <2>4, <2>5, <2>6 DEF ReadInv
  <2> QED
    BY <2>3, <2>7, OwnRead DEF CacheInv
<1> QED
  BY <1>2, <1>3

LEMMA IdRead ==
    ASSUME CacheInv, ReadInv, NEW c \in Callbacks, ReadId(c)
    PROVE  ReadInv'
<1>1. PICK t \in Callback : t = thread[c]
  BY HeldType DEF CacheInv
<1>2. PICK ids : ids = Append(t.ids, Len(streams[Order[Len(t.ids) + 1]]))
  OBVIOUS
<1>3. PICK u : u = IF Len(ids) < 3 THEN [t EXCEPT !.ids = ids]
                   ELSE IF Held(c) # <<>> /\ Held(c).ids = ids
                   THEN [t EXCEPT !.pc = "touch", !.ids = <<>>]
                   ELSE [t EXCEPT !.pc = "windows", !.ids = ids, !.shared = FALSE,
                                  !.held = <<>>]
  OBVIOUS
<1>4. Becomes(c, u) /\ UNCHANGED <<streams, cache>>
  BY <1>1, <1>2, <1>3 DEF ReadId
<1>5. u.upto = t.upto /\ u.held \in {t.held, <<>>}
  BY <1>3 DEF Callback
<1>6. WasRead(u.upto) /\ (u.held # <<>> => WasRead(u.held.upto))
  BY <1>1, <1>5 DEF ReadInv
<1> QED
  BY <1>4, <1>6, OwnRead DEF CacheInv

LEMMA OthersRead ==
    ASSUME CacheInv, ReadInv, NEW c \in Callbacks, Begin(c) \/ Return(c) \/ RedisError(c)
    PROVE  ReadInv'
<1>1. PICK u : Becomes(c, u) /\ u.upto = <<>> /\ u.held = <<>>
  <2>1. CASE Begin(c)
    <3>1. PICK u : u = [Idle EXCEPT !.now = now, !.shared = cache # <<>>,
                            !.pc = IF cache = <<>> THEN "ids"
                                   ELSE IF now - cache.checked >= Ttl THEN "ids" ELSE "rows"]
      OBVIOUS
    <3>2. u.upto = <<>> /\ u.held = <<>>
      BY <3>1 DEF Idle
    <3> QED
      BY <2>1, <3>1, <3>2 DEF Begin
  <2>2. CASE Return(c) \/ RedisError(c)
    BY <2>2 DEF Return, RedisError, Idle
  <2> QED
    BY <2>1, <2>2
<1>2. UNCHANGED <<streams, cache>>
  BY DEF Begin, Return, RedisError
<1> QED
  BY <1>1, <1>2, ReadNothing, OwnRead DEF CacheInv

LEMMA ReadPreserved == CacheInv /\ ReadInv /\ [CacheNext]_cacheVars => ReadInv'
<1> SUFFICES ASSUME CacheInv, ReadInv, [CacheNext]_cacheVars PROVE ReadInv'
  OBVIOUS
<1>1. CASE Arrive \/ Elapse
  BY <1>1, StreamsRead
<1>2. CASE \E c \in Callbacks : CallbackStep(c)
  BY <1>2, OthersRead, IdRead, WindowRead, StoreRead, TouchRead DEF CallbackStep
<1>3. CASE UNCHANGED cacheVars
  BY <1>3 DEF cacheVars, ReadInv, WasRead
<1> QED
  BY <1>1, <1>2, <1>3 DEF CacheNext

\* What a callback has of a stream when it returns is the start of the stream.
LEMMA UptoIs ==
    ASSUME CacheInv, ReadInv, NEW c \in Returning, NEW s \in Streams
    PROVE  Upto(c, s) \in Nat /\ Upto(c, s) <= Len(streams[s])
<1>1. PICK i \in 1 .. 3 : Order[i] = s /\ Upto(c, s) = Held(c).upto[i]
  <2>1. s = "tickers" \/ s = "trades" \/ s = "books"
    BY DEF Streams
  <2>2. Order[1] = "tickers" /\ Order[2] = "trades" /\ Order[3] = "books"
    BY DEF Order
  <2>3. \E i \in 1 .. 3 : Order[i] = s
    BY <2>1, <2>2
  <2> QED
    BY <2>3 DEF Upto
<1>2. PICK t \in Callback : t = thread[c] /\ t.pc = "rows" /\ InStep(t, Held(c))
  BY HeldType DEF CacheInv, Returning, At
<1>3. PICK o \in Cached : o = Held(c)
  BY <1>2, HeldType DEF InStep, CacheInv, Returning
<1>4. Complete(o) /\ WasRead(o.upto)
  BY <1>2, <1>3, CachedNotEmpty DEF Held, InStep, CacheInv, Returning, ReadInv
<1>5. o.upto \in Seq(Nat) /\ Len(o.upto) = 3
  BY <1>4 DEF Complete, Cached
<1>6. i \in DOMAIN o.upto /\ o.upto[i] \in Nat
  <2>1. DOMAIN o.upto = 1 .. 3
    BY <1>5
  <2>2. i \in DOMAIN o.upto
    BY <2>1
  <2> QED
    BY <1>5, <2>2
<1>7. o.upto[i] <= Len(streams[Order[i]])
  BY <1>4, <1>6 DEF WasRead
<1> QED
  BY <1>1, <1>3, <1>6, <1>7

\* What the view of a callback is made of, and what the window may have cut.
Age(c, s) == Recent(streams[s], Upto(c, s), thread[c].now)
Cut(c) == [s \in Streams |-> Fresh(streams[s], Upto(c, s), thread[c].now)]
Whole(c, s) == \A k \in Age(c, s) : k > Upto(c, s) - WindowSize

LEMMA CutIs ==
    ASSUME CacheInv, ReadInv, NEW c \in Returning, NEW s \in Streams
    PROVE  /\ Cut(c)[s] \in SUBSET Age(c, s) /\ Age(c, s) \in SUBSET (1 .. Upto(c, s))
           /\ Whole(c, s) => Cut(c)[s] = Age(c, s)
<1>1. Upto(c, s) \in Nat
  BY UptoIs
<1>2. Cut(c)[s] = Fresh(streams[s], Upto(c, s), thread[c].now)
  BY DEF Cut
<1>3. Fresh(streams[s], Upto(c, s), thread[c].now) =
        {k \in Recent(streams[s], Upto(c, s), thread[c].now) : k > Upto(c, s) - WindowSize}
  BY <1>1, FreshIs
<1>4. Recent(streams[s], Upto(c, s), thread[c].now) \in SUBSET (1 .. Upto(c, s))
  BY <1>1, RecentPlaces
<1> QED
  BY <1>2, <1>3, <1>4 DEF Age, Whole

LEMMA RowsAre ==
    ASSUME NEW c
    PROVE  /\ RowsOf(c) \in Seq(RowSet(streams, Cut(c)))
           /\ ToSet(RowsOf(c)) = RowSet(streams, Cut(c))
BY ContractRowsAre DEF RowsOf, Cut

LEMMA RowFacts ==
    ASSUME NEW c, NEW r \in RowSet(streams, Cut(c))
    PROVE  r.market \in Quoted(streams, Cut(c)) /\ r = Row(r.market, streams, Cut(c))
<1>1. PICK m \in Quoted(streams, Cut(c)) : r = Row(m, streams, Cut(c))
  BY DEF RowSet
<1>2. r.market = m
  BY <1>1, RowMarket
<1> QED
  BY <1>1, <1>2

LEMMA QuoteRight ==
    ASSUME CacheInv, ReadInv, NEW c \in Returning, NEW r \in RowSet(streams, Cut(c))
    PROVE  r.quote = streams["tickers"][Max(OfMarket(streams["tickers"], Age(c, "tickers"),
                                                     r.market))].value
<1>1. r.market \in Quoted(streams, Cut(c)) /\ r = Row(r.market, streams, Cut(c))
  BY RowFacts
<1>2. PICK m : m = r.market
  OBVIOUS
<1>3. "tickers" \in Streams
  BY DEF Streams
<1>4. Cut(c)["tickers"] = Fresh(streams["tickers"], Upto(c, "tickers"), thread[c].now)
  BY <1>3 DEF Cut
<1>5. OfMarket(streams["tickers"], Cut(c)["tickers"], m) # {}
  BY <1>1, <1>2 DEF Quoted
<1>6. Upto(c, "tickers") \in Nat
  BY <1>3, UptoIs
<1>7. Max(OfMarket(streams["tickers"], Cut(c)["tickers"], m)) =
        Max(OfMarket(streams["tickers"], Age(c, "tickers"), m))
  BY <1>4, <1>5, <1>6, NewestInWindow DEF Age
<1>8. Row(m, streams, Cut(c)).quote =
        streams["tickers"][Max(OfMarket(streams["tickers"], Cut(c)["tickers"], m))].value
  BY DEF Row
<1> QED
  BY <1>1, <1>2, <1>7, <1>8

LEMMA TradeRight ==
    ASSUME CacheInv, ReadInv, NEW c \in Returning, NEW r \in RowSet(streams, Cut(c)),
           NEW K, K = OfMarket(streams["trades"], Age(c, "trades"), r.market),
           K # {}, Whole(c, "trades")
    PROVE  LET since == Min({k \in K : \A j \in K : k <= j =>
                               streams["trades"][j].value = streams["trades"][Max(K)].value})
           IN r.trade = streams["trades"][Max(K)].value /\ r.since = streams["trades"][since].at
<1>1. r = Row(r.market, streams, Cut(c))
  BY RowFacts
<1>2. PICK m : m = r.market
  OBVIOUS
<1>3. "trades" \in Streams
  BY DEF Streams
<1>4. OfMarket(streams["trades"], Cut(c)["trades"], m) = K
  BY <1>2, <1>3, CutIs
<1>5. Upto(c, "trades") \in Nat /\ K \in SUBSET (1 .. Upto(c, "trades"))
  BY <1>3, UptoIs, RecentPlaces DEF Age
<1>6. /\ Row(m, streams, Cut(c)).trade = Shown(streams["trades"], K).value
      /\ Row(m, streams, Cut(c)).since = Shown(streams["trades"], K).at
  BY <1>4 DEF Row
<1>7. PICK since : since = Min({k \in K : \A j \in K : k <= j =>
                                  streams["trades"][j].value = streams["trades"][Max(K)].value})
  OBVIOUS
<1>8. /\ Shown(streams["trades"], K) = streams["trades"][since]
      /\ streams["trades"][since].value = streams["trades"][Max(K)].value
  BY <1>5, <1>7, FirstOfRun
<1> QED
  BY <1>1, <1>2, <1>6, <1>7, <1>8

LEMMA StreamEntry ==
    ASSUME CacheInv, ReadInv, NEW c \in Returning, NEW s \in Streams, NEW k \in Cut(c)[s]
    PROVE  streams[s][k].at \in Int
<1>1. PICK i \in 1 .. 3 : Order[i] = s
  <2>1. s = "tickers" \/ s = "trades" \/ s = "books"
    BY DEF Streams
  <2>2. Order[1] = "tickers" /\ Order[2] = "trades" /\ Order[3] = "books"
    BY DEF Order
  <2> QED
    BY <2>1, <2>2
<1>2. k \in 1 .. Upto(c, s) /\ Upto(c, s) \in Nat /\ Upto(c, s) <= Len(streams[s])
  BY CutIs, UptoIs
<1>3. streams[s] \in Seq([market : STRING, value : Nat, at : Nat])
  BY DEF CacheInv, CacheType
<1>4. k \in DOMAIN streams[s]
  BY <1>2, <1>3
<1>5. streams[s][k].at \in Nat
  BY <1>1, <1>4, EntryAt DEF CacheInv
<1> QED
  BY <1>5

LEMMA EventRight ==
    ASSUME CacheInv, ReadInv, NEW c \in Returning, \A s \in Streams : Whole(c, s),
           NEW all, all = UNION {{streams[s][k] : k \in Age(c, s)} : s \in Streams},
           NewestOf(all) # {}
    PROVE  \E e \in NewestOf(all) :
              {r.market : r \in RowSet(streams, Cut(c))} =
                {m \in Tickers : /\ EventTicker[m] = EventTicker[e.market]
                                 /\ OfMarket(streams["tickers"], Age(c, "tickers"), m) # {}}
<1>1. \A s \in Streams : Cut(c)[s] = Age(c, s) /\ Age(c, s) \in SUBSET (1 .. Upto(c, s))
  BY CutIs
<1>2. PICK fresh : fresh = Cut(c)
  OBVIOUS
<1>3. Looked(streams, fresh) = all
  BY <1>1, <1>2 DEF Looked
<1>4. PICK u : u = [s \in Streams |-> Upto(c, s)]
  OBVIOUS
<1>5. u \in [Streams -> Nat] /\ \A s \in Streams : u[s] = Upto(c, s)
  BY <1>4, UptoIs
<1>6. \A s \in Streams : fresh[s] \in SUBSET (1 .. u[s])
  BY <1>1, <1>2, <1>5
<1>7. \A s \in Streams : \A k \in fresh[s] : streams[s][k].at \in Int
  BY <1>2, StreamEntry
<1>8. PICK e \in NewestOf(all) : ActiveEvent(streams, fresh) = EventTicker[e.market]
  <2>1. NewestOf(Looked(streams, fresh)) # {}
    BY <1>3
  <2>2. \E e \in NewestOf(Looked(streams, fresh)) :
           ActiveEvent(streams, fresh) = EventTicker[e.market]
    BY <1>5, <1>6, <1>7, <2>1, EventOfNewest
  <2> QED
    BY <1>3, <2>2
<1>9. fresh["tickers"] = Age(c, "tickers")
  BY <1>1, <1>2 DEF Streams
<1>10. {r.market : r \in RowSet(streams, fresh)} = Quoted(streams, fresh)
  <2>1. \A m \in Quoted(streams, fresh) : Row(m, streams, fresh).market = m
    BY RowMarket
  <2> QED
    BY <2>1 DEF RowSet
<1>11. Quoted(streams, fresh) =
         {m \in Tickers : /\ EventTicker[m] = EventTicker[e.market]
                          /\ OfMarket(streams["tickers"], Age(c, "tickers"), m) # {}}
  BY <1>8, <1>9 DEF Quoted
<1> QED
  BY <1>2, <1>10, <1>11

\* The rows of a view, for any markets, streams and settings of the window: the
\* newest quote of each, the trade that is shown and since when, the event of the
\* newest entry, and the contract nearest to the spot.
THEOREM RowsAreRight == CacheSpec => []RowsRight
<1>1. CacheInv /\ ReadInv => RowsRight
  <2> SUFFICES ASSUME CacheInv, ReadInv PROVE RowsRight
    OBVIOUS
  <2>1. ASSUME NEW c \in Returning, NEW r \in ToSet(RowsOf(c))
        PROVE  r \in RowSet(streams, Cut(c)) /\ r.market \in Tickers
    BY <2>1, RowsAre, RowFacts DEF Quoted
  <2>2. ASSUME NEW c \in Returning, NEW spot \in Spots \ {NoValue},
               NEW r \in ToSet(RowsOf(c)) \ ToSet(View(c, spot, 1)),
               Strike[r.market] # NoValue
        PROVE  \E q \in ToSet(View(c, spot, 1)) :
                  /\ Strike[q.market] # NoValue
                  /\ Distance(Strike[q.market], spot) <= Distance(Strike[r.market], spot)
    <3>1. spot \in Nat
      BY DashboardConstantsOK
    <3>2. RowsOf(c) \in Seq(RowSet(streams, Cut(c)))
      BY RowsAre
    <3>3. \A q \in RowSet(streams, Cut(c)) : q.market \in Tickers
      BY RowFacts DEF Quoted
    <3> QED
      BY <2>2, <3>1, <3>2, <3>3, NearestShown DEF View
  <2>3. ASSUME NEW c \in Returning, NEW r \in ToSet(RowsOf(c))
        PROVE  LET trades == OfMarket(streams["trades"], Age(c, "trades"), r.market)
                   since == Min({k \in trades : \A j \in trades : k <= j =>
                       streams["trades"][j].value = streams["trades"][Max(trades)].value})
               IN /\ r.quote = streams["tickers"][Max(OfMarket(streams["tickers"],
                                                               Age(c, "tickers"), r.market))].value
                  /\ trades # {} /\ Whole(c, "trades") =>
                       /\ r.trade = streams["trades"][Max(trades)].value
                       /\ r.since = streams["trades"][since].at
    BY <2>1, <2>3, QuoteRight, TradeRight
  <2>4. ASSUME NEW c \in Returning, \A s \in Streams : Whole(c, s)
        PROVE  LET all == UNION {{streams[s][k] : k \in Age(c, s)} : s \in Streams}
               IN NewestOf(all) # {} =>
                    \E e \in NewestOf(all) :
                       {r.market : r \in ToSet(RowsOf(c))} =
                         {m \in Tickers : /\ EventTicker[m] = EventTicker[e.market]
                            /\ OfMarket(streams["tickers"], Age(c, "tickers"), m) # {}}
    <3>1. PICK all : all = UNION {{streams[s][k] : k \in Age(c, s)} : s \in Streams}
      OBVIOUS
    <3>2. ToSet(RowsOf(c)) = RowSet(streams, Cut(c))
      BY RowsAre
    <3>3. NewestOf(all) # {} =>
             \E e \in NewestOf(all) :
                {r.market : r \in RowSet(streams, Cut(c))} =
                  {m \in Tickers : /\ EventTicker[m] = EventTicker[e.market]
                                   /\ OfMarket(streams["tickers"], Age(c, "tickers"), m) # {}}
      BY <2>4, <3>1, EventRight
    <3> QED
      BY <3>1, <3>2, <3>3
  <2> QED
    BY <2>2, <2>3, <2>4 DEF RowsRight, Age, Recent, Whole, NewestOf
<1> QED
  BY <1>1, CacheInitially, CachePreserved, ReadInitially, ReadPreserved, PTL DEF CacheSpec
=============================================================================

------------------------------ MODULE LedgerProofs ------------------------------
(***************************************************************************)
(* Proofs that no copy of a book is lost and that Redis and the hub tell   *)
(* the committed stock, for every set of books, users and requests, every  *)
(* menu, and with or without faults, but for the books whose history says  *)
(* otherwise.                                                              *)
(***************************************************************************)
EXTENDS BookStoreProofs, WellFoundedInduction

-----------------------------------------------------------------------------
(* Sums over finite sets.  MapThenSumSet adds up by a recursive function on *)
(* the subsets of its set; the facts a ledger needs follow from a smallest  *)
(* subset for which one of them would not hold.                             *)

Pick(s) == CHOOSE x \in s : TRUE

\* g adds up the numbers of f over the subsets of S.
AddsUp(g, f, S) ==
    g = [s \in SUBSET S |-> IF s = {} THEN 0 ELSE f[Pick(s)] + g[s \ {Pick(s)}]]

Total(f, S) == (CHOOSE g : AddsUp(g, f, S))[S]

LEMMA SmallestSet ==
  ASSUME NEW S, IsFiniteSet(S), NEW B \in SUBSET SUBSET S, B # {}
  PROVE  \E m \in B : \A u \in B : u \subseteq m => u = m
<1>1. FiniteSubsetsOf(S) = SUBSET S
  BY FS_FiniteSubsetsOfFinite
<1>2. IsWellFoundedOn(StrictSubsetOrdering(S), SUBSET S)
  BY <1>1, FS_StrictSubsetOrderingWellFounded
<1>3. PICK m \in B : \A u \in B : ~(<<u, m>> \in StrictSubsetOrdering(S))
  BY <1>2, WFMin
<1>4. ASSUME NEW u \in B, u \subseteq m PROVE u = m
  BY <1>3, <1>4 DEF StrictSubsetOrdering
<1>. QED  BY <1>4

LEMMA PickIn == ASSUME NEW s, s # {} PROVE Pick(s) \in s
  BY DEF Pick

\* Whatever adds up gives the same sums, over the sets that both know.
LEMMA SumsAgree ==
  ASSUME NEW S, IsFiniteSet(S), NEW T, NEW f, NEW g, NEW h,
         \A x \in S : f[x] \in Int,
         AddsUp(g, f, S), NEW e, AddsUp(h, e, T), S \subseteq T, \A x \in S : e[x] = f[x]
  PROVE  \A s \in SUBSET S : g[s] = h[s]
<1>. DEFINE Bad == {s \in SUBSET S : g[s] # h[s]}
<1>. SUFFICES ASSUME Bad # {} PROVE FALSE
  OBVIOUS
<1>1. PICK m \in Bad : \A u \in Bad : u \subseteq m => u = m
  <2>1. Bad \in SUBSET SUBSET S
    OBVIOUS
  <2>. HIDE DEF Bad
  <2>. QED  BY <2>1, SmallestSet
<1>2. /\ \A s \in SUBSET S : g[s] = IF s = {} THEN 0 ELSE f[Pick(s)] + g[s \ {Pick(s)}]
      /\ \A s \in SUBSET T : h[s] = IF s = {} THEN 0 ELSE e[Pick(s)] + h[s \ {Pick(s)}]
  BY DEF AddsUp
<1>3. m # {} /\ m \subseteq S /\ m \subseteq T
  BY <1>1, <1>2
<1>4. Pick(m) \in m
  BY <1>3, PickIn
<1>5. m \ {Pick(m)} \in SUBSET S /\ m \ {Pick(m)} \notin Bad
  BY <1>1, <1>3, <1>4
<1>6. g[m \ {Pick(m)}] = h[m \ {Pick(m)}]
  BY <1>5
<1>. QED  BY <1>1, <1>2, <1>3, <1>4, <1>6

\* What adds up exists, and has the totals as its values.
LEMMA SumsExist ==
  ASSUME NEW S, IsFiniteSet(S), NEW f, \A x \in S : f[x] \in Int
  PROVE  AddsUp([s \in SUBSET S |-> Total(f, s)], f, S)
<1>. DEFINE G(t) == [s \in SUBSET t |-> Total(f, s)]
            Bad == {t \in SUBSET S : ~AddsUp(G(t), f, t)}
<1>. SUFFICES ASSUME Bad # {} PROVE FALSE
  OBVIOUS
<1>1. PICK m \in Bad : \A u \in Bad : u \subseteq m => u = m
  <2>1. Bad \in SUBSET SUBSET S
    OBVIOUS
  <2>. HIDE DEF Bad
  <2>. QED  BY <2>1, SmallestSet
<1>2. ASSUME NEW u \in SUBSET m, u # m
      PROVE  Total(f, u) = IF u = {} THEN 0 ELSE f[Pick(u)] + Total(f, u \ {Pick(u)})
  <2>1. AddsUp(G(u), f, u)
    BY <1>1, <1>2
  <2>2. G(u)[u] = IF u = {} THEN 0 ELSE f[Pick(u)] + G(u)[u \ {Pick(u)}]
    BY <2>1 DEF AddsUp
  <2>. QED  BY <2>2
<1>. DEFINE last == IF m = {} THEN 0 ELSE f[Pick(m)] + Total(f, m \ {Pick(m)})
            H == [s \in SUBSET m |-> IF s = m THEN last ELSE Total(f, s)]
<1>3. ASSUME NEW s \in SUBSET m
      PROVE  H[s] = IF s = {} THEN 0 ELSE f[Pick(s)] + H[s \ {Pick(s)}]
  <2>1. s # {} => Pick(s) \in s /\ s \ {Pick(s)} \in SUBSET m /\ s \ {Pick(s)} # m
    BY PickIn
  <2>2. s # {} => H[s \ {Pick(s)}] = Total(f, s \ {Pick(s)})
    BY <2>1
  <2>3. CASE s = m
    BY <2>2, <2>3
  <2>4. CASE s # m
    BY <1>2, <2>2, <2>4
  <2>. QED  BY <2>3, <2>4
<1>4. AddsUp(H, f, m)
  BY <1>3 DEF AddsUp
<1>5. AddsUp((CHOOSE g : AddsUp(g, f, m)), f, m)
  BY <1>4
<1>6. IsFiniteSet(m) /\ m \subseteq S
  BY <1>1, FS_Subset
<1>7. (CHOOSE g : AddsUp(g, f, m))[m] = H[m]
  <2>. HIDE DEF H
  <2>. DEFINE g0 == CHOOSE g : AddsUp(g, f, m)
  <2>1. AddsUp(g0, f, m)
    BY <1>5
  <2>. HIDE DEF g0
  <2>2. \A x \in m : f[x] \in Int
    BY <1>6
  <2>3. \A s \in SUBSET m : g0[s] = H[s]
    BY <1>4, <1>6, <2>1, <2>2, SumsAgree
  <2>4. g0[m] = H[m]
    BY <2>3
  <2>. QED  BY <2>4 DEF g0
<1>8. Total(f, m) = H[m]
  BY <1>7 DEF Total
<1>9. G(m) = H
  BY <1>8
<1>. QED  BY <1>1, <1>4, <1>9

LEMMA TotalStep ==
  ASSUME NEW S, IsFiniteSet(S), NEW f, \A x \in S : f[x] \in Int
  PROVE  \A s \in SUBSET S :
            Total(f, s) = IF s = {} THEN 0 ELSE f[Pick(s)] + Total(f, s \ {Pick(s)})
<1>. DEFINE G == [s \in SUBSET S |-> Total(f, s)]
<1>1. ASSUME NEW s \in SUBSET S
      PROVE  G[s] = IF s = {} THEN 0 ELSE f[Pick(s)] + G[s \ {Pick(s)}]
  <2>1. AddsUp(G, f, S)
    BY SumsExist
  <2>. HIDE DEF G
  <2>. QED  BY <2>1 DEF AddsUp
<1>2. ASSUME NEW s \in SUBSET S
      PROVE  s \ {Pick(s)} \in SUBSET S
  OBVIOUS
<1>. QED  BY <1>1, <1>2

LEMMA TotalIsInt ==
  ASSUME NEW S, IsFiniteSet(S), NEW f, \A x \in S : f[x] \in Int
  PROVE  \A s \in SUBSET S : Total(f, s) \in Int
<1>. DEFINE Bad == {s \in SUBSET S : Total(f, s) \notin Int}
<1>. SUFFICES ASSUME Bad # {} PROVE FALSE
  OBVIOUS
<1>1. PICK m \in Bad : \A u \in Bad : u \subseteq m => u = m
  <2>1. Bad \in SUBSET SUBSET S
    OBVIOUS
  <2>. HIDE DEF Bad
  <2>. QED  BY <2>1, SmallestSet
<1>2. Total(f, m) = IF m = {} THEN 0 ELSE f[Pick(m)] + Total(f, m \ {Pick(m)})
  <2>1. m \in SUBSET S
    OBVIOUS
  <2>. HIDE DEF Bad
  <2>. QED  BY <2>1, TotalStep
<1>3. m # {} /\ Pick(m) \in m
  BY <1>1, <1>2, PickIn
<1>4. Total(f, m \ {Pick(m)}) \in Int
  BY <1>1, <1>3
<1>. QED  BY <1>1, <1>2, <1>3, <1>4

\* An element more adds its number, whichever element the sum picks first.
LEMMA TotalAdds ==
  ASSUME NEW S, IsFiniteSet(S), NEW f, \A x \in S : f[x] \in Int
  PROVE  \A s \in SUBSET S : \A x \in S \ s : Total(f, s \cup {x}) = f[x] + Total(f, s)
<1>. DEFINE Bad == {s \in SUBSET S : \E x \in S \ s : Total(f, s \cup {x}) # f[x] + Total(f, s)}
<1>. SUFFICES ASSUME Bad # {} PROVE FALSE
  OBVIOUS
<1>1. PICK m \in Bad : \A u \in Bad : u \subseteq m => u = m
  <2>1. Bad \in SUBSET SUBSET S
    OBVIOUS
  <2>. HIDE DEF Bad
  <2>. QED  BY <2>1, SmallestSet
<1>2. PICK x \in S \ m : Total(f, m \cup {x}) # f[x] + Total(f, m)
  BY <1>1
<1>. DEFINE t == m \cup {x}
            p == Pick(t)
            u == m \ {p}
<1>3. p \in t /\ t \in SUBSET S /\ m \in SUBSET S
  BY <1>1, <1>2, PickIn
<1>4. Total(f, t) = f[p] + Total(f, t \ {p})
  BY <1>3, TotalStep
<1>5. p # x
  <2>1. p = x => t \ {p} = m
    BY <1>2
  <2>. QED  BY <1>2, <1>4, <2>1
<1>6. p \in m /\ t \ {p} = u \cup {x} /\ m = u \cup {p} /\ u \in SUBSET S /\ u # m
      /\ x \in S \ u /\ p \in S \ u
  BY <1>2, <1>3, <1>5
<1>7. u \notin Bad
  BY <1>1, <1>6
<1>8. Total(f, u \cup {x}) = f[x] + Total(f, u) /\ Total(f, u \cup {p}) = f[p] + Total(f, u)
  BY <1>6, <1>7
<1>9. Total(f, u) \in Int /\ f[x] \in Int /\ f[p] \in Int
  BY <1>6, TotalIsInt
<1>. HIDE DEF t, p, u
<1>10. Total(f, t) = f[x] + Total(f, m)
  BY <1>4, <1>6, <1>8, <1>9
<1>. QED  BY <1>2, <1>10 DEF t

\* Only the numbers of the elements count.
LEMMA TotalAgrees ==
  ASSUME NEW S, IsFiniteSet(S), NEW f, NEW e, \A x \in S : f[x] \in Int /\ e[x] = f[x]
  PROVE  Total(f, S) = Total(e, S)
<1>. DEFINE G == [s \in SUBSET S |-> Total(f, s)]
            H == [s \in SUBSET S |-> Total(e, s)]
<1>1. AddsUp(G, f, S) /\ AddsUp(H, e, S)
  BY SumsExist
<1>. HIDE DEF G, H
<1>2. \A s \in SUBSET S : G[s] = H[s]
  BY <1>1, SumsAgree
<1>3. G[S] = H[S]
  BY <1>2
<1>. QED  BY <1>3 DEF G, H

-----------------------------------------------------------------------------
(* The ledger: the copies of a book on its shelf and on placed orders.     *)

PlacedOrders == {o \in Requests : orders[o].status = "placed"}
Copies(b) == [o \in Requests |-> orders[o].qty[b]]

LEMMA SoldIsTotal ==
  ASSUME NEW b, IsFiniteSet(PlacedOrders), \A o \in PlacedOrders : Copies(b)[o] \in Int
  PROVE  Sold(b) = Total(Copies(b), PlacedOrders)
<1>. DEFINE Adds(g) == g = [s \in SUBSET PlacedOrders |->
                              IF s = {} THEN 0
                              ELSE orders[Pick(s)].qty[b] + g[s \ {Pick(s)}]]
            T == [s \in SUBSET PlacedOrders |-> Total(Copies(b), s)]
<1>1. Sold(b) = (CHOOSE g : Adds(g))[PlacedOrders]
  BY DEF Sold, MapThenSumSet, MapThenFoldSet, Pick, PlacedOrders
<1>2. ASSUME NEW g
      PROVE  Adds(g) <=> AddsUp(g, Copies(b), PlacedOrders)
  <2>1. ASSUME NEW s \in SUBSET PlacedOrders, s # {}
        PROVE  Copies(b)[Pick(s)] = orders[Pick(s)].qty[b]
    <3>1. Pick(s) \in Requests
      BY <2>1, PickIn DEF PlacedOrders
    <3>. QED  BY <3>1 DEF Copies
  <2>. QED  BY <2>1 DEF AddsUp
<1>3. AddsUp(T, Copies(b), PlacedOrders)
  BY SumsExist
<1>. HIDE DEF T
<1>4. Adds(T)
  BY <1>2, <1>3
<1>. DEFINE g0 == CHOOSE g : Adds(g)
<1>5. Adds(g0)
  BY <1>4
<1>. HIDE DEF g0
<1>6. AddsUp(g0, Copies(b), PlacedOrders)
  BY <1>2, <1>5
<1>7. g0[PlacedOrders] = T[PlacedOrders]
  BY <1>3, <1>6, SumsAgree
<1>. QED  BY <1>1, <1>7 DEF g0, T

LEMMA Copied ==
  ASSUME Typed, NEW b \in Books
  PROVE  \A o \in Requests : Copies(b)[o] = orders[o].qty[b] /\ Copies(b)[o] \in Int
  BY DEF Typed, OrderT, Copies

SoldAddsUp ==
    Typed /\ IsFiniteSet(PlacedOrders) =>
        \A b \in Books : Sold(b) = Total(Copies(b), PlacedOrders)

LEMMA SoldNow == SoldAddsUp
  BY Copied, SoldIsTotal DEF PlacedOrders, SoldAddsUp

LEMMA SoldNext == SoldAddsUp'
  BY SoldNow, PTL

\* The inductive invariant: each commit places one order at most, so that there
\* is something to add up.
Balanced == IsFiniteSet(PlacedOrders) /\ LedgerBalances

LEMMA InitBalanced == Init => Balanced
<1>. SUFFICES ASSUME Init PROVE Balanced
  OBVIOUS
<1>1. PlacedOrders = {}
  BY DEF Init, NoOrder, PlacedOrders
<1>2. IsFiniteSet(PlacedOrders)
  BY <1>1, FS_EmptySet
<1>3. ASSUME NEW b \in Books PROVE Sold(b) = 0
  <2>1. Sold(b) = Total(Copies(b), {})
    BY <1>1, <1>2, SoldNow, InitTyped DEF SoldAddsUp
  <2>2. Total(Copies(b), {}) = 0
    BY FS_EmptySet, TotalStep
  <2>. QED  BY <2>1, <2>2
<1>4. ASSUME NEW b \in Live
      PROVE  b \in Books /\ row[b].stock = InitStock[b] /\ InitStock[b] \in Int
  BY <1>4, InitAssumption DEF Init, Live, NoBook
<1>. QED  BY <1>2, <1>3, <1>4 DEF Balanced, LedgerBalances

\* A sale adds its order to the sum, and a cancellation takes one out.
LEMMA SoldMoves ==
  ASSUME Typed, Typed', IsFiniteSet(PlacedOrders), NEW o \in Requests,
         \A x \in Requests \ {o} : orders'[x] = orders[x]
  PROVE  /\ IsFiniteSet(PlacedOrders)'
         /\ \A b \in Books :
               /\ Sold(b) \in Int
               /\ o \notin PlacedOrders /\ o \in PlacedOrders' => Sold(b)' = Sold(b) + orders'[o].qty[b]
               /\ o \in PlacedOrders /\ o \notin PlacedOrders' => Sold(b) = Sold(b)' + orders[o].qty[b]
               /\ o \notin PlacedOrders /\ o \notin PlacedOrders' => Sold(b)' = Sold(b)
<1>1. IsFiniteSet(PlacedOrders \cup {o}) /\ IsFiniteSet(PlacedOrders \ {o})
  BY FS_AddElement, FS_RemoveElement
<1>2. PlacedOrders' \ {o} = PlacedOrders \ {o} /\ PlacedOrders \subseteq Requests
  BY DEF PlacedOrders
<1>3. PlacedOrders' \in SUBSET (PlacedOrders \cup {o})
  BY <1>2
<1>4. IsFiniteSet(PlacedOrders)'
  BY <1>1, <1>3, FS_Subset
<1>5. ASSUME NEW b \in Books
      PROVE  /\ Sold(b) = Total(Copies(b), PlacedOrders)
             /\ Sold(b)' = Total(Copies(b)', PlacedOrders')
             /\ Sold(b) \in Int
  <2>1. Sold(b) = Total(Copies(b), PlacedOrders)
    BY SoldNow DEF SoldAddsUp
  <2>3. Sold(b)' = Total(Copies(b)', PlacedOrders')
    BY <1>4, SoldNext DEF SoldAddsUp
  <2>4. Total(Copies(b), PlacedOrders) \in Int
    BY Copied, TotalIsInt DEF PlacedOrders
  <2>. QED  BY <2>1, <2>3, <2>4
<1>6. ASSUME NEW b \in Books, o \notin PlacedOrders, o \in PlacedOrders'
      PROVE  Sold(b)' = Sold(b) + orders'[o].qty[b]
  <2>1. PlacedOrders' = PlacedOrders \cup {o}
    BY <1>2, <1>6
  <2>2. \A x \in PlacedOrders' : Copies(b)'[x] \in Int
    BY DEF Typed, OrderT, Copies, PlacedOrders
  <2>3. Total(Copies(b)', PlacedOrders') = Copies(b)'[o] + Total(Copies(b)', PlacedOrders)
    BY <1>4, <1>6, <2>1, <2>2, TotalAdds
  <2>4. \A x \in PlacedOrders : Copies(b)[x] \in Int /\ Copies(b)'[x] = Copies(b)[x]
    BY <1>2, <1>6, Copied DEF Copies
  <2>5. Total(Copies(b), PlacedOrders) = Total(Copies(b)', PlacedOrders)
    BY <2>4, TotalAgrees
  <2>6. Copies(b)'[o] = orders'[o].qty[b] /\ orders'[o].qty[b] \in Int
    BY DEF Typed, OrderT, Copies
  <2>. QED  BY <1>5, <2>3, <2>5, <2>6
<1>7. ASSUME NEW b \in Books, o \in PlacedOrders, o \notin PlacedOrders'
      PROVE  Sold(b) = Sold(b)' + orders[o].qty[b]
  <2>1. PlacedOrders = PlacedOrders' \cup {o}
    BY <1>2, <1>7
  <2>2. \A x \in PlacedOrders : Copies(b)[x] \in Int
    BY <1>2, Copied
  <2>3. Total(Copies(b), PlacedOrders) = Copies(b)[o] + Total(Copies(b), PlacedOrders')
    BY <1>7, <2>1, <2>2, TotalAdds
  <2>4. \A x \in PlacedOrders' : Copies(b)[x] \in Int /\ Copies(b)'[x] = Copies(b)[x]
    BY <1>2, <1>7, <2>1, Copied DEF Copies
  <2>5. Total(Copies(b), PlacedOrders') = Total(Copies(b)', PlacedOrders')
    BY <1>4, <2>4, TotalAgrees
  <2>6. Copies(b)[o] = orders[o].qty[b] /\ orders[o].qty[b] \in Int
    BY Copied
  <2>7. Total(Copies(b), PlacedOrders') \in Int
    BY <1>7, <2>1, <2>2, TotalIsInt
  <2>. QED  BY <1>5, <2>3, <2>5, <2>6, <2>7
<1>8. ASSUME NEW b \in Books, o \notin PlacedOrders, o \notin PlacedOrders'
      PROVE  Sold(b)' = Sold(b)
  <2>1. PlacedOrders' = PlacedOrders
    BY <1>2, <1>8
  <2>2. \A x \in PlacedOrders : Copies(b)[x] \in Int /\ Copies(b)'[x] = Copies(b)[x]
    BY <1>2, <1>8, Copied DEF Copies
  <2>3. Total(Copies(b), PlacedOrders) = Total(Copies(b)', PlacedOrders)
    BY <2>2, TotalAgrees
  <2>. QED  BY <1>5, <2>1, <2>3
<1>. QED  BY <1>4, <1>5, <1>6, <1>7, <1>8

\* What is neither sold nor given back leaves the sums alone.
LEMMA SoldStays ==
  ASSUME Typed, Typed', IsFiniteSet(PlacedOrders), orders' = orders
  PROVE  PlacedOrders' = PlacedOrders /\ \A b \in Books : Sold(b)' = Sold(b)
<1>1. PlacedOrders' = PlacedOrders /\ \A b \in Books : Copies(b)' = Copies(b)
  BY DEF PlacedOrders, Copies
<1>. QED  BY <1>1, SoldNow, SoldNext DEF SoldAddsUp

\* A commit moves a copy between the shelf and an order, or says that it did
\* something else: what the request wrote into the row it had locked is what Held says.
LEMMA CommitBalanced ==
  ASSUME Typed, Typed', Sound, Balanced, NEW r \in Requests, Commit(r)
  PROVE  Balanced'
<1>. DEFINE s == session[r]
            o == s.order
<1>1. /\ s.kind \in {"checkout", "cancel", "read", "create", "patch", "delete"}
      /\ \A b \in Books : /\ lock[b] = r => Held(r, b) /\ row'[b] = draft[b]
                          /\ lock[b] # r => row'[b] = row[b]
  BY CommitHolds
<1>2. /\ tainted' = tainted \cup RestockedAgain(r)
      /\ \A b \in Books : row[b].stock \in Int
  BY DEF Commit, Typed, RowT, Stock
<1>3. CASE s.kind = "checkout"
  <2>1. /\ orders[r].status = "none" /\ orders'[r].status = "placed" /\ orders'[r].qty = s.qty
        /\ \A x \in Requests \ {r} : orders'[x] = orders[x]
        /\ \A b \in Books : s.qty[b] # 0 <=> lock[b] = r
    BY <1>3, CommitWritesOrders, CommitHolds
  <2>2. r \notin PlacedOrders /\ r \in PlacedOrders'
    BY <2>1 DEF PlacedOrders
  <2>3. /\ IsFiniteSet(PlacedOrders)'
        /\ \A b \in Books : Sold(b) \in Int /\ Sold(b)' = Sold(b) + s.qty[b]
    BY <2>1, <2>2, SoldMoves DEF Balanced
  <2>4. ASSUME NEW b \in Live', b \notin tainted'
        PROVE  row'[b].stock + Sold(b)' = InitStock[b]
    <3>1. b \in Books /\ s.qty[b] \in Int
      BY <2>4 DEF Live, Typed, SessionT
    <3>2. b \in Live /\ row'[b].stock = row[b].stock - s.qty[b]
      <4>1. CASE lock[b] = r
        BY <1>1, <1>2, <1>3, <2>4, <3>1, <4>1 DEF Held, Live
      <4>2. CASE lock[b] # r
        BY <1>1, <1>2, <2>1, <2>4, <3>1, <4>2 DEF Live
      <4>. QED  BY <4>1, <4>2
    <3>3. row[b].stock + Sold(b) = InitStock[b]
      BY <1>2, <2>4, <3>2 DEF Balanced, LedgerBalances
    <3>. QED  BY <1>2, <2>3, <3>1, <3>2, <3>3
  <2>. QED  BY <2>3, <2>4 DEF Balanced, LedgerBalances
<1>4. CASE s.kind = "cancel"
  <2>1. /\ o \in Requests /\ orders[o].status \in {"placed", "cancelled"}
        /\ orders' = [orders EXCEPT ![o].status = "cancelled"]
        /\ \A b \in Books : lock[b] = r <=> orders[o].qty[b] # 0
        /\ \A b \in Books : orders[o].qty[b] \in Int
        /\ s.qty = orders[o].qty
    <3>1. o \in Requests /\ orders[o].status # "none"
      BY <1>4, CommitHolds
    <3>2. orders[o] \in OrderT
      BY <3>1 DEF Typed
    <3>3. s.qty = orders[o].qty
      BY <1>4, CommitHolds DEF Sound, RequestOk
    <3>. QED  BY <1>4, <3>1, <3>2, <3>3, CommitHolds, CommitWritesOrders DEF OrderT
  <2>2. \A x \in Requests \ {o} : orders'[x] = orders[x]
    BY <2>1 DEF Typed
  <2>3. o \notin PlacedOrders'
    BY <2>1 DEF PlacedOrders, Typed, OrderT
  <2>4. /\ IsFiniteSet(PlacedOrders)'
        /\ \A b \in Books :
              /\ Sold(b) \in Int
              /\ o \in PlacedOrders => Sold(b) = Sold(b)' + orders[o].qty[b]
              /\ o \notin PlacedOrders => Sold(b)' = Sold(b)
    BY <2>1, <2>2, <2>3, SoldMoves DEF Balanced
  <2>5. ASSUME NEW b \in Live', b \notin tainted'
        PROVE  row'[b].stock + Sold(b)' = InitStock[b]
    <3>1. b \in Books /\ b \notin tainted
      BY <1>2, <2>5 DEF Live
    <3>2. b \in Live /\ row'[b].stock = row[b].stock + orders[o].qty[b]
      <4>1. CASE lock[b] = r
        BY <1>1, <1>2, <1>4, <2>1, <2>5, <3>1, <4>1 DEF Held, SameBook, Live
      <4>2. CASE lock[b] # r
        BY <1>1, <1>2, <2>1, <2>5, <3>1, <4>2 DEF Live
      <4>. QED  BY <4>1, <4>2
    <3>3. row[b].stock + Sold(b) = InitStock[b]
      BY <3>1, <3>2 DEF Balanced, LedgerBalances
    <3>4. Sold(b)' \in Int
      <4>1. IsFiniteSet(PlacedOrders)' /\ \A x \in PlacedOrders' : Copies(b)'[x] \in Int
        BY <2>4, <3>1 DEF Typed, OrderT, Copies, PlacedOrders
      <4>2. Sold(b)' = Total(Copies(b)', PlacedOrders')
        BY <3>1, <4>1, SoldNext DEF SoldAddsUp
      <4>. QED  BY <4>1, <4>2, TotalIsInt
    <3>5. CASE o \in PlacedOrders
      BY <1>2, <2>1, <2>4, <3>1, <3>2, <3>3, <3>4, <3>5
    <3>6. CASE o \notin PlacedOrders
      <4>1. orders[o].status = "cancelled"
        BY <2>1, <3>6 DEF PlacedOrders
      <4>2. orders[o].qty[b] = 0
        BY <1>2, <1>4, <2>5, <3>1, <4>1 DEF RestockedAgain, Ordered
      <4>. QED  BY <1>2, <2>4, <3>1, <3>2, <3>3, <3>6, <4>2
    <3>. QED  BY <3>5, <3>6
  <2>. QED  BY <2>4, <2>5 DEF Balanced, LedgerBalances
<1>5. CASE s.kind \in {"read", "create", "patch", "delete"}
  <2>1. /\ orders' = orders /\ tainted' = tainted
        /\ PlacedOrders' = PlacedOrders /\ \A b \in Books : Sold(b)' = Sold(b)
    BY <1>5, CommitWritesOrders, SoldStays DEF Commit, RestockedAgain, Balanced
  <2>2. ASSUME NEW b \in Live', b \notin tainted'
        PROVE  b \in Books /\ b \in Live \ tainted /\ row'[b].stock = row[b].stock
    <3>1. b \in Books /\ b \notin tainted
      BY <2>1, <2>2 DEF Live
    <3>2. CASE lock[b] = r
      BY <1>1, <1>5, <2>2, <3>1, <3>2 DEF Held, Live
    <3>3. CASE lock[b] # r
      BY <1>1, <2>2, <3>1, <3>3 DEF Live
    <3>. QED  BY <3>1, <3>2, <3>3
  <2>. QED  BY <2>1, <2>2 DEF Balanced, LedgerBalances
<1>. QED  BY <1>1, <1>3, <1>4, <1>5

\* The copies of a book are on its shelf or on placed orders, whatever checkouts
\* and cancellations overlap, fail or are repeated, unless a stale write, a second
\* cancellation, a read's write-back or an administrator has overwritten the stock
\* (order_service.py:47-54, 99-112).
THEOREM LedgersBalance == Spec => []LedgerBalances
<1>1. Typed /\ Typed' /\ Sound /\ Balanced /\ [Next]_vars => Balanced'
  <2>. SUFFICES ASSUME Typed, Typed', Sound, Balanced, [Next]_vars PROVE Balanced'
    OBVIOUS
  <2>1. ASSUME NEW r \in Requests, Commit(r) PROVE Balanced'
    BY <2>1, CommitBalanced
  <2>2. ASSUME \A r \in Requests : ~Commit(r) PROVE Balanced'
    <3>1. row' = row /\ orders' = orders /\ tainted \subseteq tainted'
      BY <2>2, OnlyCommitsShow
    <3>2. PlacedOrders' = PlacedOrders /\ Live' = Live /\ \A b \in Books : Sold(b)' = Sold(b)
      BY <3>1, SoldStays DEF Live, Balanced
    <3>. QED  BY <3>1, <3>2 DEF Balanced, LedgerBalances, Live
  <2>. QED  BY <2>1, <2>2
<1>2. Balanced => LedgerBalances
  BY DEF Balanced
<1>. QED  BY <1>1, <1>2, InitBalanced, AlwaysTyped, AlwaysSound, PTL DEF Spec

-----------------------------------------------------------------------------
(* Cache and feed.  The inductive invariant says which version of a book    *)
(* Redis and the hub have been told: the committed one, until the request   *)
(* that has locked the row publishes its own, and what such a request has   *)
(* in its session is what it wrote under the lock.                          *)

CacheTruth(v) == {Nil} \cup (IF v.live THEN {v.stock} ELSE {})
NewsTruth(v) == {Nil} \cup (IF v.live THEN {v.stock} ELSE {Gone})

Publishing(r) == pc[r] \in {"cache", "announce"}

\* The request r has published the book b in Redis; on the hub.
InRedis(r, b) == Publishing(r) /\ (b \notin session[r].left \/ session[r].route = <<b>>)
OnHub(r, b) == Publishing(r) /\ b \notin session[r].left

\* What the holder of a row lock knows of the row.
HolderOk(r, b) ==
    LET s == session[r] IN
    /\ s.kind = "read" => b \in misled
    /\ s.kind \notin {"read", "delete"} => s.seen[b] = draft[b].stock
    /\ s.kind # "read" /\ ~Publishing(r) => b \in s.left
    /\ pc[r] # "patch"

\* Whatever a request has yet to publish it has locked, or it is a row that is
\* gone, or a PATCH that misleads.
PublisherOk(r) ==
    LET s == session[r] IN
    /\ \A b \in Books : lock[b] = r => HolderOk(r, b)
    /\ s.kind \in {"checkout", "cancel", "create"} =>
          \A b \in s.left : lock[b] = r \/ (pc[r] \in {"reserve", "restock"} /\ InRoute(s, b))
    /\ pc[r] \in {"reserve", "restock"} => \A b \in Books : InRoute(s, b) => b \in s.left
    /\ s.kind = "delete" =>
          \A b \in s.left : /\ s.left = {b} /\ b \notin unused
                            /\ Publishing(r) /\ lock[b] # r => lock[b] = Nil /\ ~row[b].live
    /\ pc[r] \in {"clear", "patch", "unlink", "erase", "cache"} => s.route = << >>
    /\ pc[r] = "announce" =>
          \E b \in s.left : /\ s.route = <<b>>
                            /\ s.kind = "patch" /\ lock[b] # r => b \in misled

BookOk(b) ==
    b \notin misled =>
        /\ cache[b] \in CacheTruth(IF lock[b] # Nil /\ InRedis(lock[b], b) THEN draft[b] ELSE row[b])
        /\ announced[b] \in NewsTruth(IF lock[b] # Nil /\ OnHub(lock[b], b) THEN draft[b] ELSE row[b])

Truthful ==
    /\ \A r \in Requests : PublisherOk(r)
    /\ \A b \in Books : BookOk(b)

LEMMA InitTruthful == Init => Truthful
<1>. SUFFICES ASSUME Init PROVE Truthful
  OBVIOUS
<1>1. ASSUME NEW r \in Requests PROVE PublisherOk(r)
  <2>1. pc[r] = "new" /\ session[r].kind = "none" /\ \A b \in Books : lock[b] # r
    BY RequestsAssumption DEF Init, Blank
  <2>. QED  BY <2>1 DEF PublisherOk
<1>2. ASSUME NEW b \in Books PROVE BookOk(b)
  BY DEF Init, BookOk, CacheTruth, NewsTruth
<1>. QED  BY <1>1, <1>2 DEF Truthful

\* A row that is gone, and not one to be created, stays gone and free.
Departed(b) == lock[b] = Nil /\ ~row[b].live /\ b \notin unused

LEMMA PublisherUndisturbed ==
  ASSUME NEW x \in Requests, PublisherOk(x), pc'[x] = pc[x], session'[x] = session[x],
         session[x].left \subseteq Books,
         \A b \in Books : lock'[b] = x <=> lock[b] = x,
         \A b \in Books : lock[b] = x => draft'[b] = draft[b],
         misled \subseteq misled', unused' \subseteq unused,
         \A b \in Books : Departed(b) => Departed(b)'
  PROVE  PublisherOk(x)'
<1>. DEFINE s == session[x]
<1>1. ASSUME NEW b \in Books, lock'[b] = x PROVE HolderOk(x, b)'
  <2>1. lock[b] = x /\ HolderOk(x, b)
    BY <1>1 DEF PublisherOk
  <2>. QED  BY <2>1 DEF HolderOk, Publishing
<1>2. ASSUME s.kind \in {"checkout", "cancel", "create"}, NEW b \in s.left
      PROVE  lock'[b] = x \/ (pc'[x] \in {"reserve", "restock"} /\ InRoute(s, b))
  BY <1>2 DEF PublisherOk
<1>3. ASSUME s.kind = "delete", NEW b \in s.left
      PROVE  /\ s.left = {b} /\ b \notin unused'
             /\ Publishing(x)' /\ lock'[b] # x => lock'[b] = Nil /\ ~row'[b].live
  BY <1>3 DEF PublisherOk, Departed, Publishing
<1>4. ASSUME pc[x] = "announce"
      PROVE  \E b \in s.left : /\ s.route = <<b>>
                               /\ s.kind = "patch" /\ lock'[b] # x => b \in misled'
  BY <1>4 DEF PublisherOk
<1>5. /\ pc'[x] \in {"clear", "patch", "unlink", "erase", "cache"} => session'[x].route = << >>
      /\ pc'[x] \in {"reserve", "restock"} => \A b \in Books : InRoute(session'[x], b) => b \in s.left
  BY DEF PublisherOk
<1>. QED  BY <1>1, <1>2, <1>3, <1>4, <1>5 DEF PublisherOk, InRoute

\* Steps that publish nothing and commit nothing.
LEMMA QuietTruthful ==
  ASSUME Typed, Typed', Truthful, NEW r \in Requests, UNCHANGED <<row, published>>,
         \A x \in Requests \ {r} : pc'[x] = pc[x] /\ session'[x] = session[x],
         \A b \in Books : lock'[b] # lock[b] => {lock[b], lock'[b]} \subseteq {Nil, r},
         \A b \in Books : lock[b] \notin {Nil, r} => draft'[b] = draft[b],
         misled \subseteq misled', unused' \subseteq unused,
         \A b \in Books : Departed(b) => Departed(b)',
         PublisherOk(r)',
         \A b \in Books \ misled' : lock[b] = r => ~InRedis(r, b),
         \A b \in Books : lock'[b] = r => ~InRedis(r, b)'
  PROVE  Truthful'
<1>1. ASSUME NEW x \in Requests PROVE PublisherOk(x)'
  <2>1. CASE x = r
    BY <2>1
  <2>2. CASE x # r
    <3>1. /\ \A b \in Books : lock'[b] = x <=> lock[b] = x
          /\ \A b \in Books : lock[b] = x => draft'[b] = draft[b]
      BY <2>2, RequestsAssumption
    <3>2. PublisherOk(x) /\ session[x].left \subseteq Books
      BY DEF Truthful, Typed, SessionT
    <3>. QED  BY <2>2, <3>1, <3>2, PublisherUndisturbed
  <2>. QED  BY <2>1, <2>2
<1>2. ASSUME NEW b \in Books PROVE BookOk(b)'
  <2>. SUFFICES ASSUME b \notin misled'
                PROVE  /\ cache'[b] \in CacheTruth(IF lock'[b] # Nil /\ InRedis(lock[b], b)' THEN draft'[b] ELSE row'[b])
                       /\ announced'[b] \in NewsTruth(IF lock'[b] # Nil /\ OnHub(lock[b], b)' THEN draft'[b] ELSE row'[b])
    BY DEF BookOk, CacheTruth, NewsTruth
  <2>1. BookOk(b) /\ b \notin misled /\ row'[b] = row[b] /\ cache'[b] = cache[b] /\ announced'[b] = announced[b]
    BY DEF Truthful, published
  <2>2. CASE lock[b] \in {Nil, r}
    <3>1. lock'[b] \in {Nil, r}
      BY <2>2
    <3>2. cache[b] \in CacheTruth(row[b]) /\ announced[b] \in NewsTruth(row[b])
      BY <2>1, <2>2 DEF BookOk, InRedis, OnHub
    <3>3. lock'[b] # Nil => ~InRedis(r, b)' /\ ~OnHub(r, b)' /\ lock'[b] = r
      BY <3>1 DEF InRedis, OnHub
    <3>. QED  BY <2>1, <3>2, <3>3
  <2>3. CASE lock[b] \notin {Nil, r}
    <3>1. lock'[b] = lock[b] /\ draft'[b] = draft[b] /\ lock[b] \in Requests \ {r}
      BY <2>3 DEF Typed
    <3>2. /\ InRedis(lock[b], b)' <=> InRedis(lock[b], b)
          /\ OnHub(lock[b], b)' <=> OnHub(lock[b], b)
      BY <3>1 DEF InRedis, OnHub, Publishing
    <3>. QED  BY <2>1, <2>3, <3>1, <3>2 DEF BookOk
  <2>. QED  BY <2>2, <2>3
<1>. QED  BY <1>1, <1>2 DEF Truthful

\* A handler that moves on and writes nothing.
LEMMA MoveTruthful ==
  ASSUME Typed, Typed', Truthful, NEW r \in Requests, ~Publishing(r), NEW step \in Steps, NEW t,
         Goto(r, step, t), UNCHANGED <<row, lock, draft, published, unused, misled>>,
         PublisherOk(r)', step # "announce",
         step = "cache" => \A b \in Books : lock[b] = r => b \in t.left
  PROVE  Truthful'
<1>1. pc'[r] = step /\ session'[r] = t
  BY DEF Goto, Typed
<1>2. \A x \in Requests \ {r} : pc'[x] = pc[x] /\ session'[x] = session[x]
  BY DEF Goto, Typed
<1>3. \A b \in Books : ~InRedis(r, b)
  BY DEF InRedis
<1>4. ASSUME NEW b \in Books, lock'[b] = r PROVE ~InRedis(r, b)'
  <2>1. step = "cache" => t.route = << >> /\ b \in t.left
    BY <1>1, <1>4 DEF PublisherOk
  <2>2. t.route = << >> => t.route # <<b>>
    OBVIOUS
  <2>. QED  BY <1>1, <2>1, <2>2 DEF InRedis, Publishing
<1>5. \A b \in Books : Departed(b) => Departed(b)'
  BY DEF Departed
<1>. QED  BY <1>2, <1>3, <1>4, <1>5, QuietTruthful

\* A handler that writes one row version and moves on.
LEMMA WriteTruthful ==
  ASSUME Typed, Typed', Truthful, NEW r \in Requests, ~Publishing(r), NEW step \in Steps, NEW t,
         Goto(r, step, t), NEW b \in Books, NEW v, Write(r, b, v), Free(r, b),
         row[b].live \/ b \in unused,
         UNCHANGED <<row, published>>, misled \subseteq misled', unused' \subseteq unused,
         PublisherOk(r)', step # "announce",
         step = "cache" => \A c \in Books : lock'[c] = r => c \in t.left
  PROVE  Truthful'
<1>1. pc'[r] = step /\ session'[r] = t
  BY DEF Goto, Typed
<1>2. \A x \in Requests \ {r} : pc'[x] = pc[x] /\ session'[x] = session[x]
  BY DEF Goto, Typed
<1>3. \A c \in Books : ~InRedis(r, c)
  BY DEF InRedis
<1>4. ASSUME NEW c \in Books, lock'[c] = r PROVE ~InRedis(r, c)'
  <2>1. step = "cache" => t.route = << >> /\ c \in t.left
    BY <1>1, <1>4 DEF PublisherOk
  <2>2. t.route = << >> => t.route # <<c>>
    OBVIOUS
  <2>. QED  BY <1>1, <2>1, <2>2 DEF InRedis, Publishing
<1>5. /\ \A c \in Books : lock'[c] # lock[c] => {lock[c], lock'[c]} \subseteq {Nil, r}
      /\ \A c \in Books : lock[c] \notin {Nil, r} => draft'[c] = draft[c]
      /\ \A c \in Books \ {b} : lock'[c] = lock[c]
  BY DEF Write, Free, Typed
<1>6. \A c \in Books : Departed(c) => Departed(c)'
  BY <1>5 DEF Departed
<1>. QED  BY <1>2, <1>3, <1>4, <1>5, <1>6, QuietTruthful

\* What a rolled-back request has published and not committed misleads.
LEMMA RollbackTruthful ==
  ASSUME Typed, Typed', Truthful, NEW r \in Requests, NEW outcome \in Finished, Rollback(r, outcome)
  PROVE  Truthful'
<1>1. /\ pc'[r] = outcome /\ session'[r] = Blank
      /\ \A x \in Requests \ {r} : pc'[x] = pc[x] /\ session'[x] = session[x]
  BY DEF Rollback, Finish, Goto, Typed
<1>2. \A b \in Books : lock'[b] = IF lock[b] = r THEN Nil ELSE lock[b]
  BY DEF Rollback, Unlocked
<1>3. \A b \in Books : lock'[b] # r
  BY <1>2, RequestsAssumption
<1>4. PublisherOk(r)'
  <2>1. outcome \notin {"reserve", "clear", "restock", "patch", "unlink", "erase", "cache", "announce"} /\ Blank.kind = "none"
    BY DEF Finished, Blank
  <2>. QED  BY <1>1, <1>3, <2>1 DEF PublisherOk
<1>5. \A b \in Books \ misled' : lock[b] = r => ~InRedis(r, b)
  BY DEF Rollback, Told, InRedis, Publishing
<1>6. \A b \in Books : lock[b] \notin {Nil, r} => draft'[b] = draft[b]
  BY DEF Rollback
<1>7. UNCHANGED <<row, published, unused>> /\ misled \subseteq misled'
  BY DEF Rollback, stored
<1>8. \A b \in Books : Departed(b) => Departed(b)'
  BY <1>2, <1>7, RequestsAssumption DEF Departed
<1>. QED  BY <1>1, <1>2, <1>3, <1>4, <1>5, <1>6, <1>7, <1>8, QuietTruthful

\* The handlers of the cart lock no book and tell nothing of it.
LEMMA UnlockedTruthful ==
  ASSUME Typed, Typed', Truthful, NEW r \in Requests, ~Publishing(r), \A b \in Books : lock[b] # r,
         NEW step \in Steps \ {"reserve", "clear", "restock", "patch", "unlink", "erase", "cache", "announce"}, NEW t,
         Goto(r, step, t), UNCHANGED <<row, lock, draft, published, unused, misled>>,
         t.kind \notin {"checkout", "cancel", "create", "delete"} \/ t.left = {}
  PROVE  Truthful'
<1>1. pc'[r] = step /\ session'[r] = t
  BY DEF Goto, Typed
<1>2. PublisherOk(r)'
  BY <1>1 DEF PublisherOk, Publishing
<1>. QED  BY <1>2, MoveTruthful

-----------------------------------------------------------------------------
(* OrderService.                                                           *)

LEMMA LoadCartTruthful ==
  ASSUME Typed, Typed', Sound, Truthful, NEW r \in Requests, LoadCart(r)
  PROVE  Truthful'
<1>. DEFINE basket == InCart(Buyer[r])
            loaded(route) == [Blank EXCEPT !.kind = "checkout", !.route = route,
                                   !.qty = [b \in Books |-> cart[Buyer[r]][b].qty],
                                   !.seen = StockOf(basket),
                                   !.bill = PriceOf(basket),
                                   !.left = basket]
<1>1. CASE Rollback(r, "refused")
  BY <1>1, RollbackTruthful DEF Finished
<1>2. CASE basket # {} /\ \E route \in Routes(basket) : Goto(r, "reserve", loaded(route)) /\ Private
  <2>1. PICK route \in Routes(basket) : Goto(r, "reserve", loaded(route)) /\ Private
    BY <1>2
  <2>2. pc'[r] = "reserve" /\ session'[r] = loaded(route)
    BY <2>1 DEF Goto, Typed
  <2>3. /\ loaded(route).kind = "checkout" /\ loaded(route).route = route
        /\ loaded(route).left = basket
    BY DEF Blank
  <2>. HIDE DEF loaded
  <2>4. \A b \in Books : b \in basket <=> InRoute(loaded(route), b)
    <3>1. basket \in SUBSET Books
      BY DEF InCart
    <3>. QED  BY <2>1, <2>3, <3>1, RouteCovers DEF InRoute
  <2>5. \A b \in Books : lock'[b] # r
    BY <2>1, NothingLocked DEF Private, LoadCart
  <2>6. PublisherOk(r)'
    BY <2>2, <2>3, <2>4, <2>5 DEF PublisherOk, InCart
  <2>7. ~Publishing(r) /\ "reserve" \in Steps
    BY DEF LoadCart, Publishing, Steps
  <2>. QED  BY <2>1, <2>6, <2>7, MoveTruthful DEF Private, stored, history
<1>. QED  BY <1>1, <1>2 DEF LoadCart

\* One turn of either loop: the row is locked, and the session knows what was
\* written there.
LEMMA TurnTruthful ==
  ASSUME Typed, Typed', Truthful, NEW r \in Requests, pc[r] \in {"reserve", "restock"},
         session[r].route # << >>, NEW b \in Books, b = Head(session[r].route),
         session[r].kind \in {"checkout", "cancel"}, b \in session[r].left,
         Free(r, b), row[b].live, NEW stock,
         Write(r, b, [row[b] EXCEPT !.stock = stock]), NEW t, Goto(r, pc[r], t),
         t.kind = session[r].kind, t.left = session[r].left, t.route = Tail(session[r].route),
         t.seen = [session[r].seen EXCEPT ![b] = stock],
         UNCHANGED <<stored, published, unused, misled>>
  PROVE  Truthful'
<1>. DEFINE s == session[r]
<1>1. pc'[r] = pc[r] /\ session'[r] = t
  BY DEF Goto, Typed
<1>2. s \in SessionT /\ row[b] \in RowT /\ PublisherOk(r)
  BY DEF Typed, Truthful
<1>3. lock' = [lock EXCEPT ![b] = r] /\ draft' = [draft EXCEPT ![b] = [row[b] EXCEPT !.stock = stock]]
  BY DEF Write
<1>4. ASSUME NEW c \in Books, lock'[c] = r PROVE HolderOk(r, c)'
  <2>1. c \in s.left
    BY <1>2, <1>3, <1>4 DEF PublisherOk, HolderOk, Publishing, Typed
  <2>2. t.seen[c] = draft'[c].stock
    <3>1. CASE c = b
      BY <1>2, <1>3, <3>1 DEF Typed, SessionT, RowT
    <3>2. CASE c # b
      <4>1. lock[c] = r /\ draft'[c] = draft[c]
        BY <1>3, <1>4, <3>2 DEF Typed
      <4>2. s.seen[c] = draft[c].stock
        BY <1>2, <4>1 DEF PublisherOk, HolderOk
      <4>3. t.seen[c] = s.seen[c]
        BY <1>2, <3>2 DEF SessionT
      <4>. QED  BY <4>1, <4>2, <4>3
    <3>. QED  BY <3>1, <3>2
  <2>. QED  BY <1>1, <2>1, <2>2 DEF HolderOk
<1>5. ASSUME NEW c \in t.left PROVE lock'[c] = r \/ InRoute(t, c)
  <2>1. c \in Books /\ (lock[c] = r \/ InRoute(s, c)) /\ s.route \in Seq(Books)
    BY <1>2 DEF PublisherOk, SessionT
  <2>2. CASE c = b
    BY <1>3, <2>1, <2>2 DEF Typed
  <2>3. CASE c # b /\ lock[c] = r
    BY <1>3, <2>1, <2>3 DEF Typed
  <2>4. CASE c # b /\ InRoute(s, c)
    BY <2>1, <2>4, RouteAdvances DEF InRoute
  <2>. QED  BY <2>1, <2>2, <2>3, <2>4
<1>6. PublisherOk(r)'
  <2>1. \A c \in Books : InRoute(t, c) => InRoute(s, c)
    <3>1. s.route \in Seq(Books)
      BY <1>2 DEF SessionT
    <3>2. ASSUME NEW c \in Books, InRoute(t, c) PROVE InRoute(s, c)
      <4>1. \E i \in 1..Len(Tail(s.route)) : Tail(s.route)[i] = c
        BY <3>2 DEF InRoute
      <4>2. \E i \in 1..Len(s.route) : s.route[i] = c
        BY <3>1, <4>1, RouteAdvances
      <4>. QED  BY <4>2 DEF InRoute
    <3>. QED  BY <3>2
  <2>2. \A c \in Books : InRoute(t, c) => c \in t.left
    BY <1>2, <2>1 DEF PublisherOk
  <2>. QED  BY <1>1, <1>4, <1>5, <2>2 DEF PublisherOk
<1>7. ~Publishing(r) /\ pc[r] \in Steps
  BY DEF Publishing, Typed
<1>. QED  BY <1>6, <1>7, WriteTruthful DEF stored

LEMMA ReserveItemTruthful ==
  ASSUME Typed, Typed', Sound, Truthful, NEW r \in Requests, ReserveItem(r)
  PROVE  Truthful'
<1>. DEFINE s == session[r]
            b == Head(s.route)
            stock == StockAfterSale(s.seen[b], s.qty[b])
<1>1. CASE Rollback(r, "refused")
  BY <1>1, RollbackTruthful DEF Finished
<1>2. CASE Free(r, b) /\ row[b].live /\ Reserve(r, b)
  <2>1. pc[r] = "reserve" /\ s.route # << >> /\ s \in SessionT /\ s.route \in Seq(Books)
    BY DEF ReserveItem, Typed, SessionT
  <2>2. b \in Books /\ s.kind = "checkout" /\ InRoute(s, b)
    <3>1. b \in Books /\ 1 \in 1..Len(s.route) /\ s.route[1] = b
      BY <2>1
    <3>. QED  BY <2>1, <3>1 DEF Sound, RequestOk, KindFits, InRoute
  <2>3. b \in s.left
    BY <2>1, <2>2 DEF Truthful, PublisherOk
  <2>. DEFINE t == [s EXCEPT !.route = Tail(s.route), !.seen[b] = stock, !.bill[b] = UnitPrice(r, b)]
  <2>4. /\ t.kind = s.kind /\ t.left = s.left /\ t.route = Tail(s.route)
        /\ t.seen = [s.seen EXCEPT ![b] = stock]
    BY <2>1 DEF SessionT
  <2>5. /\ Write(r, b, [row[b] EXCEPT !.stock = stock]) /\ Goto(r, pc[r], t)
        /\ UNCHANGED <<stored, published, unused, misled>>
    BY <1>2, <2>1 DEF Reserve, NoteStale
  <2>. HIDE DEF t, stock
  <2>. QED  BY <1>2, <2>1, <2>2, <2>3, <2>4, <2>5, TurnTruthful
<1>. QED  BY <1>1, <1>2 DEF ReserveItem

LEMMA PlaceOrderTruthful ==
  ASSUME Typed, Typed', Sound, Truthful, NEW r \in Requests, PlaceOrder(r) \/ ClearItems(r) \/ UpdateOrder(r)
  PROVE  Truthful'
<1>. DEFINE s == session[r]
<1>1. /\ pc[r] \in {"reserve", "clear", "restock"} /\ s \in SessionT
      /\ s.kind \in {"checkout", "cancel"} /\ PublisherOk(r)
  BY DEF PlaceOrder, ClearItems, UpdateOrder, Sound, RequestOk, KindFits, Typed, Truthful
<1>2. PICK step \in {"clear", "cache"}, t \in SessionT :
         /\ Goto(r, step, t) /\ Private
         /\ t.kind = s.kind /\ t.left = s.left /\ t.seen = s.seen /\ t.route = s.route
  <2>1. CASE PlaceOrder(r)
    <3>. DEFINE t == [s EXCEPT !.doomed = ItemsToClear(r)]
    <3>1. /\ Goto(r, "clear", t) /\ Private
          /\ t.kind = s.kind /\ t.left = s.left /\ t.seen = s.seen /\ t.route = s.route
      BY <1>1, <2>1 DEF PlaceOrder, SessionT
    <3>2. t \in SessionT
      <4>1. t = session'[r]
        BY <3>1 DEF Goto, Typed
      <4>. HIDE DEF t
      <4>. QED  BY <4>1 DEF Typed
    <3>. QED  BY <3>1, <3>2
  <2>2. CASE ClearItems(r) \/ UpdateOrder(r)
    BY <1>1, <2>2 DEF ClearItems, UpdateOrder
  <2>. QED  BY <2>1, <2>2
<1>3. s.route = << >>
  BY <1>1 DEF PlaceOrder, ClearItems, UpdateOrder, PublisherOk
<1>4. pc'[r] = step /\ session'[r] = t
  BY <1>2 DEF Goto, Typed
<1>5. UNCHANGED <<row, lock, draft, published, unused, misled>>
  BY <1>2 DEF Private, stored, history
<1>6. ASSUME NEW b \in Books, lock'[b] = r PROVE b \in s.left /\ HolderOk(r, b)'
  <2>1. lock[b] = r /\ HolderOk(r, b)
    BY <1>1, <1>5, <1>6 DEF PublisherOk
  <2>. QED  BY <1>1, <1>2, <1>4, <1>5, <2>1 DEF HolderOk, Publishing
<1>7. \A b \in s.left : lock[b] = r
  BY <1>1, <1>3 DEF PublisherOk, InRoute
<1>8. PublisherOk(r)'
  BY <1>1, <1>2, <1>3, <1>4, <1>5, <1>6, <1>7 DEF PublisherOk
<1>9. ~Publishing(r) /\ step \in Steps
  BY <1>1 DEF Publishing, Steps
<1>. QED  BY <1>2, <1>5, <1>6, <1>8, <1>9, MoveTruthful

LEMMA LoadOrderTruthful ==
  ASSUME Typed, Typed', Sound, Truthful, NEW r \in Requests, LoadOrder(r)
  PROVE  Truthful'
<1>1. ASSUME NEW o \in Requests, Goto(r, "lines", [Blank EXCEPT !.kind = "cancel", !.order = o]), Private
      PROVE  Truthful'
  <2>1. ~Publishing(r) /\ \A b \in Books : lock[b] # r
    BY NothingLocked DEF LoadOrder, Publishing
  <2>2. [Blank EXCEPT !.kind = "cancel", !.order = o].left = {}
    BY DEF Blank
  <2>. QED  BY <1>1, <2>1, <2>2, UnlockedTruthful DEF Private, stored, history, Steps
<1>. QED  BY <1>1, RollbackTruthful DEF LoadOrder, Finished

LEMMA LoadLinesTruthful ==
  ASSUME Typed, Typed', Sound, Truthful, NEW r \in Requests, LoadLines(r)
  PROVE  Truthful'
<1>. DEFINE s == session[r]
            books == Ordered(s.order)
            loaded(route) == [s EXCEPT !.route = route, !.qty = orders[s.order].qty,
                                       !.seen = StockOf(books), !.left = books]
<1>1. PICK route \in Routes(books) : Goto(r, "restock", loaded(route)) /\ Private
  BY DEF LoadLines
<1>2. /\ loaded(route).kind = "cancel" /\ loaded(route).route = route
      /\ loaded(route).left = books
  BY DEF LoadLines, Typed, SessionT, Sound, RequestOk, KindFits
<1>3. pc'[r] = "restock" /\ session'[r] = loaded(route)
  BY <1>1 DEF Goto, Typed
<1>. HIDE DEF loaded
<1>4. \A b \in Books : b \in books <=> InRoute(loaded(route), b)
  <2>1. books \in SUBSET Books
    BY DEF Ordered
  <2>. QED  BY <1>1, <1>2, <2>1, RouteCovers DEF InRoute
<1>5. \A b \in Books : lock'[b] # r
  BY <1>1, NothingLocked DEF Private, LoadLines
<1>6. PublisherOk(r)'
  BY <1>2, <1>3, <1>4, <1>5 DEF PublisherOk, Ordered
<1>7. ~Publishing(r) /\ "restock" \in Steps
  BY DEF LoadLines, Publishing, Steps
<1>. QED  BY <1>1, <1>6, <1>7, MoveTruthful DEF Private, stored, history

LEMMA RestockItemTruthful ==
  ASSUME Typed, Typed', Sound, Truthful, NEW r \in Requests, RestockItem(r)
  PROVE  Truthful'
<1>. DEFINE s == session[r]
            b == Head(s.route)
            stock == StockAfterRestock(s.seen[b], s.qty[b])
            t == [s EXCEPT !.route = Tail(s.route), !.seen[b] = stock]
<1>1. /\ pc[r] = "restock" /\ s.route # << >> /\ s \in SessionT /\ s.route \in Seq(Books)
      /\ Free(r, b)
  BY DEF RestockItem, Typed, SessionT
<1>2. b \in Books /\ s.kind = "cancel" /\ InRoute(s, b)
  <2>1. b \in Books /\ 1 \in 1..Len(s.route) /\ s.route[1] = b
    BY <1>1
  <2>. QED  BY <1>1, <2>1 DEF Sound, RequestOk, KindFits, InRoute
<1>3. b \in s.left
  BY <1>1, <1>2 DEF Truthful, PublisherOk
<1>4. row[b].live
  BY <1>1, <1>2 DEF Sound, RequestOk, OrderOk, Ordered, Live
<1>5. /\ Write(r, b, [row[b] EXCEPT !.stock = stock]) /\ Goto(r, pc[r], t)
      /\ UNCHANGED <<stored, published, unused, misled>>
  BY <1>1, <1>4 DEF RestockItem, NoteStale
<1>6. /\ t.kind = s.kind /\ t.left = s.left /\ t.route = Tail(s.route)
      /\ t.seen = [s.seen EXCEPT ![b] = stock]
  BY <1>1 DEF SessionT
<1>. HIDE DEF t, stock
<1>. QED  BY <1>1, <1>2, <1>3, <1>4, <1>5, <1>6, TurnTruthful

-----------------------------------------------------------------------------
(* BookService.                                                            *)

LEMMA ReadBooksTruthful ==
  ASSUME Typed, Typed', Sound, Truthful, NEW r \in Requests, ReadBooks(r)
  PROVE  Truthful'
<1>1. ASSUME NEW t, t.kind = "read", Goto(r, "hydrate", t), Private
      PROVE  Truthful'
  <2>1. ~Publishing(r) /\ \A b \in Books : lock[b] # r
    BY NothingLocked DEF ReadBooks, Publishing
  <2>. QED  BY <1>1, <2>1, UnlockedTruthful DEF Private, stored, history, Steps
<1>2. CASE Rollback(r, "refused")
  BY <1>2, RollbackTruthful DEF Finished
<1>3. ASSUME NEW page,
             Goto(r, "hydrate",
                  [Blank EXCEPT !.kind = "read", !.left = page,
                                !.seen = [b \in Books |-> IF b \in page THEN row[b].stock ELSE 0]]),
             Private
      PROVE  Truthful'
  <2>1. [Blank EXCEPT !.kind = "read", !.left = page,
                      !.seen = [b \in Books |-> IF b \in page THEN row[b].stock ELSE 0]].kind = "read"
    BY DEF Blank
  <2>. QED  BY <1>1, <1>3, <2>1
<1>. QED  BY <1>2, <1>3 DEF ReadBooks

\* The books whose write-back a read has flushed are misled.
LEMMA HydrateTruthful ==
  ASSUME Typed, Typed', Sound, Truthful, NEW r \in Requests, Hydrate(r)
  PROVE  Truthful'
<1>. DEFINE s == session[r]
<1>1. s.kind = "read" /\ s \in SessionT /\ PublisherOk(r) /\ ~Publishing(r)
  BY DEF Hydrate, Sound, RequestOk, KindFits, Typed, Truthful, Publishing
<1>2. ASSUME NEW step \in {"hydrate", "flush"}, NEW t, t.kind = "read", Goto(r, step, t), Private
      PROVE  Truthful'
  <2>1. pc'[r] = step /\ session'[r] = t /\ UNCHANGED <<row, lock, draft, published, unused, misled>>
    BY <1>2 DEF Goto, Typed, Private, stored, history
  <2>2. PublisherOk(r)'
    BY <1>1, <1>2, <2>1 DEF PublisherOk, HolderOk
  <2>. QED  BY <1>1, <1>2, <2>1, <2>2, MoveTruthful DEF Steps
<1>3. ASSUME NEW b \in s.left, Goto(r, "hydrate", [s EXCEPT !.left = @ \ {b}]), Private
      PROVE  Truthful'
  BY <1>1, <1>2, <1>3 DEF SessionT
<1>4. ASSUME NEW b \in s.left,
             Goto(r, "hydrate", [s EXCEPT !.left = @ \ {b}, !.seen[b] = cache[b],
                                          !.unsaved = @ \cup {b}]), Private
      PROVE  Truthful'
  BY <1>1, <1>2, <1>4 DEF SessionT
<1>5. ASSUME Goto(r, "flush", [s EXCEPT !.left = s.unsaved]), Private
      PROVE  Truthful'
  BY <1>1, <1>2, <1>5 DEF SessionT
<1>. QED  BY <1>3, <1>4, <1>5 DEF Hydrate

LEMMA FlushBookTruthful ==
  ASSUME Typed, Typed', Sound, Truthful, NEW r \in Requests, FlushBook(r)
  PROVE  Truthful'
<1>. DEFINE s == session[r]
<1>1. s.kind = "read" /\ s \in SessionT /\ PublisherOk(r) /\ ~Publishing(r)
  BY DEF FlushBook, Sound, RequestOk, KindFits, Typed, Truthful, Publishing
<1>. PICK b \in s.left :
        /\ Free(r, b)
        /\ \/ /\ row[b].live
              /\ Write(r, b, [row[b] EXCEPT !.stock = s.seen[b]])
              /\ misled' = misled \cup {b}
              /\ Goto(r, "flush", [s EXCEPT !.left = @ \ {b}])
              /\ UNCHANGED <<stored, published, unused>>
           \/ Rollback(r, "failed")
           \/ Goto(r, "flush", [s EXCEPT !.left = @ \ {b}]) /\ Private
  BY DEF FlushBook
<1>. DEFINE t == [s EXCEPT !.left = @ \ {b}]
<1>2. b \in Books /\ t.kind = "read"
  BY <1>1 DEF SessionT
<1>. HIDE DEF t
<1>3. CASE /\ row[b].live
           /\ Write(r, b, [row[b] EXCEPT !.stock = s.seen[b]])
           /\ misled' = misled \cup {b} /\ Goto(r, "flush", t)
           /\ UNCHANGED <<stored, published, unused>>
  <2>1. pc'[r] = "flush" /\ session'[r] = t /\ lock' = [lock EXCEPT ![b] = r]
    BY <1>3 DEF Goto, Typed, Write
  <2>2. ASSUME NEW c \in Books, lock'[c] = r PROVE HolderOk(r, c)'
    BY <1>1, <1>2, <1>3, <2>1, <2>2 DEF PublisherOk, HolderOk, Typed
  <2>3. PublisherOk(r)'
    BY <1>2, <2>1, <2>2 DEF PublisherOk
  <2>. QED  BY <1>1, <1>2, <1>3, <2>3, WriteTruthful DEF stored, Steps
<1>4. CASE Rollback(r, "failed")
  BY <1>4, RollbackTruthful DEF Finished
<1>5. CASE Goto(r, "flush", t) /\ Private
  <2>1. pc'[r] = "flush" /\ session'[r] = t /\ UNCHANGED <<row, lock, draft, published, unused, misled>>
    BY <1>5 DEF Goto, Typed, Private, stored, history
  <2>2. PublisherOk(r)'
    BY <1>1, <1>2, <2>1 DEF PublisherOk, HolderOk
  <2>. QED  BY <1>1, <1>5, <2>1, <2>2, MoveTruthful DEF Steps
<1>. QED  BY <1>3, <1>4, <1>5 DEF t

LEMMA InsertBookTruthful ==
  ASSUME Typed, Typed', Sound, Truthful, NEW r \in Requests, InsertBook(r)
  PROVE  Truthful'
<1>1. ~Publishing(r) /\ \A b \in Books : lock[b] # r
  BY NothingLocked DEF InsertBook, Publishing
<1>. PICK b \in unused, level \in Levels, price \in Prices :
        /\ unused' = unused \ {b}
        /\ Write(r, b, [live |-> TRUE, stock |-> level, price |-> price])
        /\ Goto(r, "cache", [Blank EXCEPT !.kind = "create", !.left = {b}, !.seen[b] = level])
        /\ UNCHANGED <<stored, published, misled>>
  BY DEF InsertBook
<1>. DEFINE t == [Blank EXCEPT !.kind = "create", !.left = {b}, !.seen[b] = level]
<1>2. b \in Books /\ t.kind = "create" /\ t.left = {b} /\ t.route = << >> /\ t.seen[b] = level
  BY DEF Typed, Blank, Zero
<1>. HIDE DEF t
<1>3. pc'[r] = "cache" /\ session'[r] = t
  BY DEF Goto, Typed, t
<1>4. \A c \in Books : lock'[c] = r <=> c = b
  BY <1>1, <1>2 DEF Write, Typed
<1>5. HolderOk(r, b)'
  <2>1. draft'[b].stock = level
    BY <1>2 DEF Write, Typed
  <2>. QED  BY <1>2, <1>3, <2>1 DEF HolderOk
<1>6. PublisherOk(r)'
  BY <1>2, <1>3, <1>4, <1>5 DEF PublisherOk
<1>7. Free(r, b)
  BY DEF Sound, Free
<1>8. /\ Goto(r, "cache", t) /\ "cache" \in Steps /\ unused' \subseteq unused
      /\ UNCHANGED <<row, published, misled>>
      /\ \A c \in Books : lock'[c] = r => c \in t.left
  BY <1>2, <1>4 DEF stored, Steps, t
<1>. QED  BY <1>1, <1>2, <1>6, <1>7, <1>8, WriteTruthful

LEMMA LoadBookTruthful ==
  ASSUME Typed, Typed', Sound, Truthful, NEW r \in Requests, LoadBook(r)
  PROVE  Truthful'
<1>1. ~Publishing(r) /\ \A b \in Books : lock[b] # r
  BY NothingLocked DEF LoadBook, Publishing
<1>2. ASSUME NEW t, t.kind = "patch", t.route = << >>, Goto(r, "patch", t), Private
      PROVE  Truthful'
  <2>1. pc'[r] = "patch" /\ session'[r] = t /\ UNCHANGED <<row, lock, draft, published, unused, misled>>
    BY <1>2 DEF Goto, Typed, Private, stored, history
  <2>2. PublisherOk(r)'
    BY <1>1, <1>2, <2>1 DEF PublisherOk
  <2>. QED  BY <1>1, <1>2, <2>1, <2>2, MoveTruthful DEF Steps
<1>3. ASSUME NEW b \in Books, NEW level, NEW price,
             Goto(r, "patch", [Blank EXCEPT !.kind = "patch", !.left = {b},
                                            !.seen[b] = row[b].stock,
                                            !.bill[b] = row[b].price,
                                            !.level = level, !.price = price]), Private
      PROVE  Truthful'
  <2>. DEFINE t == [Blank EXCEPT !.kind = "patch", !.left = {b}, !.seen[b] = row[b].stock,
                                 !.bill[b] = row[b].price, !.level = level, !.price = price]
  <2>1. t.kind = "patch" /\ t.route = << >>
    BY DEF Blank
  <2>2. Goto(r, "patch", t) /\ Private
    BY <1>3
  <2>. HIDE DEF t
  <2>. QED  BY <1>2, <2>1, <2>2
<1>. QED  BY <1>3, RollbackTruthful DEF LoadBook, Finished

\* A PATCH that sends an UPDATE has the row locked when it publishes; any other
\* has not.
LEMMA PatchBookTruthful ==
  ASSUME Typed, Typed', Sound, Truthful, NEW r \in Requests, PatchBook(r)
  PROVE  Truthful'
<1>. DEFINE s == session[r]
<1>1. /\ pc[r] = "patch" /\ s.kind = "patch" /\ s \in SessionT /\ s.route = << >>
      /\ ~Publishing(r) /\ \A b \in Books : lock[b] # r
  BY DEF PatchBook, Sound, RequestOk, KindFits, Typed, Truthful, PublisherOk, HolderOk, Publishing
<1>2. ASSUME NEW t, t.kind = "patch", t.route = << >>, Goto(r, "cache", t), Private
      PROVE  Truthful'
  <2>1. pc'[r] = "cache" /\ session'[r] = t /\ UNCHANGED <<row, lock, draft, published, unused, misled>>
    BY <1>2 DEF Goto, Typed, Private, stored, history
  <2>2. PublisherOk(r)'
    BY <1>1, <1>2, <2>1 DEF PublisherOk
  <2>. QED  BY <1>1, <1>2, <2>1, <2>2, MoveTruthful DEF Steps
<1>3. ASSUME NEW b \in s.left, UpdateColumns(r, b) PROVE Truthful'
  <2>. DEFINE t == [s EXCEPT !.seen[b] = Patched(s, b).stock]
  <2>1. CASE Rollback(r, "failed")
    BY <2>1, RollbackTruthful DEF Finished
  <2>2. CASE /\ row[b].live /\ Write(r, b, Patched(s, b)) /\ Goto(r, "cache", t)
             /\ UNCHANGED <<stored, published, unused, misled>>
    <3>1. /\ b \in Books /\ t.kind = "patch" /\ t.left = s.left /\ t.route = << >>
          /\ t.seen[b] = Patched(s, b).stock
      BY <1>1, <1>3 DEF SessionT
    <3>. HIDE DEF t
    <3>2. /\ pc'[r] = "cache" /\ session'[r] = t /\ draft'[b] = Patched(s, b)
          /\ \A c \in Books : lock'[c] = r <=> c = b
      BY <1>1, <2>2, <3>1 DEF Goto, Typed, Write
    <3>3. HolderOk(r, b)'
      BY <3>1, <3>2 DEF HolderOk, Publishing
    <3>4. PublisherOk(r)'
      BY <3>1, <3>2, <3>3 DEF PublisherOk
    <3>5. Free(r, b) /\ "cache" \in Steps
      BY <1>3 DEF UpdateColumns, Steps
    <3>. QED  BY <1>1, <1>3, <2>2, <3>1, <3>2, <3>4, <3>5, WriteTruthful DEF stored
  <2>. QED  BY <1>3, <2>1, <2>2 DEF UpdateColumns
<1>4. ASSUME Goto(r, "cache", s), Private PROVE Truthful'
  BY <1>1, <1>2, <1>4
<1>5. ASSUME NEW b \in s.left, Goto(r, "cache", [s EXCEPT !.seen[b] = row[b].stock]), Private
      PROVE  Truthful'
  <2>1. /\ [s EXCEPT !.seen[b] = row[b].stock].kind = "patch"
        /\ [s EXCEPT !.seen[b] = row[b].stock].route = << >>
    BY <1>1 DEF SessionT
  <2>. QED  BY <1>2, <1>5, <2>1
<1>. QED  BY <1>3, <1>4, <1>5, RollbackTruthful DEF PatchBook, Finished

LEMMA LoadDependantsTruthful ==
  ASSUME Typed, Typed', Sound, Truthful, NEW r \in Requests, LoadDependants(r)
  PROVE  Truthful'
<1>1. ~Publishing(r) /\ \A b \in Books : lock[b] # r
  BY NothingLocked DEF LoadDependants, Publishing
<1>2. ASSUME NEW b \in Books, row[b].live,
             Goto(r, "unlink", [Blank EXCEPT !.kind = "delete", !.left = {b}, !.doomed = ItemsOf(b)]),
             Private
      PROVE  Truthful'
  <2>. DEFINE t == [Blank EXCEPT !.kind = "delete", !.left = {b}, !.doomed = ItemsOf(b)]
  <2>1. t.kind = "delete" /\ t.left = {b} /\ t.route = << >> /\ Goto(r, "unlink", t)
    BY <1>2 DEF Blank
  <2>. HIDE DEF t
  <2>2. /\ pc'[r] = "unlink" /\ session'[r] = t
        /\ UNCHANGED <<row, lock, draft, published, unused, misled>>
    BY <1>2, <2>1 DEF Goto, Typed, Private, stored, history
  <2>3. b \notin unused
    BY <1>2 DEF Sound
  <2>4. PublisherOk(r)'
    BY <1>1, <2>1, <2>2, <2>3 DEF PublisherOk, Publishing
  <2>. QED  BY <1>1, <2>1, <2>2, <2>4, MoveTruthful DEF Steps
<1>. QED  BY <1>2, RollbackTruthful DEF LoadDependants, Finished

LEMMA UnlinkItemsTruthful ==
  ASSUME Typed, Typed', Sound, Truthful, NEW r \in Requests, UnlinkItems(r)
  PROVE  Truthful'
<1>1. /\ ~Publishing(r) /\ pc[r] = "unlink" /\ session[r].kind = "delete" /\ PublisherOk(r)
      /\ \A b \in Books : lock[b] # r
  BY NothingLocked DEF UnlinkItems, Publishing, Sound, RequestOk, KindFits, Truthful
<1>2. CASE Goto(r, "erase", session[r]) /\ Private
  <2>1. /\ pc'[r] = "erase" /\ session'[r] = session[r]
        /\ UNCHANGED <<row, lock, draft, published, unused, misled>>
    BY <1>2 DEF Goto, Typed, Private, stored, history
  <2>2. PublisherOk(r)'
    BY <1>1, <2>1 DEF PublisherOk, Publishing
  <2>. QED  BY <1>1, <1>2, <2>1, <2>2, MoveTruthful DEF Steps
<1>. QED  BY <1>2, RollbackTruthful DEF UnlinkItems, Finished

\* A deletion that finds its row gone tells what is so, without a lock: the row
\* stays gone.
LEMMA EraseBookTruthful ==
  ASSUME Typed, Typed', Sound, Truthful, NEW r \in Requests, EraseBook(r)
  PROVE  Truthful'
<1>. DEFINE s == session[r]
<1>1. /\ ~Publishing(r) /\ pc[r] = "erase" /\ s.kind = "delete" /\ s.route = << >>
      /\ s.left \subseteq Books /\ PublisherOk(r) /\ \A b \in Books : lock[b] # r
  BY NothingLocked DEF EraseBook, Publishing, Sound, RequestOk, KindFits, Truthful, PublisherOk,
                       Typed, SessionT
<1>2. PICK b \in s.left :
         /\ Free(r, b)
         /\ \/ Rollback(r, "failed")
            \/ /\ row[b].live /\ Write(r, b, NoBook) /\ Goto(r, "cache", s)
               /\ UNCHANGED <<stored, published, unused, history>>
            \/ ~row[b].live /\ Goto(r, "cache", s) /\ Private
  BY DEF EraseBook
<1>3. b \in Books /\ s.left = {b} /\ b \notin unused
  BY <1>1 DEF PublisherOk
<1>4. CASE Rollback(r, "failed")
  BY <1>4, RollbackTruthful DEF Finished
<1>5. CASE /\ row[b].live /\ Write(r, b, NoBook) /\ Goto(r, "cache", s)
           /\ UNCHANGED <<stored, published, unused, history>>
  <2>1. /\ pc'[r] = "cache" /\ session'[r] = s /\ UNCHANGED <<row, published, unused, misled>>
        /\ \A c \in Books : lock'[c] = r <=> c = b
    BY <1>1, <1>3, <1>5 DEF Goto, Typed, Write, stored, history
  <2>2. PublisherOk(r)'
    BY <1>1, <1>3, <2>1 DEF PublisherOk, HolderOk, Publishing
  <2>3. Free(r, b) /\ "cache" \in Steps /\ \A c \in Books : lock'[c] = r => c \in s.left
    BY <1>2, <1>3, <2>1 DEF Steps
  <2>. QED  BY <1>1, <1>3, <1>5, <2>1, <2>2, <2>3, WriteTruthful
<1>6. CASE ~row[b].live /\ Goto(r, "cache", s) /\ Private
  <2>1. /\ pc'[r] = "cache" /\ session'[r] = s
        /\ UNCHANGED <<row, lock, draft, published, unused, misled>>
    BY <1>6 DEF Goto, Typed, Private, stored, history
  <2>2. lock[b] = Nil
    BY <1>1, <1>2, <1>3 DEF Free
  <2>3. PublisherOk(r)'
    BY <1>1, <1>3, <1>6, <2>1, <2>2 DEF PublisherOk
  <2>. QED  BY <1>1, <1>6, <2>1, <2>3, MoveTruthful DEF Steps
<1>. QED  BY <1>2, <1>4, <1>5, <1>6

-----------------------------------------------------------------------------
(* CartService.                                                            *)

LEMMA CartTruthful ==
  ASSUME Typed, Typed', Sound, Truthful, NEW r \in Requests, CartNext(r)
  PROVE  Truthful'
<1>1. pc[r] \in {"new", "open", "fill", "mutate"}
  BY DEF CartNext, ViewCart, CreateCart, LoadForAdd, InsertItem, MergeItem, LoadForSet, SetItem,
         LoadForRemove, RemoveItems, Opened
<1>2. ~Publishing(r) /\ \A b \in Books : lock[b] # r
  BY <1>1 DEF Sound, RequestOk, KindFits, Held, Publishing
<1>3. ASSUME NEW step \in {"open", "fill", "mutate", "ok"}, NEW t, t.kind \in CartKinds \cup {"none"},
             Goto(r, step, t), UNCHANGED <<row, lock, draft, published, unused, history>>
      PROVE  Truthful'
  <2>1. /\ step \in Steps \ {"reserve", "clear", "restock", "patch", "unlink", "erase", "cache", "announce"}
        /\ t.kind \notin {"checkout", "cancel", "create", "delete"} /\ misled' = misled
    BY <1>3 DEF Steps, Finished, CartKinds, history
  <2>. QED  BY <1>2, <1>3, <2>1, UnlockedTruthful
<1>4. ASSUME NEW step \in {"open", "fill", "mutate"}, NEW t, t.kind \in CartKinds, Goto(r, step, t), Private
      PROVE  Truthful'
  BY <1>3, <1>4 DEF Private, stored
<1>5. ASSUME Finish(r, "ok"), UNCHANGED <<row, lock, draft, published, unused, history>>
      PROVE  Truthful'
  BY <1>3, <1>5 DEF Finish, Blank
<1>6. ASSUME NEW outcome \in Finished, Rollback(r, outcome) PROVE Truthful'
  BY <1>6, RollbackTruthful
<1>7. session[r].kind \in CartKinds \cup {"none"}
  BY <1>1 DEF Sound, RequestOk, KindFits
<1>8. ASSUME NEW kind \in CartKinds, Enter(r, kind), Private PROVE Truthful'
  <2>1. [Blank EXCEPT !.kind = kind].kind = kind
    BY DEF Blank
  <2>. QED  BY <1>4, <1>8, <2>1 DEF Enter
<1>9. ASSUME NEW step \in {"open", "fill", "mutate"}, NEW kind \in CartKinds, NEW b, NEW quantity,
             ReadItem(r, step, kind, b, quantity), Private
      PROVE  Truthful'
  <2>. DEFINE t == [Blank EXCEPT !.kind = kind, !.route = <<b>>, !.qty[b] = quantity,
                                 !.item = cart[Buyer[r]][b]]
  <2>1. t.kind = kind /\ Goto(r, step, t)
    BY <1>9 DEF ReadItem, Blank
  <2>. HIDE DEF t
  <2>. QED  BY <1>4, <1>9, <2>1
<1>10. CASE ViewCart(r)
  BY <1>6, <1>8, <1>10 DEF ViewCart, CartKinds, Finished
<1>11. CASE CreateCart(r)
  <2>1. CASE Goto(r, "fill", session[r]) /\ Private /\ session[r].kind = "add"
    BY <1>4, <2>1 DEF CartKinds
  <2>2. CASE /\ Finish(r, "ok")
             /\ UNCHANGED <<row, cart, orders, lock, draft, published, unused, history>>
    BY <1>5, <2>2
  <2>. QED  BY <1>6, <1>11, <2>1, <2>2 DEF CreateCart, Finished
<1>12. CASE LoadForAdd(r)
  <2>. PICK b \in Books, quantity \in Quantities :
          \/ ReadItem(r, IF HasCart(Buyer[r]) THEN "mutate" ELSE "open", "add", b, quantity) /\ Private
          \/ Rollback(r, "refused")
    BY <1>12 DEF LoadForAdd
  <2>. QED  BY <1>6, <1>9 DEF CartKinds, Finished
<1>13. CASE InsertItem(r) \/ MergeItem(r) \/ SetItem(r)
  BY <1>5, <1>6, <1>13 DEF InsertItem, MergeItem, SetItem, SaveItem, Finished
<1>14. CASE LoadForSet(r)
  BY <1>6, <1>8, <1>9, <1>14 DEF LoadForSet, CartKinds, Finished
<1>15. CASE LoadForRemove(r)
  <2>1. ASSUME NEW b \in Books, NEW t, t = [Blank EXCEPT !.kind = "remove",
                   !.doomed = {<<Buyer[r], b, cart[Buyer[r]][b].id>>}],
               Goto(r, "mutate", t), Private
        PROVE  Truthful'
    <3>1. t.kind = "remove" /\ t.kind \in CartKinds
      BY <2>1 DEF Blank, CartKinds
    <3>. QED  BY <1>4, <2>1, <3>1
  <2>2. ASSUME NEW t, t = [Blank EXCEPT !.kind = "empty", !.doomed = CartItems(Buyer[r])],
               Goto(r, "mutate", t), Private
        PROVE  Truthful'
    <3>1. t.kind = "empty" /\ t.kind \in CartKinds
      BY <2>2 DEF Blank, CartKinds
    <3>. QED  BY <1>4, <2>2, <3>1
  <2>. QED  BY <1>6, <1>8, <1>15, <2>1, <2>2 DEF LoadForRemove, CartKinds, Finished
<1>16. CASE RemoveItems(r)
  BY <1>5, <1>16 DEF RemoveItems
<1>. QED  BY <1>10, <1>11, <1>12, <1>13, <1>14, <1>15, <1>16 DEF CartNext

-----------------------------------------------------------------------------
(* Publishing, and the commit.                                             *)

\* What a request tells of a row it has locked is what it has written there.
LEMMA NewsIsDraft ==
  ASSUME Typed, Sound, Truthful, NEW r \in Requests, NEW b \in Books, lock[b] = r, Publishing(r)
  PROVE  /\ Stored(session[r], b) \in CacheTruth(draft[b])
         /\ News(session[r], b) \in NewsTruth(draft[b])
<1>. DEFINE s == session[r]
<1>1. RequestOk(r) /\ Held(r, b) /\ HolderOk(r, b)
  BY DEF Sound, RequestOk, Truthful, PublisherOk
<1>2. s.kind \in {"checkout", "cancel", "create", "patch", "delete"}
  BY <1>1 DEF RequestOk, KindFits, Publishing
<1>3. CASE s.kind = "delete"
  BY <1>1, <1>3 DEF Held, Stored, News, CacheTruth, NewsTruth
<1>4. CASE s.kind # "delete"
  <2>1. s.kind = "cancel" => row[b].live
    <3>1. ASSUME s.kind = "cancel" PROVE s.order \in Requests /\ orders[s.order].qty[b] # 0
      BY <1>1, <3>1 DEF RequestOk, Held, Publishing
    <3>. QED  BY <3>1 DEF Sound, OrderOk, Ordered, Live
  <2>2. draft[b].live
    BY <1>1, <1>2, <1>4, <2>1 DEF Held, SameBook
  <2>3. s.seen[b] = draft[b].stock
    BY <1>1, <1>2, <1>4 DEF HolderOk
  <2>. QED  BY <1>4, <2>2, <2>3 DEF Stored, News, CacheTruth, NewsTruth
<1>. QED  BY <1>3, <1>4

\* What a request tells of a row it has not locked: nobody has, and it is gone.
LEMMA NewsOfDeparted ==
  ASSUME Typed, Sound, Truthful, NEW r \in Requests, Publishing(r), NEW b \in session[r].left, lock[b] # r,
         session[r].kind # "patch"
  PROVE  /\ lock[b] = Nil
         /\ Stored(session[r], b) \in CacheTruth(row[b])
         /\ News(session[r], b) \in NewsTruth(row[b])
<1>1. PublisherOk(r) /\ session[r].kind \in {"checkout", "cancel", "create", "delete"}
  BY DEF Sound, RequestOk, KindFits, Publishing, Truthful
<1>2. session[r].kind = "delete"
  BY <1>1 DEF PublisherOk, Publishing
<1>3. lock[b] = Nil /\ ~row[b].live
  BY <1>1, <1>2 DEF PublisherOk
<1>. QED  BY <1>2, <1>3 DEF Stored, News, CacheTruth, NewsTruth

LEMMA PublishToCacheTruthful ==
  ASSUME Typed, Typed', Sound, Truthful, NEW r \in Requests, PublishToCache(r)
  PROVE  Truthful'
<1>. DEFINE s == session[r]
<1>. PICK b \in s.left :
        /\ Goto(r, "announce", [s EXCEPT !.route = <<b>>])
        /\ \/ /\ cache' = [cache EXCEPT ![b] = Stored(s, b)]
              /\ misled' = IF s.kind = "patch" /\ lock[b] # r THEN misled \cup {b} ELSE misled
           \/ cache' = cache /\ misled' = misled \cup {b}
  BY DEF PublishToCache
<1>. DEFINE t == [s EXCEPT !.route = <<b>>]
<1>1. /\ pc[r] = "cache" /\ s \in SessionT /\ b \in Books /\ s.left \subseteq Books
      /\ PublisherOk(r) /\ Publishing(r) /\ s.route = << >>
  BY DEF PublishToCache, Typed, SessionT, Truthful, PublisherOk, Publishing
<1>2. /\ t.kind = s.kind /\ t.left = s.left /\ t.seen = s.seen /\ t.route = <<b>>
  BY <1>1 DEF SessionT
<1>. HIDE DEF t
<1>3. /\ pc'[r] = "announce" /\ session'[r] = t
      /\ \A x \in Requests \ {r} : pc'[x] = pc[x] /\ session'[x] = session[x]
      /\ UNCHANGED <<row, lock, draft, announced, unused>> /\ misled \subseteq misled'
      /\ s.kind = "patch" /\ lock[b] # r => b \in misled'
  BY DEF PublishToCache, Goto, Typed, stored, t
<1>4. ASSUME NEW x \in Requests PROVE PublisherOk(x)'
  <2>1. CASE x = r
    <3>1. ASSUME NEW c \in Books, lock'[c] = r PROVE HolderOk(r, c)'
      BY <1>1, <1>2, <1>3, <3>1 DEF PublisherOk, HolderOk, Publishing
    <3>2. s.kind = "delete" => \A c \in s.left : /\ s.left = {c} /\ c \notin unused
                                                 /\ lock[c] # r => lock[c] = Nil /\ ~row[c].live
      BY <1>1 DEF PublisherOk
    <3>3. s.kind \in {"checkout", "cancel", "create"} => \A c \in s.left : lock[c] = r
      BY <1>1 DEF PublisherOk
    <3>. QED  BY <1>2, <1>3, <2>1, <3>1, <3>2, <3>3 DEF PublisherOk
  <2>2. CASE x # r
    <3>1. PublisherOk(x) /\ session[x].left \subseteq Books
      BY DEF Truthful, Typed, SessionT
    <3>. QED  BY <1>3, <2>2, <3>1, PublisherUndisturbed DEF Departed
  <2>. QED  BY <2>1, <2>2
<1>5. ASSUME NEW c \in Books, c \notin misled'
      PROVE  /\ cache'[c] \in CacheTruth(IF lock[c] # Nil /\ InRedis(lock[c], c)' THEN draft[c] ELSE row[c])
             /\ announced[c] \in NewsTruth(IF lock[c] # Nil /\ OnHub(lock[c], c)' THEN draft[c] ELSE row[c])
  <2>1. BookOk(c) /\ c \notin misled
    BY <1>3, <1>5 DEF Truthful
  <2>2. lock[c] \notin {Nil, r} => (InRedis(lock[c], c)' <=> InRedis(lock[c], c))
                                   /\ (OnHub(lock[c], c)' <=> OnHub(lock[c], c))
    BY <1>3 DEF Typed, InRedis, OnHub, Publishing
  <2>3. lock[c] = r => /\ OnHub(r, c)' <=> OnHub(r, c)
                       /\ InRedis(r, c)' <=> c \notin s.left \/ c = b
                       /\ InRedis(r, c) <=> c \notin s.left
    <3>1. <<b>> = <<c>> <=> b = c
      OBVIOUS
    <3>2. << >> # <<c>>
      OBVIOUS
    <3>. QED  BY <1>1, <1>2, <1>3, <3>1, <3>2 DEF InRedis, OnHub, Publishing
  <2>4. CASE c # b
    <3>1. cache'[c] = cache[c]
      BY <2>4 DEF Typed
    <3>2. lock[c] # Nil => (OnHub(lock[c], c)' <=> OnHub(lock[c], c)) /\ (InRedis(lock[c], c)' <=> InRedis(lock[c], c))
      BY <1>3, <2>2, <2>3, <2>4
    <3>3. announced'[c] = announced[c]
      BY <1>3
    <3>. QED  BY <2>1, <3>1, <3>2, <3>3 DEF BookOk
  <2>5. CASE c = b /\ lock[b] = r
    <3>1. cache'[b] = Stored(s, b)
      BY <1>1, <1>5, <2>5 DEF Typed
    <3>2. cache'[b] \in CacheTruth(draft[b])
      BY <1>1, <2>5, <3>1, NewsIsDraft
    <3>3. InRedis(lock[b], b)' <=> TRUE
      BY <1>3, <2>3, <2>5
    <3>4. OnHub(lock[b], b)' <=> OnHub(lock[b], b)
      BY <1>3, <2>3, <2>5
    <3>5. lock[b] # Nil
      BY <2>5, RequestsAssumption
    <3>6. announced'[b] = announced[b]
      BY <1>3
    <3>. QED  BY <2>1, <2>5, <3>2, <3>3, <3>4, <3>5, <3>6 DEF BookOk
  <2>6. CASE c = b /\ lock[b] # r
    <3>1. s.kind # "patch" /\ cache'[b] = Stored(s, b)
      BY <1>1, <1>3, <1>5, <2>6 DEF Typed
    <3>2. lock[b] = Nil /\ cache'[b] \in CacheTruth(row[b])
      BY <1>1, <2>6, <3>1, NewsOfDeparted
    <3>. QED  BY <2>1, <2>6, <3>2 DEF BookOk
  <2>. QED  BY <2>4, <2>5, <2>6
<1>6. \A c \in Books : BookOk(c)'
  BY <1>3, <1>5 DEF BookOk, CacheTruth, NewsTruth
<1>. QED  BY <1>4, <1>6 DEF Truthful

LEMMA PublishToHubTruthful ==
  ASSUME Typed, Typed', Sound, Truthful, NEW r \in Requests, PublishToHub(r)
  PROVE  Truthful'
<1>. DEFINE s == session[r]
<1>1. /\ pc[r] = "announce" /\ s \in SessionT /\ s.left \subseteq Books
      /\ PublisherOk(r) /\ Publishing(r)
  BY DEF PublishToHub, Typed, SessionT, Truthful, Publishing
<1>2. PICK b \in s.left : s.route = <<b>> /\ (s.kind = "patch" /\ lock[b] # r => b \in misled)
  BY <1>1 DEF PublisherOk
<1>. DEFINE t == [s EXCEPT !.route = << >>, !.left = @ \ {b}]
<1>3. Head(s.route) = b /\ b \in Books
  BY <1>1, <1>2
<1>4. t.kind = s.kind /\ t.left = s.left \ {b} /\ t.seen = s.seen /\ t.route = << >>
  BY <1>1 DEF SessionT
<1>5. Goto(r, "cache", t) /\ announced' = [announced EXCEPT ![b] = News(s, b)]
  BY <1>3 DEF PublishToHub
<1>. HIDE DEF t
<1>6. /\ pc'[r] = "cache" /\ session'[r] = t
      /\ \A x \in Requests \ {r} : pc'[x] = pc[x] /\ session'[x] = session[x]
      /\ UNCHANGED <<row, lock, draft, cache, unused, misled>>
  BY <1>5 DEF PublishToHub, Goto, Typed, stored, history
<1>7. ASSUME NEW x \in Requests PROVE PublisherOk(x)'
  <2>1. CASE x = r
    <3>1. ASSUME NEW c \in Books, lock'[c] = r PROVE HolderOk(r, c)'
      BY <1>1, <1>4, <1>6, <3>1 DEF PublisherOk, HolderOk, Publishing
    <3>2. s.kind = "delete" => t.left = {}
      BY <1>1, <1>4 DEF PublisherOk
    <3>3. s.kind \in {"checkout", "cancel", "create"} => \A c \in s.left : lock[c] = r
      BY <1>1 DEF PublisherOk
    <3>. QED  BY <1>4, <1>6, <2>1, <3>1, <3>2, <3>3 DEF PublisherOk
  <2>2. CASE x # r
    <3>1. PublisherOk(x) /\ session[x].left \subseteq Books
      BY DEF Truthful, Typed, SessionT
    <3>. QED  BY <1>6, <2>2, <3>1, PublisherUndisturbed DEF Departed
  <2>. QED  BY <2>1, <2>2
<1>8. ASSUME NEW c \in Books, c \notin misled
      PROVE  /\ cache[c] \in CacheTruth(IF lock[c] # Nil /\ InRedis(lock[c], c)' THEN draft[c] ELSE row[c])
             /\ announced'[c] \in NewsTruth(IF lock[c] # Nil /\ OnHub(lock[c], c)' THEN draft[c] ELSE row[c])
  <2>1. BookOk(c)
    BY DEF Truthful
  <2>2. lock[c] \notin {Nil, r} => (InRedis(lock[c], c)' <=> InRedis(lock[c], c))
                                   /\ (OnHub(lock[c], c)' <=> OnHub(lock[c], c))
    BY <1>6 DEF Typed, InRedis, OnHub, Publishing
  <2>3. lock[c] = r => /\ OnHub(r, c)' <=> c \notin s.left \/ c = b
                       /\ OnHub(r, c) <=> c \notin s.left
                       /\ InRedis(r, c)' <=> InRedis(r, c)
    <3>1. <<b>> = <<c>> <=> b = c
      OBVIOUS
    <3>2. << >> # <<c>>
      OBVIOUS
    <3>. QED  BY <1>1, <1>2, <1>4, <1>6, <3>1, <3>2 DEF InRedis, OnHub, Publishing
  <2>4. CASE c # b
    <3>1. announced'[c] = announced[c]
      BY <1>5, <2>4 DEF Typed
    <3>2. lock[c] # Nil => (OnHub(lock[c], c)' <=> OnHub(lock[c], c)) /\ (InRedis(lock[c], c)' <=> InRedis(lock[c], c))
      BY <1>6, <2>2, <2>3, <2>4
    <3>. QED  BY <1>8, <2>1, <3>1, <3>2 DEF BookOk
  <2>5. CASE c = b
    <3>1. announced'[b] = News(s, b)
      BY <1>3, <1>5 DEF Typed
    <3>2. CASE lock[b] = r
      <4>1. announced'[b] \in NewsTruth(draft[b])
        BY <1>1, <1>3, <3>1, <3>2, NewsIsDraft
      <4>2. OnHub(lock[b], b)' <=> TRUE
        BY <1>6, <2>3, <2>5, <3>2
      <4>3. InRedis(lock[b], b)' <=> InRedis(lock[b], b)
        BY <1>6, <2>3, <2>5, <3>2
      <4>4. lock[b] # Nil
        BY <3>2, RequestsAssumption
      <4>. QED  BY <1>8, <2>1, <2>5, <4>1, <4>2, <4>3, <4>4 DEF BookOk
    <3>3. CASE lock[b] # r
      <4>1. s.kind # "patch"
        BY <1>2, <1>8, <2>5, <3>3
      <4>2. lock[b] = Nil /\ announced'[b] \in NewsTruth(row[b])
        BY <1>1, <3>1, <3>3, <4>1, NewsOfDeparted
      <4>. QED  BY <1>8, <2>1, <2>5, <4>2 DEF BookOk
    <3>. QED  BY <3>2, <3>3
  <2>. QED  BY <2>4, <2>5
<1>9. \A c \in Books : BookOk(c)'
  BY <1>6, <1>8 DEF BookOk, CacheTruth, NewsTruth
<1>. QED  BY <1>7, <1>9 DEF Truthful

\* What was published is what the commit leaves.
LEMMA CommitTruthful ==
  ASSUME Typed, Typed', Sound, Truthful, NEW r \in Requests, Commit(r)
  PROVE  Truthful'
<1>1. /\ pc[r] \in {"cache", "flush"} /\ session[r].left = {} /\ PublisherOk(r) /\ RequestOk(r)
      /\ pc'[r] = "ok" /\ session'[r] = Blank
      /\ \A x \in Requests \ {r} : pc'[x] = pc[x] /\ session'[x] = session[x]
      /\ UNCHANGED <<draft, published, unused, misled>>
  BY DEF Commit, ReadyToCommit, Finish, Goto, Typed, Truthful, Sound
<1>2. \A b \in Books : /\ lock'[b] = IF lock[b] = r THEN Nil ELSE lock[b]
                       /\ row'[b] = IF lock[b] = r THEN draft[b] ELSE row[b]
  BY DEF Commit, Unlocked
<1>3. ASSUME NEW x \in Requests PROVE PublisherOk(x)'
  <2>1. CASE x = r
    <3>1. Blank.kind = "none" /\ \A b \in Books : lock'[b] # r
      BY <1>2, RequestsAssumption DEF Blank
    <3>. QED  BY <1>1, <2>1, <3>1 DEF PublisherOk
  <2>2. CASE x # r
    <3>1. PublisherOk(x) /\ session[x].left \subseteq Books
      BY DEF Truthful, Typed, SessionT
    <3>2. /\ \A b \in Books : lock'[b] = x <=> lock[b] = x
          /\ \A b \in Books : Departed(b) => Departed(b)'
      BY <1>1, <1>2, <2>2, RequestsAssumption DEF Departed
    <3>. QED  BY <1>1, <2>2, <3>1, <3>2, PublisherUndisturbed
  <2>. QED  BY <2>1, <2>2
<1>4. ASSUME NEW b \in Books, b \notin misled
      PROVE  /\ cache[b] \in CacheTruth(IF lock'[b] # Nil /\ InRedis(lock[b], b)' THEN draft[b] ELSE row'[b])
             /\ announced[b] \in NewsTruth(IF lock'[b] # Nil /\ OnHub(lock[b], b)' THEN draft[b] ELSE row'[b])
  <2>1. BookOk(b)
    BY DEF Truthful
  <2>2. CASE lock[b] = r
    <3>1. pc[r] = "cache"
      BY <1>1, <1>4, <2>2 DEF PublisherOk, HolderOk, RequestOk, KindFits
    <3>2. InRedis(r, b) /\ OnHub(r, b)
      BY <1>1, <3>1 DEF InRedis, OnHub, Publishing
    <3>. QED  BY <1>2, <1>4, <2>1, <2>2, <3>2, RequestsAssumption DEF BookOk
  <2>3. CASE lock[b] = Nil
    BY <1>2, <1>4, <2>1, <2>3, RequestsAssumption DEF BookOk
  <2>4. CASE lock[b] \notin {Nil, r}
    <3>1. lock'[b] = lock[b] /\ row'[b] = row[b] /\ lock[b] \in Requests \ {r}
      BY <1>2, <2>4 DEF Typed
    <3>2. /\ InRedis(lock[b], b)' <=> InRedis(lock[b], b)
          /\ OnHub(lock[b], b)' <=> OnHub(lock[b], b)
      BY <1>1, <3>1 DEF InRedis, OnHub, Publishing
    <3>. QED  BY <1>4, <2>1, <3>1, <3>2 DEF BookOk
  <2>. QED  BY <2>2, <2>3, <2>4
<1>5. \A b \in Books : BookOk(b)'
  BY <1>1, <1>4 DEF BookOk, CacheTruth, NewsTruth, published
<1>. QED  BY <1>3, <1>5 DEF Truthful

\* Steps of no request: a key lost by Redis, a step that changes nothing.
LEMMA EvictTruthful ==
  ASSUME Typed, Truthful, UNCHANGED <<row, lock, draft, announced, unused, misled, pc, session>>,
         \A b \in Books : cache'[b] \in {Nil, cache[b]}
  PROVE  Truthful'
<1>1. ASSUME NEW r \in Requests PROVE PublisherOk(r)'
  <2>1. PublisherOk(r) /\ session[r].left \subseteq Books
    BY DEF Truthful, Typed, SessionT
  <2>2. \A b \in Books : Departed(b) => Departed(b)'
    BY DEF Departed
  <2>. QED  BY <2>1, <2>2, PublisherUndisturbed
<1>2. ASSUME NEW b \in Books PROVE BookOk(b)'
  <2>1. BookOk(b)
    BY DEF Truthful
  <2>2. /\ InRedis(lock[b], b)' <=> InRedis(lock[b], b)
        /\ OnHub(lock[b], b)' <=> OnHub(lock[b], b)
    BY DEF InRedis, OnHub, Publishing
  <2>. QED  BY <2>1, <2>2 DEF BookOk, CacheTruth, NewsTruth
<1>. QED  BY <1>1, <1>2 DEF Truthful

LEMMA NextTruthful == Typed /\ Typed' /\ Sound /\ Truthful /\ [Next]_vars => Truthful'
<1>. SUFFICES ASSUME Typed, Typed', Sound, Truthful, [Next]_vars PROVE Truthful'
  OBVIOUS
<1>1. ASSUME NEW r \in Requests, OrderNext(r) PROVE Truthful'
  BY <1>1, LoadCartTruthful, ReserveItemTruthful, PlaceOrderTruthful, LoadOrderTruthful,
     LoadLinesTruthful, RestockItemTruthful DEF OrderNext
<1>2. ASSUME NEW r \in Requests, BookNext(r) PROVE Truthful'
  BY <1>2, ReadBooksTruthful, HydrateTruthful, FlushBookTruthful, InsertBookTruthful, LoadBookTruthful,
     PatchBookTruthful, LoadDependantsTruthful, UnlinkItemsTruthful, EraseBookTruthful DEF BookNext
<1>3. ASSUME NEW r \in Requests, Step(r) PROVE Truthful'
  BY <1>1, <1>2, <1>3, CartTruthful, PublishToCacheTruthful, PublishToHubTruthful, CommitTruthful DEF Step
<1>4. ASSUME NEW r \in Requests, AbortVictim(r) \/ Crash(r) PROVE Truthful'
  BY <1>4, RollbackTruthful DEF AbortVictim, Crash, Finished
<1>5. ASSUME NEW c \in Books, Evict(c) PROVE Truthful'
  <2>1. \A b \in Books : cache'[b] \in {Nil, cache[b]}
    BY <1>5 DEF Evict, Typed
  <2>. QED  BY <1>5, <2>1, EvictTruthful DEF Evict, stored, history
<1>6. ASSUME UNCHANGED vars PROVE Truthful'
  <2>1. \A b \in Books : cache'[b] \in {Nil, cache[b]}
    BY <1>6 DEF vars, published
  <2>. QED  BY <1>6, <2>1, EvictTruthful DEF vars, stored, published, history
<1>. QED  BY <1>3, <1>4, <1>5, <1>6 DEF Next, Idle

\* Whatever is published before its commit is what the commit leaves, or misleads.
THEOREM AlwaysTruthful == Spec => []Truthful
  BY AlwaysTyped, AlwaysSound, InitTruthful, NextTruthful, PTL DEF Spec

\* Redis tells the committed stock of every book whose row nobody has locked,
\* although handlers publish before they commit (orders.py:51-53, 102-104,
\* books.py:52-55, 69-72), unless one of them rolled back, was refused or published what it had
\* read without a lock.
THEOREM CacheFollows == Spec => []CacheFollowsDatabase
<1>1. Truthful => CacheFollowsDatabase
  BY DEF Truthful, BookOk, CacheTruth, CacheFollowsDatabase
<1>. QED  BY <1>1, AlwaysTruthful, PTL

\* The last event broadcast about a book whose row nobody has locked tells the
\* committed stock or the deletion (orders.py:55-62, 106-113, books.py:57-65, 74-81),
\* with the same exceptions.
THEOREM NewsFollows == Spec => []NewsFollowsDatabase
<1>1. Truthful => NewsFollowsDatabase
  BY DEF Truthful, BookOk, NewsTruth, NewsFollowsDatabase
<1>. QED  BY <1>1, AlwaysTruthful, PTL
================================================================================

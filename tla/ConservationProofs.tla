------------------------- MODULE ConservationProofs -------------------------
(***************************************************************************)
(* Theorems about the sum of the Points column (WalletTotals) for one      *)
(* instance that is alone on its files: a transfer conserves points, also  *)
(* over crashes, and no failure of an update, wrapping included, ever      *)
(* makes any. They hold for every finite set of users, every opening       *)
(* column and every amount.                                                *)
(***************************************************************************)
EXTENDS WalletTotals, SoleInstanceProofs, FiniteSetTheorems, WellFoundedInduction

-----------------------------------------------------------------------------
(* Sums over finite sets. SumOver is a fold that picks its elements with   *)
(* CHOOSE; the lemmas below give its defining equation, its type, and that *)
(* any element may be taken out first. Each is proved on the smallest set  *)
(* for which it could fail.                                                *)

(* A nonempty set of subsets of a finite set has a minimal one.            *)
LEMMA MinimalSubset ==
    ASSUME NEW S, IsFiniteSet(S), NEW B \in SUBSET SUBSET S, B # {}
    PROVE  \E T \in B : \A U \in SUBSET T : U # T => U \notin B
<1>1. IsWellFoundedOn(StrictSubsetOrdering(S), SUBSET S)
  BY FS_StrictSubsetOrderingWellFounded, FS_FiniteSubsetsOfFinite
<1>2. PICK T \in B : \A U \in B : ~(<<U, T>> \in StrictSubsetOrdering(S))
  BY <1>1, WFMin
<1> QED BY <1>2 DEF StrictSubsetOrdering

Pick(s) == CHOOSE x \in s : TRUE

(* g adds f up over every subset of S.                                     *)
Adds(f, S, g) ==
    g = [s \in SUBSET S |-> IF s = {} THEN 0 ELSE f[Pick(s)] + g[s \ {Pick(s)}]]

LEMMA PickIn ==
    ASSUME NEW s, s # {}
    PROVE  /\ Pick(s) \in s
           /\ s \ {Pick(s)} \subseteq s
           /\ s \ {Pick(s)} # s
BY DEF Pick

LEMMA SumIsChosen ==
    ASSUME NEW f, NEW S
    PROVE  SumOver(f, S) = (CHOOSE g : Adds(f, S, g))[S]
BY DEF SumOver, MapThenSumSet, MapThenFoldSet, Adds, Pick

LEMMA AddsUnique ==
    ASSUME NEW f, NEW S, IsFiniteSet(S), NEW g, NEW h, Adds(f, S, g), Adds(f, S, h)
    PROVE  g = h
<1> DEFINE B == {s \in SUBSET S : g[s] # h[s]}
<1>1. CASE B = {}
  <2>1. DOMAIN g = SUBSET S /\ DOMAIN h = SUBSET S
    BY DEF Adds
  <2>2. g = [s \in SUBSET S |-> g[s]] /\ h = [s \in SUBSET S |-> h[s]]
    BY DEF Adds
  <2> QED BY <1>1, <2>1, <2>2
<1>2. CASE B # {}
  <2>0. B \in SUBSET SUBSET S
    OBVIOUS
  <2>1. PICK T \in B : \A U \in SUBSET T : U # T => U \notin B
    <3> HIDE DEF B
    <3> QED BY <1>2, <2>0, MinimalSubset
  <2>2. CASE T = {}
    BY <2>1, <2>2 DEF Adds
  <2>3. CASE T # {}
    <3>1. T \ {Pick(T)} \in SUBSET S /\ g[T \ {Pick(T)}] = h[T \ {Pick(T)}]
      BY <2>1, <2>3, PickIn
    <3>2. /\ g[T] = f[Pick(T)] + g[T \ {Pick(T)}]
          /\ h[T] = f[Pick(T)] + h[T \ {Pick(T)}]
      BY <2>1, <2>3 DEF Adds
    <3> QED BY <2>1, <3>1, <3>2
  <2> QED BY <2>2, <2>3
<1> QED BY <1>1, <1>2

LEMMA AddsRestrict ==
    ASSUME NEW f, NEW S, NEW g, Adds(f, S, g), NEW T \in SUBSET S
    PROVE  Adds(f, T, [s \in SUBSET T |-> g[s]])
<1> DEFINE h == [s \in SUBSET T |-> g[s]]
<1>1. ASSUME NEW s \in SUBSET T
      PROVE  g[s] = IF s = {} THEN 0 ELSE f[Pick(s)] + h[s \ {Pick(s)}]
  <2>1. s \in SUBSET S
    OBVIOUS
  <2>2. g[s] = IF s = {} THEN 0 ELSE f[Pick(s)] + g[s \ {Pick(s)}]
    BY <2>1 DEF Adds
  <2>3. s \ {Pick(s)} \in SUBSET T
    OBVIOUS
  <2>4. h[s \ {Pick(s)}] = g[s \ {Pick(s)}]
    BY <2>3
  <2> QED BY <2>2, <2>4
<1> QED BY <1>1 DEF Adds

Addable(f, S) == \E g : Adds(f, S, g)

LEMMA SumIsAny ==
    ASSUME NEW f, NEW S, IsFiniteSet(S), NEW g, Adds(f, S, g)
    PROVE  SumOver(f, S) = g[S]
<1>1. Adds(f, S, CHOOSE h : Adds(f, S, h))
  OBVIOUS
<1> QED BY <1>1, AddsUnique, SumIsChosen

LEMMA SubsetFinite ==
    ASSUME NEW S, IsFiniteSet(S), NEW T \in SUBSET S
    PROVE  IsFiniteSet(T)
BY FS_Subset

(* The sums of the proper subsets, put together.                           *)
LEMMA AddableStep ==
    ASSUME NEW f, NEW T, IsFiniteSet(T),
           \A U \in SUBSET T : U # T => Addable(f, U)
    PROVE  Addable(f, T)
<1> DEFINE g == [s \in SUBSET T |->
                   IF s = {} THEN 0 ELSE f[Pick(s)] + SumOver(f, s \ {Pick(s)})]
<1>1. ASSUME NEW U \in SUBSET T, U # T
      PROVE  SumOver(f, U) = g[U]
  <2>1. PICK h : Adds(f, U, h)
    BY <1>1 DEF Addable
  <2>2. IsFiniteSet(U) /\ SumOver(f, U) = h[U]
    BY <2>1, SubsetFinite, SumIsAny
  <2>3. CASE U = {}
    BY <2>1, <2>2, <2>3 DEF Adds
  <2>4. CASE U # {}
    <3> DEFINE V == U \ {Pick(U)}
    <3>1. V \in SUBSET U /\ IsFiniteSet(V)
      BY <2>2, SubsetFinite
    <3>2. Adds(f, V, [s \in SUBSET V |-> h[s]])
      BY <2>1, <3>1, AddsRestrict
    <3>3. SumOver(f, V) = h[V]
      BY <3>1, <3>2, SumIsAny
    <3>4. h[U] = f[Pick(U)] + h[V]
      BY <2>1, <2>4 DEF Adds
    <3>5. g[U] = f[Pick(U)] + SumOver(f, V)
      BY <2>4
    <3> QED BY <2>2, <3>3, <3>4, <3>5
  <2> QED BY <2>3, <2>4
<1>2. ASSUME NEW s \in SUBSET T
      PROVE  g[s] = IF s = {} THEN 0 ELSE f[Pick(s)] + g[s \ {Pick(s)}]
  <2>1. CASE s = {}
    BY <2>1
  <2>2. CASE s # {}
    <3>1. s \ {Pick(s)} \in SUBSET T /\ s \ {Pick(s)} # T
      BY <2>2, PickIn
    <3>2. SumOver(f, s \ {Pick(s)}) = g[s \ {Pick(s)}]
      BY <1>1, <3>1
    <3>3. g[s] = f[Pick(s)] + SumOver(f, s \ {Pick(s)})
      BY <2>2
    <3> QED BY <2>2, <3>2, <3>3
  <2> QED BY <2>1, <2>2
<1>3. Adds(f, T, g)
  BY <1>2 DEF Adds
<1> QED BY <1>3 DEF Addable

LEMMA AllAddable ==
    ASSUME NEW f, NEW S, IsFiniteSet(S)
    PROVE  Addable(f, S)
<1> DEFINE B == {s \in SUBSET S : ~Addable(f, s)}
<1>1. ASSUME B # {} PROVE FALSE
  <2>0. B \in SUBSET SUBSET S
    OBVIOUS
  <2>1. PICK T \in B : \A U \in SUBSET T : U # T => U \notin B
    <3> HIDE DEF B
    <3> QED BY <1>1, <2>0, MinimalSubset
  <2>2. \A U \in SUBSET T : U # T => Addable(f, U)
    BY <2>1
  <2>3. IsFiniteSet(T)
    BY <2>1, SubsetFinite
  <2> QED BY <2>1, <2>2, <2>3, AddableStep
<1> QED BY <1>1

(* The defining equation of a sum.                                         *)
LEMMA SumDef ==
    ASSUME NEW f, NEW S, IsFiniteSet(S)
    PROVE  /\ S = {} => SumOver(f, S) = 0
           /\ S # {} => SumOver(f, S) = f[Pick(S)] + SumOver(f, S \ {Pick(S)})
<1>1. PICK g : Adds(f, S, g)
  BY AllAddable DEF Addable
<1>2. SumOver(f, S) = g[S]
  BY <1>1, SumIsAny
<1> DEFINE V == S \ {Pick(S)}
<1>3. V \in SUBSET S /\ IsFiniteSet(V)
  BY SubsetFinite
<1>4. Adds(f, V, [s \in SUBSET V |-> g[s]])
  BY <1>1, <1>3, AddsRestrict
<1>5. SumOver(f, V) = g[V]
  BY <1>3, <1>4, SumIsAny
<1>6. g[S] = IF S = {} THEN 0 ELSE f[Pick(S)] + g[V]
  BY <1>1 DEF Adds
<1> QED BY <1>2, <1>5, <1>6

LEMMA SumInt ==
    ASSUME NEW f, NEW S, IsFiniteSet(S), \A x \in S : f[x] \in Int
    PROVE  SumOver(f, S) \in Int
<1> DEFINE B == {s \in SUBSET S : SumOver(f, s) \notin Int}
<1>1. ASSUME B # {} PROVE FALSE
  <2>0. B \in SUBSET SUBSET S
    OBVIOUS
  <2>1. PICK T \in B : \A U \in SUBSET T : U # T => U \notin B
    <3> HIDE DEF B
    <3> QED BY <1>1, <2>0, MinimalSubset
  <2>2. IsFiniteSet(T)
    BY <2>1, SubsetFinite
  <2>3. T # {}
    <3>1. T = {} => SumOver(f, T) = 0
      BY <2>2, SumDef
    <3> QED BY <2>1, <3>1
  <2>4. Pick(T) \in S /\ SumOver(f, T \ {Pick(T)}) \in Int
    BY <2>1, <2>3, PickIn
  <2> QED BY <2>1, <2>2, <2>3, <2>4, SumDef
<1> QED BY <1>1

(* Any element may be taken out first.                                     *)
LEMMA SumRemove ==
    ASSUME NEW f, NEW S, IsFiniteSet(S), \A x \in S : f[x] \in Int, NEW x \in S
    PROVE  SumOver(f, S) = f[x] + SumOver(f, S \ {x})
<1> DEFINE B == {s \in SUBSET S : \E y \in s : SumOver(f, s) # f[y] + SumOver(f, s \ {y})}
<1>1. ASSUME B # {} PROVE FALSE
  <2>0. B \in SUBSET SUBSET S
    OBVIOUS
  <2>1. PICK T \in B : \A U \in SUBSET T : U # T => U \notin B
    <3> HIDE DEF B
    <3> QED BY <1>1, <2>0, MinimalSubset
  <2>2. PICK y \in T : SumOver(f, T) # f[y] + SumOver(f, T \ {y})
    BY <2>1
  <2> DEFINE p == Pick(T)
  <2>3. p \in T /\ p # y /\ IsFiniteSet(T)
    <3>1. IsFiniteSet(T)
      BY <2>1, SubsetFinite
    <3> QED BY <2>2, <3>1, PickIn, SumDef
  <2>4. SumOver(f, T) = f[p] + SumOver(f, T \ {p})
    BY <2>2, <2>3, SumDef
  <2> HIDE DEF p
  <2>5. SumOver(f, T \ {p}) = f[y] + SumOver(f, (T \ {p}) \ {y})
    BY <2>1, <2>2, <2>3
  <2>6. SumOver(f, T \ {y}) = f[p] + SumOver(f, (T \ {y}) \ {p})
    BY <2>1, <2>2, <2>3
  <2>7. (T \ {p}) \ {y} = (T \ {y}) \ {p}
    OBVIOUS
  <2>8. f[p] \in Int /\ f[y] \in Int
    BY <2>1, <2>2, <2>3
  <2>9. SumOver(f, (T \ {y}) \ {p}) \in Int
    <3> DEFINE R == (T \ {y}) \ {p}
    <3>1. R \in SUBSET S /\ IsFiniteSet(R)
      BY <2>1, <2>3, SubsetFinite
    <3> HIDE DEF R
    <3>2. SumOver(f, R) \in Int
      BY <3>1, SumInt
    <3> QED BY <3>2 DEF R
  <2>10. \A a, b, r \in Int : a + (b + r) = b + (a + r)
    OBVIOUS
  <2>11. SumOver(f, T) = f[p] + (f[y] + SumOver(f, (T \ {y}) \ {p}))
    BY <2>4, <2>5, <2>7, Zenon
  <2>12. f[y] + SumOver(f, T \ {y}) = f[y] + (f[p] + SumOver(f, (T \ {y}) \ {p}))
    BY <2>6, Zenon
  <2> HIDE DEF B
  <2> QED BY <2>2, <2>8, <2>9, <2>10, <2>11, <2>12, Zenon
<1> QED BY <1>1

(* Only the summands matter.                                               *)
LEMMA SumSame ==
    ASSUME NEW f, NEW g, NEW S, IsFiniteSet(S), \A x \in S : f[x] = g[x]
    PROVE  SumOver(f, S) = SumOver(g, S)
<1> DEFINE B == {s \in SUBSET S : SumOver(f, s) # SumOver(g, s)}
<1>1. ASSUME B # {} PROVE FALSE
  <2>0. B \in SUBSET SUBSET S
    OBVIOUS
  <2>1. PICK T \in B : \A U \in SUBSET T : U # T => U \notin B
    <3> HIDE DEF B
    <3> QED BY <1>1, <2>0, MinimalSubset
  <2>2. IsFiniteSet(T)
    BY <2>1, SubsetFinite
  <2>3. T # {}
    BY <2>1, <2>2, SumDef
  <2>4. /\ f[Pick(T)] = g[Pick(T)]
        /\ SumOver(f, T \ {Pick(T)}) = SumOver(g, T \ {Pick(T)})
    BY <2>1, <2>3, PickIn
  <2>5. /\ SumOver(f, T) = f[Pick(T)] + SumOver(f, T \ {Pick(T)})
        /\ SumOver(g, T) = g[Pick(T)] + SumOver(g, T \ {Pick(T)})
    BY <2>2, <2>3, SumDef
  <2> QED BY <2>1, <2>4, <2>5
<1> QED BY <1>1

LEMMA SumNat ==
    ASSUME NEW f, NEW S, IsFiniteSet(S), \A x \in S : f[x] \in Nat
    PROVE  SumOver(f, S) \in Nat
<1> DEFINE B == {s \in SUBSET S : SumOver(f, s) \notin Nat}
<1>1. ASSUME B # {} PROVE FALSE
  <2>0. B \in SUBSET SUBSET S
    OBVIOUS
  <2>1. PICK T \in B : \A U \in SUBSET T : U # T => U \notin B
    <3> HIDE DEF B
    <3> QED BY <1>1, <2>0, MinimalSubset
  <2>2. IsFiniteSet(T)
    BY <2>1, SubsetFinite
  <2>3. T # {}
    <3>1. T = {} => SumOver(f, T) = 0
      BY <2>2, SumDef
    <3> QED BY <2>1, <3>1
  <2>4. Pick(T) \in S /\ SumOver(f, T \ {Pick(T)}) \in Nat
    BY <2>1, <2>3, PickIn
  <2> QED BY <2>1, <2>2, <2>3, <2>4, SumDef
<1> QED BY <1>1

LEMMA TotalInt ==
    ASSUME NEW f \in Tables
    PROVE  Total(f) \in Int
<1>1. \A u \in Users : f[u] \in Int
  BY DEF Tables
<1> QED BY <1>1, FiniteAssumption, SumInt DEF Total

(* One row changes: so does the total, by as much.                         *)
LEMMA TotalSet ==
    ASSUME NEW f \in Tables, NEW u \in Users, NEW v \in Int
    PROVE  /\ Total([f EXCEPT ![u] = v]) = (Total(f) - f[u]) + v
           /\ Total([f EXCEPT ![u] = v]) \in Int
           /\ Total(f) \in Int
           /\ f[u] \in Int
<1> DEFINE g == [f EXCEPT ![u] = v]
           R == Users \ {u}
<1>1. g \in Tables /\ g[u] = v /\ \A x \in R : f[x] = g[x]
  BY DEF Tables
<1>2. (\A x \in Users : f[x] \in Int) /\ (\A x \in Users : g[x] \in Int)
  <2> HIDE DEF g
  <2> QED BY <1>1 DEF Tables
<1>3. IsFiniteSet(Users) /\ IsFiniteSet(R) /\ R \in SUBSET Users
  BY FiniteAssumption, SubsetFinite
<1>4. Total(f) = f[u] + SumOver(f, R)
  BY <1>2, <1>3, SumRemove DEF Total
<1>5. Total(g) = v + SumOver(g, R)
  <2> HIDE DEF g
  <2>1. Total(g) = g[u] + SumOver(g, R)
    BY <1>2, <1>3, SumRemove DEF Total
  <2> QED BY <1>1, <2>1
<1> HIDE DEF g, R
<1>6. SumOver(f, R) = SumOver(g, R)
  BY <1>1, <1>3, SumSame
<1>7. SumOver(f, R) \in Int
  <2>1. \A x \in R : f[x] \in Int
    BY <1>2, <1>3
  <2> QED BY <1>3, <2>1, SumInt
<1>8. f[u] \in Int
  BY <1>2
<1>9. Total(g) = v + SumOver(f, R)
  BY <1>5, <1>6, Zenon
<1>10. Total(g) = (Total(f) - f[u]) + v /\ Total(g) \in Int /\ Total(f) \in Int
  BY <1>4, <1>7, <1>8, <1>9
<1> QED BY <1>8, <1>10 DEF g

(* A row is at most the total of a column without negative balances.       *)
LEMMA TotalAtLeast ==
    ASSUME NEW f \in Tables, \A u \in Users : f[u] \in Nat, NEW u \in Users
    PROVE  f[u] <= Total(f)
<1> DEFINE R == Users \ {u}
<1>1. IsFiniteSet(Users) /\ IsFiniteSet(R) /\ R \in SUBSET Users
  BY FiniteAssumption, SubsetFinite
<1>2. \A x \in Users : f[x] \in Int
  BY DEF Tables
<1>3. Total(f) = f[u] + SumOver(f, R)
  BY <1>1, <1>2, SumRemove DEF Total
<1>4. \A x \in R : f[x] \in Nat
  OBVIOUS
<1> HIDE DEF R
<1>5. SumOver(f, R) \in Nat
  BY <1>1, <1>4, SumNat
<1>6. f[u] \in Nat
  OBVIOUS
<1> QED BY <1>3, <1>5, <1>6

LEMMA OpeningTable == Opening \in Tables /\ \A u \in Users : Opening[u] \in Nat
BY WalletAssumption DEF Tables

-----------------------------------------------------------------------------
(* No failure makes points.                                                *)

(* What the session counts on after the transfer it is executing.          *)
Committed(c) == IF pc[c] = "settle" THEN point[c] - tx[c].amt ELSE point[c]

(* What keeps a sole instance from making points, whatever fails: also if  *)
(* the session's row held what the session counts on (a rollback, or the   *)
(* next debit, may put it there), the column would not exceed the opening  *)
(* total; and a credit is only written after its debit.                    *)
Backed(c) ==
    /\ ~overlap
    /\ pc[c] \in {"open", "write"} => snap[c] = db
    /\ \A u \in Users : db[u] >= -IntHalf
    /\ Total(db) <= Total(Opening)
    /\ session[c] # NoUser =>
          (Total(db) - db[session[c]]) + Committed(c) <= Total(Opening)
    /\ (Asking(c) /\ pc[c] # "menu") \/ stage[c] = "debit" \/ Crediting(c)
          => tx[c].pts = db[tx[c].to]
    /\ Crediting(c) => db[session[c]] <= point[c] - tx[c].amt

LEMMA BackedInit ==
    ASSUME NEW c \in Clients, Init
    PROVE  Backed(c)
<1>1. Total(Opening) \in Int
  BY OpeningTable, TotalInt
<1>2. \A u \in Users : Opening[u] >= -IntHalf
  BY WalletAssumption
<1> QED BY <1>1, <1>2 DEF Init, Backed, Asking, Crediting

LEMMA BackedUser ==
    ASSUME NEW c \in Clients, TypeOK, WellFormed(c), Backed(c), UserStep(c)
    PROVE  Backed(c)'
<1> USE DEF Backed, Asking, Crediting, WellFormed, TypeOK, file, locals, Committed
<1>0. /\ Total(db) \in Int /\ Total(Opening) \in Int
      /\ \A u \in Users : db[u] \in Int
  BY OpeningTable, TotalInt DEF Tables
<1>1. ASSUME NEW u \in Users, Login(c, u) PROVE Backed(c)'
  BY <1>0, <1>1 DEF Login
<1>2. ASSUME NEW u \in Users, ChooseReceiver(c, u) PROVE Backed(c)'
  BY <1>2 DEF ChooseReceiver
<1>3. ASSUME NEW n \in Amounts, EnterAmount(c, n) PROVE Backed(c)'
  <2>1. CASE Payable(c, n)
    <3>1. tx'[c].pts = tx[c].pts /\ tx'[c].to = tx[c].to
      BY <1>3, <2>1 DEF EnterAmount, Transfers
    <3> QED BY <1>3, <2>1, <3>1 DEF EnterAmount
  <2>2. CASE ~Payable(c, n)
    BY <1>3, <2>2 DEF EnterAmount, Abandon
  <2> QED BY <2>1, <2>2
<1>4. ASSUME Logout(c) \/ DeleteAccount(c) PROVE Backed(c)'
  BY <1>4 DEF Logout, DeleteAccount, EndSession
<1>5. ASSUME SaveProfile(c) PROVE Backed(c)'
  BY <1>5 DEF SaveProfile
<1>6. ASSUME Cancel(c) \/ OtpRefused(c) PROVE Backed(c)'
  BY <1>6 DEF Cancel, OtpRefused, Abandon
<1>7. ASSUME Confirm(c) \/ OtpVerified(c) PROVE Backed(c)'
  BY <1>7 DEF Confirm, OtpVerified
<1>8. ASSUME Quit(c) \/ Restart(c) PROVE Backed(c)'
  BY <1>8 DEF Quit, Restart
<1> QED BY <1>1, <1>2, <1>3, <1>4, <1>5, <1>6, <1>7, <1>8 DEF UserStep

(* Reducing a number to int never makes it larger, nor less than the least *)
(* int.                                                                    *)
LEMMA ToIntShrinks ==
    ASSUME NEW v \in Int, v >= -IntHalf
    PROVE  ToInt(v) \in Int /\ ToInt(v) <= v /\ ToInt(v) >= -IntHalf
<1> DEFINE m == 2 * IntHalf
           a == v + IntHalf
<1>1. IntHalf \in Nat /\ IntHalf > 0
  BY WalletAssumption
<1>2. a \in Nat /\ m \in Nat /\ m > 0
  BY <1>1
<1> HIDE DEF a, m
<1>3. a % m \in Nat /\ a % m <= a
  BY <1>2
<1> QED BY <1>1, <1>2, <1>3 DEF ToInt, a, m

(* What an update that is not disturbed writes, and what it cannot touch.  *)
LEMMA SoleWrite ==
    ASSUME NEW c, Clients = {c}, TypeOK, WellFormed(c), Backed(c), WriteTable(c)
    PROVE  /\ stage[c] = "profile" => db' = db
           /\ stage[c] # "profile" => db' = [db EXCEPT ![Row(c)] = ToInt(Requested(c))]
           /\ ~overlap'
<1>1. Writers = {c} /\ ~overlap /\ pc[c] = "write" /\ snap[c] = db
  BY DEF Writers, WriteTable, Backed
<1>2. db' = NewTable(c) /\ overlap' = overlap
  BY <1>1 DEF WriteTable
<1> QED BY <1>1, <1>2 DEF NewTable

LEMMA BackedWrite ==
    ASSUME NEW c, Clients = {c}, TypeOK, WellFormed(c), Backed(c), WriteTable(c)
    PROVE  Backed(c)'
<1> DEFINE s == session[c]
           r == tx[c].to
           n == tx[c].amt
           w == ToInt(Requested(c))
           T == Total(db)
           O == Total(Opening)
<1>1. /\ c \in Clients /\ pc[c] = "write" /\ ReturnOK(c)
      /\ stage[c] \in {"debit", "credit", "rollback", "profile"}
  BY DEF WriteTable, WellFormed, TypeOK, Stages
<1>2. /\ s \in Users /\ db \in Tables /\ db \in [Users -> Int]
      /\ point[c] \in Int /\ T \in Int /\ O \in Int
  BY <1>1, TotalInt, OpeningTable DEF WellFormed, TypeOK, Tables
<1>3. ~overlap'
  BY SoleWrite
<1>4. stage[c] # "profile" =>
         /\ r \in Users /\ r # s /\ n \in Nat /\ n > 0 /\ n <= point[c]
  BY <1>1, <1>2 DEF WellFormed, AmountFixed, Transferring, TypeOK
<1>5. T <= O /\ (T - db[s]) + point[c] <= O /\ \A u \in Users : db[u] >= -IntHalf
  BY <1>1, <1>2 DEF Backed, Committed, WellFormed
<1>6. CASE stage[c] = "profile"
  <2>1. db' = db /\ Abandon(c)
    BY <1>1, <1>6, SoleWrite DEF ReturnOK
  <2>2. /\ pc'[c] = "menu" /\ stage'[c] = "none" /\ session' = session
        /\ point' = point
    BY <1>1, <2>1 DEF Abandon, TypeOK
  <2> QED BY <1>2, <1>3, <1>5, <2>1, <2>2 DEF Backed, Committed, Asking, Crediting
<1>7. CASE stage[c] = "debit"
  <2>1. w \in Int /\ w <= point[c] - n /\ w >= -IntHalf
    <3>1. Requested(c) = point[c] - n /\ Requested(c) \in Int /\ Requested(c) >= 0
      BY <1>2, <1>4, <1>7 DEF Requested
    <3>2. Requested(c) >= -IntHalf
      BY <3>1, WalletAssumption
    <3> QED BY <3>1, <3>2, ToIntShrinks
  <2>2. db' = [db EXCEPT ![s] = w]
    BY <1>1, <1>7, SoleWrite DEF Row
  <2>3. /\ pc'[c] = "read" /\ stage'[c] = "credit"
        /\ session' = session /\ point' = point /\ tx' = tx
    BY <1>1, <1>7 DEF ReturnOK, TypeOK
  <2>4. tx[c].pts = db[r]
    BY <1>7 DEF Backed
  <2> HIDE DEF w
  <2>5. Total(db') = (T - db[s]) + w /\ Total(db') \in Int /\ db[s] \in Int
    BY <1>2, <2>1, <2>2, TotalSet
  <2>6. db'[s] = w /\ \A u \in Users : u # s => db'[u] = db[u]
    BY <1>2, <2>2
  <2>7. \A u \in Users : db'[u] >= -IntHalf
    BY <1>5, <2>1, <2>6
  <2> HIDE DEF T, O
  <2>8. Total(db') <= O /\ (Total(db') - w) + point[c] <= O
    BY <1>2, <1>4, <1>5, <1>7, <2>1, <2>5
  <2>9. tx[c].pts = db'[r]
    BY <1>4, <1>7, <2>4, <2>6
  <2> QED BY <1>3, <2>1, <2>3, <2>6, <2>7, <2>8, <2>9
          DEF Backed, Committed, Asking, Crediting, O
<1>8. CASE stage[c] = "credit"
  <2>1. w \in Int /\ w <= db[r] + n /\ w >= -IntHalf
    <3>1. Requested(c) = db[r] + n
      BY <1>1, <1>8 DEF Requested, Backed, Crediting
    <3>2. db[r] \in Int /\ db[r] >= -IntHalf
      BY <1>2, <1>4, <1>5, <1>8
    <3>3. Requested(c) \in Int /\ Requested(c) >= -IntHalf
      BY <1>4, <1>8, <3>1, <3>2, WalletAssumption
    <3> QED BY <3>1, <3>3, ToIntShrinks
  <2>2. db' = [db EXCEPT ![r] = w]
    BY <1>1, <1>8, SoleWrite DEF Row
  <2>3. /\ pc'[c] = "settle" /\ stage'[c] = "credit"
        /\ session' = session /\ point' = point /\ tx' = tx
    BY <1>1, <1>8 DEF ReturnOK, TypeOK
  <2>4. db[s] <= point[c] - n
    BY <1>1, <1>8 DEF Backed, Crediting
  <2> HIDE DEF w
  <2>5. Total(db') = (T - db[r]) + w /\ Total(db') \in Int /\ db[r] \in Int
    BY <1>2, <1>4, <1>8, <2>1, <2>2, TotalSet
  <2>6. db'[r] = w /\ \A u \in Users : u # r => db'[u] = db[u]
    BY <1>2, <1>4, <1>8, <2>2
  <2>7. \A u \in Users : db'[u] >= -IntHalf
    BY <1>5, <2>1, <2>6
  <2>8. db'[s] = db[s] /\ db[s] \in Int
    BY <1>2, <1>4, <1>8, <2>6
  <2> HIDE DEF T, O
  <2>9. Total(db') <= O /\ (Total(db') - db[s]) + (point[c] - n) <= O
    BY <1>2, <1>4, <1>5, <1>8, <2>1, <2>4, <2>5, <2>8
  <2> QED BY <1>3, <2>3, <2>7, <2>8, <2>9
          DEF Backed, Committed, Asking, Crediting, O
<1>9. CASE stage[c] = "rollback"
  <2>1. w \in Int /\ w <= point[c] /\ w >= -IntHalf
    <3>1. Requested(c) = point[c] /\ Requested(c) \in Int
      BY <1>2, <1>9 DEF Requested
    <3>2. Requested(c) >= -IntHalf
      BY <1>4, <1>9, <3>1, WalletAssumption
    <3> QED BY <3>1, <3>2, ToIntShrinks
  <2>2. db' = [db EXCEPT ![s] = w]
    BY <1>1, <1>9, SoleWrite DEF Row
  <2>3. /\ pc'[c] = "settle" /\ stage'[c] = "rollback"
        /\ session' = session /\ point' = point /\ tx' = tx
    BY <1>1, <1>9 DEF ReturnOK, TypeOK
  <2> HIDE DEF w
  <2>5. Total(db') = (T - db[s]) + w /\ Total(db') \in Int /\ db[s] \in Int
    BY <1>2, <2>1, <2>2, TotalSet
  <2>6. db'[s] = w /\ \A u \in Users : u # s => db'[u] = db[u]
    BY <1>2, <2>2
  <2>7. \A u \in Users : db'[u] >= -IntHalf
    BY <1>5, <2>1, <2>6
  <2> HIDE DEF T, O
  <2>8. Total(db') <= O /\ (Total(db') - w) + (point[c] - n) <= O
    BY <1>2, <1>4, <1>5, <1>9, <2>1, <2>5
  <2> QED BY <1>3, <2>3, <2>6, <2>7, <2>8
          DEF Backed, Committed, Asking, Crediting, O
<1> QED BY <1>1, <1>6, <1>7, <1>8, <1>9

LEMMA BackedProgram ==
    ASSUME NEW c, Clients = {c}, TypeOK, WellFormed(c), Backed(c), ProgramStep(c)
    PROVE  Backed(c)'
<1> c \in Clients
  OBVIOUS
<1>0. /\ Total(db) \in Int /\ Total(Opening) \in Int
      /\ \A u \in Users : db[u] \in Int
  BY OpeningTable, TotalInt DEF TypeOK, Tables
<1> USE DEF Asking, Crediting, TypeOK, file, locals, history, Committed
<1>1. ASSUME LoginAborts(c) PROVE Backed(c)'
  BY <1>1 DEF LoginAborts, Backed, WellFormed
<1>2. ASSUME ReadTable(c) PROVE Backed(c)'
  BY <1>2 DEF ReadTable, Backed
<1>3. ASSUME ReadFails(c) \/ OpenFails(c) \/ WriteFails(c) PROVE Backed(c)'
  <2>1. /\ pc[c] \in {"read", "open", "write"} /\ ReturnError(c)
        /\ db' = db /\ overlap' = overlap
    BY <1>3 DEF ReadFails, OpenFails, WriteFails
  <2>2. CASE Recovery(c) = "rollback"
    BY <2>1, <2>2 DEF ReturnError, Backed
  <2>3. CASE Recovery(c) # "rollback"
    BY <2>1, <2>3 DEF ReturnError, Backed, Abandon
  <2> QED BY <2>2, <2>3
<1>4. ASSUME OpenFile(c) PROVE Backed(c)'
  <2>1. Writers = {}
    BY <1>4 DEF OpenFile, Writers
  <2> QED BY <1>4, <2>1 DEF OpenFile, Backed
<1>5. ASSUME WriteTable(c) PROVE Backed(c)'
  BY <1>5, BackedWrite
<1>6. ASSUME Settle(c) PROVE Backed(c)'
  BY <1>6 DEF Settle, Remaining, Backed
<1> QED BY <1>1, <1>2, <1>3, <1>4, <1>5, <1>6 DEF ProgramStep

LEMMA BackedStep ==
    ASSUME NEW c, Clients = {c}, TypeOK, TransferWellFormed, Backed(c), [Next]_vars
    PROVE  Backed(c)'
<1>0. c \in Clients /\ WellFormed(c)
  BY DEF TransferWellFormed
<1>1. CASE UNCHANGED vars
  BY <1>1 DEF vars, file, locals, Backed, Asking, Crediting, Committed
<1>2. CASE UserStep(c)
  BY <1>0, <1>2, BackedUser
<1>3. CASE ProgramStep(c)
  BY <1>0, <1>3, BackedProgram
<1>4. CASE Crash(c)
  BY <1>0, <1>4 DEF Crash, Backed, Asking, Crediting, TypeOK, file
<1> QED BY <1>1, <1>2, <1>3, <1>4 DEF Next

(* A sole instance never makes points: whichever updates are refused, torn *)
(* or cut short by a crash, however often, and also when a balance leaves  *)
(* the range of int, the column never adds up to more than it did at first. *)
THEOREM NothingCreated ==
    ASSUME NEW c, Clients = {c}
    PROVE  Spec => []NoPointsCreated
<1>1. Init => TypeOK /\ TransferWellFormed /\ Backed(c)
  BY InitBasics, BackedInit
<1>2. TypeOK /\ TransferWellFormed /\ Backed(c) /\ [Next]_vars
         => (TypeOK /\ TransferWellFormed /\ Backed(c))'
  BY TypeStep, WellFormedStep, BackedStep
<1>3. Backed(c) => NoPointsCreated
  BY DEF Backed, NoPointsCreated
<1> QED BY <1>1, <1>2, <1>3, PTL DEF Spec

-----------------------------------------------------------------------------
(* Nothing leaves the range of int.                                        *)

(* A row and what the session counts on together are within the opening    *)
(* total, so that a credit of it fits.                                     *)
LEMMA CreditFits ==
    ASSUME NEW c \in Clients, TypeOK, WellFormed(c), Backed(c),
           \A u \in Users : db[u] \in Nat,
           NEW s \in Users, s = session[c], NEW r \in Users, r # s,
           pc[c] # "settle"
    PROVE  db[r] + point[c] <= Total(Opening)
<1> DEFINE R == Users \ {s}
           Q == R \ {r}
           P == [db EXCEPT ![s] = 0]
<1>1. db \in Tables /\ P \in Tables /\ Total(db) \in Int /\ Total(Opening) \in Int
      /\ point[c] \in Int
  BY OpeningTable, TotalInt DEF TypeOK, Tables
<1>2. P[r] = db[r] /\ \A u \in Users : P[u] \in Nat
  BY <1>1 DEF Tables
<1>3. Total(P) = (Total(db) - db[s]) + 0
  BY <1>1, TotalSet
<1>4. (Total(db) - db[s]) + point[c] <= Total(Opening)
  BY WalletAssumption DEF Backed, Committed
<1>5. P[r] <= Total(P)
  <2> HIDE DEF P
  <2> QED BY <1>1, <1>2, TotalAtLeast
<1>6. db[r] \in Int /\ db[s] \in Int
  OBVIOUS
<1> HIDE DEF P
<1> QED BY <1>1, <1>2, <1>3, <1>4, <1>5, <1>6

LEMMA FitsInt ==
    ASSUME NEW v \in Nat, v < IntHalf
    PROVE  ToInt(v) = v
<1> DEFINE m == 2 * IntHalf
           a == v + IntHalf
<1>1. IntHalf \in Nat /\ IntHalf > 0
  BY WalletAssumption
<1>2. a \in Nat /\ m \in Nat /\ a < m
  BY <1>1
<1> HIDE DEF a, m
<1>3. a % m = a
  BY <1>2
<1> QED BY <1>1, <1>3 DEF ToInt, a, m

LEMMA WrapStep ==
    ASSUME NEW c, Clients = {c}, Total(Opening) < IntHalf,
           TypeOK, TransferWellFormed, Funded, Backed(c), ~wrapped, [Next]_vars
    PROVE  ~wrapped'
<1>0. c \in Clients /\ WellFormed(c)
  BY DEF TransferWellFormed
<1>1. CASE UNCHANGED vars
  BY <1>1 DEF vars, history
<1>2. CASE WriteTable(c)
  <2>1. CASE stage[c] = "profile"
    BY <1>2, <2>1 DEF WriteTable
  <2>2. CASE stage[c] # "profile"
    <3> DEFINE s == session[c]
               r == tx[c].to
               n == tx[c].amt
    <3>1. pc[c] = "write" /\ stage[c] \in {"debit", "credit", "rollback"}
      BY <1>0, <1>2, <2>2 DEF WriteTable, WellFormed, TypeOK, Stages
    <3>2. /\ s \in Users /\ r \in Users /\ r # s /\ n \in Nat /\ n <= point[c]
          /\ point[c] \in Nat /\ \A u \in Users : db[u] \in Nat
          /\ Total(Opening) \in Int /\ IntHalf \in Nat
      BY <1>0, <3>1, OpeningTable, TotalInt, WalletAssumption
         DEF WellFormed, AmountFixed, Transferring, TypeOK, Funded
    <3>3. db[r] + point[c] <= Total(Opening)
      BY <1>0, <3>1, <3>2, CreditFits
    <3>4. stage[c] = "credit" => tx[c].pts = db[r]
      BY <3>1 DEF Backed, Crediting
    <3>5. db[r] \in Nat
      BY <3>2
    <3>6. Requested(c) \in Nat /\ Requested(c) < IntHalf
      <4>1. CASE stage[c] = "debit"
        BY <3>2, <3>3, <3>5, <4>1 DEF Requested
      <4>2. CASE stage[c] = "credit"
        BY <3>2, <3>3, <3>4, <3>5, <4>2 DEF Requested
      <4>3. CASE stage[c] = "rollback"
        BY <3>2, <3>3, <3>5, <4>3 DEF Requested
      <4> QED BY <3>1, <4>1, <4>2, <4>3
    <3>7. ToInt(Requested(c)) = Requested(c)
      BY <3>6, FitsInt
    <3> QED BY <1>2, <3>7 DEF WriteTable
  <2> QED BY <2>1, <2>2
<1>3. CASE ~WriteTable(c) /\ (UserStep(c) \/ ProgramStep(c) \/ Crash(c))
  BY <1>3 DEF history, UserStep, Login, ChooseReceiver, EnterAmount, Logout, DeleteAccount,
     EndSession, SaveProfile, Cancel, Confirm, OtpRefused, OtpVerified, Quit,
     Restart, ProgramStep, LoginAborts, ReadTable, ReadFails, OpenFile, OpenFails,
     WriteFails, Settle, Crash
<1> QED BY <1>1, <1>2, <1>3 DEF Next

(* While the opening total fits into an int, no update of a sole instance  *)
(* stores another number than it computed, whatever fails.                 *)
THEOREM NothingWraps ==
    ASSUME NEW c, Clients = {c}, Total(Opening) < IntHalf
    PROVE  Spec => [](~wrapped)
<1> DEFINE Inv == TypeOK /\ TransferWellFormed /\ Funded /\ Backed(c) /\ ~wrapped
<1>1. Init => Inv
  <2>1. ASSUME Init PROVE Funded
    BY <2>1, FundedInit
  <2> QED BY <2>1, InitBasics, BackedInit DEF Init
<1>2. Inv /\ [Next]_vars => Inv'
  BY TypeStep, WellFormedStep, FundedStep, BackedStep, WrapStep
<1>3. Inv => ~wrapped
  OBVIOUS
<1> HIDE DEF Inv
<1> QED BY <1>1, <1>2, <1>3, PTL DEF Spec

(* Then no balance is ever negative, whatever fails.                       *)
THEOREM NoDebt ==
    ASSUME NEW c, Clients = {c}, Total(Opening) < IntHalf
    PROVE  Spec => [](\A u \in Users : db[u] >= 0)
<1>1. NoOverdraft /\ ~wrapped => \A u \in Users : db[u] >= 0
  BY DEF NoOverdraft
<1> QED BY <1>1, NothingWraps, NeverOverdrawn, PTL

-----------------------------------------------------------------------------
(* Transfers and crashes conserve points.                                  *)

(* The sum, for one instance. It is the inductive form of PointsConserved  *)
(* together with Mirrors, which says what each update overwrites.          *)
Conserved(c) ==
    /\ lost \in Nat
    /\ Total(db) + InFlight(c) + lost = Total(Opening)

LEMMA InFlightOne ==
    ASSUME NEW c, Clients = {c}, InFlight(c) \in Int
    PROVE  InFlightTotal = InFlight(c)
<1> DEFINE f == [d \in Clients |-> InFlight(d)]
<1>1. IsFiniteSet(Clients) /\ Clients \ {c} = {} /\ IsFiniteSet({})
  BY FiniteAssumption, FS_EmptySet
<1>2. c \in Clients /\ f[c] = InFlight(c) /\ \A x \in Clients : f[x] \in Int
  OBVIOUS
<1> HIDE DEF f
<1>3. SumOver(f, Clients) = f[c] + SumOver(f, Clients \ {c})
  BY <1>1, <1>2, SumRemove
<1>4. SumOver(f, {}) = 0
  BY <1>1, SumDef
<1>5. SumOver(f, Clients) = InFlight(c) + 0
  BY <1>1, <1>2, <1>3, <1>4
<1> QED BY <1>5 DEF InFlightTotal, f

LEMMA ConservedStep ==
    ASSUME NEW c, Clients = {c}, Faults \subseteq {"crash"},
           TypeOK, TransferWellFormed, Mirrors(c), Conserved(c), [Next]_vars, ~wrapped'
    PROVE  Conserved(c)'
<1>0. /\ c \in Clients /\ WellFormed(c)
      /\ db \in Tables /\ db \in [Users -> Int]
      /\ tx[c].amt \in Nat /\ tx[c] \in Transfers /\ point[c] \in Int
      /\ lost \in Nat
      /\ Total(db) \in Int /\ Total(Opening) \in Int
  BY OpeningTable, TotalInt, TransferType DEF TransferWellFormed, TypeOK, Tables, Conserved
<1>1. CASE UNCHANGED vars
  BY <1>1 DEF vars, file, locals, history, Conserved, InFlight
<1>2. CASE WriteTable(c)
  <2> DEFINE s == session[c]
             r == tx[c].to
             n == tx[c].amt
  <2>1. /\ pc[c] = "write" /\ ReturnOK(c) /\ lost' = lost
        /\ stage[c] \in {"debit", "credit", "profile"}
    BY <1>0, <1>2, CleanWrite DEF WriteTable
  <2>2. s \in Users /\ stage[c] # "profile" => r \in Users /\ r # s
    BY <1>0, <2>1 DEF WellFormed, Transferring
  <2>3. CASE stage[c] = "profile"
    <3>1. db' = db /\ InFlight(c) = 0 /\ InFlight(c)' = 0
      BY <1>0, <1>2, <2>1, <2>3, CleanWrite DEF InFlight, ReturnOK, Abandon, TypeOK
    <3> QED BY <2>1, <3>1 DEF Conserved
  <2>4. CASE stage[c] = "debit"
    <3>1. /\ db' = [db EXCEPT ![s] = point[c] - n] /\ db[s] = point[c]
          /\ s \in Users
      BY <1>0, <1>2, <2>1, <2>4, CleanWrite DEF Mirrors, WellFormed, TypeOK
    <3>2. InFlight(c) = 0 /\ InFlight(c)' = n
      BY <1>0, <2>1, <2>4 DEF InFlight, ReturnOK, TypeOK
    <3>3. Total(db') = (Total(db) - db[s]) + (point[c] - n)
      <4> DEFINE v == point[c] - n
      <4>1. v \in Int /\ db' = [db EXCEPT ![s] = v]
        BY <1>0, <3>1
      <4> HIDE DEF v
      <4>2. Total([db EXCEPT ![s] = v]) = (Total(db) - db[s]) + v
        <5>1. db \in Tables /\ s \in Users
          BY <1>0, <3>1
        <5> QED BY <4>1, <5>1, TotalSet
      <4>3. Total(db') = (Total(db) - db[s]) + v
        BY <4>1, <4>2
      <4> QED BY <4>3 DEF v
    <3>4. Total(db') + n + lost = Total(db) + 0 + lost
      BY <1>0, <3>1, <3>3
    <3> QED BY <1>0, <2>1, <3>2, <3>4 DEF Conserved
  <2>5. CASE stage[c] = "credit"
    <3>1. /\ db' = [db EXCEPT ![r] = tx[c].pts + n] /\ tx[c].pts = db[r]
          /\ r \in Users
      BY <1>0, <1>2, <2>1, <2>5, CleanWrite DEF Mirrors, Crediting, WellFormed, Transferring
    <3>2. InFlight(c) = n /\ InFlight(c)' = 0
      BY <1>0, <2>1, <2>5 DEF InFlight, ReturnOK, TypeOK
    <3>3. db[r] \in Int /\ db[r] + n \in Int /\ db' = [db EXCEPT ![r] = db[r] + n]
      BY <1>0, <3>1
    <3>4. Total(db') = (Total(db) - db[r]) + (db[r] + n)
      <4> DEFINE v == db[r] + n
      <4>1. v \in Int /\ db' = [db EXCEPT ![r] = v]
        BY <3>3
      <4> HIDE DEF v
      <4>2. Total([db EXCEPT ![r] = v]) = (Total(db) - db[r]) + v
        <5>1. db \in Tables /\ r \in Users
          BY <1>0, <3>1
        <5> QED BY <4>1, <5>1, TotalSet
      <4>3. Total(db') = (Total(db) - db[r]) + v
        BY <4>1, <4>2
      <4> QED BY <4>3 DEF v
    <3>5. Total(db') + 0 + lost = Total(db) + n + lost
      BY <1>0, <3>3, <3>4
    <3> QED BY <1>0, <2>1, <3>2, <3>5 DEF Conserved
  <2> QED BY <2>1, <2>3, <2>4, <2>5
<1>3. CASE Crash(c)
  <2>1. db' = db /\ InFlight(c)' = 0 /\ lost' = lost + InFlight(c)
    BY <1>0, <1>3 DEF Crash, InFlight, TypeOK, file
  <2>2. InFlight(c) \in Nat
    BY <1>0 DEF InFlight
  <2> QED BY <1>0, <2>1, <2>2 DEF Conserved
<1>4. CASE UserStep(c)
  <2>1. db' = db /\ lost' = lost
    BY <1>4 DEF UserStep, Login, ChooseReceiver, EnterAmount, Logout, DeleteAccount,
       EndSession, SaveProfile, Cancel, Confirm, OtpRefused, OtpVerified, Quit,
       Restart, file, history
  <2>2. InFlight(c) = 0 /\ InFlight(c)' = 0
    BY <1>0, <1>4 DEF UserStep, Login, ChooseReceiver, EnterAmount, Logout,
       DeleteAccount, EndSession, SaveProfile, Cancel, Confirm, OtpRefused,
       OtpVerified, Quit, Restart, Abandon, InFlight, WellFormed, TypeOK
  <2> QED BY <2>1, <2>2 DEF Conserved
<1>5. CASE ProgramStep(c) /\ ~WriteTable(c)
  <2>1. db' = db /\ lost' = lost
    BY <1>5 DEF ProgramStep, LoginAborts, ReadTable, ReadFails, OpenFile, OpenFails,
       WriteFails, Settle, file, history
  <2>2. InFlight(c)' = InFlight(c)
    BY <1>0, <1>5 DEF ProgramStep, LoginAborts, ReadTable, ReadFails, OpenFile,
       OpenFails, WriteFails, Settle, InFlight, TypeOK, WellFormed, Mirrors,
       locals, file
  <2> QED BY <2>1, <2>2 DEF Conserved
<1> QED BY <1>1, <1>2, <1>3, <1>4, <1>5 DEF Next

(* A sole instance that no update is refused to conserves points, however  *)
(* often it crashes, as long as the opening total fits into an int and     *)
(* users.parquet can be read: what is then missing from the column is in   *)
(* flight or was in flight when a process died. A death inside an update   *)
(* ends the readable file, and with it what this theorem speaks of.        *)
THEOREM TransfersConserve ==
    ASSUME NEW c, Clients = {c}, Faults \subseteq {"crash"}, Total(Opening) < IntHalf
    PROVE  Spec => []PointsConserved
<1> DEFINE Inv == ~wrapped => Conserved(c)
<1>1. Init => Inv
  <2>1. ASSUME Init PROVE InFlight(c) = 0 /\ lost = 0 /\ db = Opening
    BY <2>1 DEF Init, InFlight
  <2>2. Total(Opening) \in Int
    BY OpeningTable, TotalInt
  <2> QED BY <2>1, <2>2 DEF Conserved
<1>2. Sole(c) /\ Inv /\ [Next]_vars => Inv'
  BY ConservedStep, WrappedStays DEF Sole
<1>3. Sole(c) /\ Inv /\ ~wrapped => PointsConserved
  <2>1. ASSUME TypeOK PROVE InFlight(c) \in Int
    BY <2>1, TransferType DEF InFlight, TypeOK
  <2>2. ASSUME TypeOK PROVE InFlightTotal = InFlight(c)
    BY <2>1, <2>2, InFlightOne
  <2> QED BY <2>2 DEF Sole, Conserved, PointsConserved
<1> HIDE DEF Inv
<1> QED BY <1>1, <1>2, <1>3, SoleInvariant, NothingWraps, PTL DEF Spec

-----------------------------------------------------------------------------
(* The theorems of SoleInstanceProofs, without their condition.            *)

(* While the opening total fits into an int, a sole instance that may      *)
(* crash at any step shows its user the balances of the file and announces *)
(* only transfers that both rows hold.                                     *)
THEOREM SoleInstanceHonest ==
    ASSUME NEW c, Clients = {c}, Faults \subseteq {"crash"}, Total(Opening) < IntHalf
    PROVE  Spec => [](SessionFresh /\ SuccessIsReal)
BY NothingWraps, SessionsFresh, SuccessesAreReal, PTL

(* While the opening total fits into an int, transferPoint without         *)
(* failures is the atomic transfer of Ledger.                              *)
THEOREM TransferIsAtomic ==
    ASSUME NEW c, Clients = {c}, Faults = {}, Total(Opening) < IntHalf
    PROVE  Spec => LedgerSpec
BY NothingWraps, ImplementsLedger, PTL

(* With crashes, a transfer is atomic, or a death between its two updates  *)
(* forfeits points of its own sender and of nobody else, or a death inside *)
(* an update empties users.parquet, and then all balances are gone.        *)
THEOREM TransferIsAtomicOrLoses ==
    ASSUME NEW c, Clients = {c}, Faults \subseteq {"crash"}, Total(Opening) < IntHalf
    PROVE  Spec => LossyLedgerSpec
BY NothingWraps, ImplementsLossyLedger, PTL
=============================================================================

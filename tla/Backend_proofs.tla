---------------------------- MODULE Backend_proofs ----------------------------
(***************************************************************************)
(* Theorems about Backend, for any number of clients, requests, failures   *)
(* and deaths, any page size and any payloads.                             *)
(***************************************************************************)
EXTENDS Backend, FiniteSetTheorems, TLAPS

USE NamesAssumption, LimitAssumption, BoundAssumption

-----------------------------------------------------------------------------
\* Ranks: where a row stands in a list

\* Rows as a list needs them: finitely many, in the order of their memos.
Listable(S) ==
  /\ IsFiniteSet(S)
  /\ \A x \in S : x.memo \in Int
  /\ \A x, y \in S : x.memo = y.memo => x = y

\* The rows of S up to x, in the order of the list.
UpTo(S, descending, x) ==
  {d \in S : IF descending THEN d.memo >= x.memo ELSE d.memo <= x.memo}

LEMMA RankBounds ==
  ASSUME NEW S, Listable(S), NEW descending \in BOOLEAN, NEW x \in S
  PROVE  Rank(S, descending, x) \in 1..Cardinality(S)
  <1>1. UpTo(S, descending, x) \subseteq S /\ x \in UpTo(S, descending, x)
    BY DEF Listable, UpTo
  <1>2. /\ IsFiniteSet(UpTo(S, descending, x))
        /\ Cardinality(UpTo(S, descending, x)) <= Cardinality(S)
        /\ Cardinality(UpTo(S, descending, x)) # 0
    BY <1>1, FS_Subset, FS_EmptySet DEF Listable
  <1> QED BY <1>2, FS_CardinalityType DEF Listable, Rank, UpTo

LEMMA RankApart ==
  ASSUME NEW S, Listable(S), NEW descending \in BOOLEAN, NEW x \in S, NEW y \in S,
         Rank(S, descending, x) = Rank(S, descending, y)
  PROVE  x = y
  <1> DEFINE X == UpTo(S, descending, x)
             Y == UpTo(S, descending, y)
  <1>1. X \subseteq S /\ Y \subseteq S /\ x \in X /\ y \in Y /\ (X \subseteq Y \/ Y \subseteq X)
    BY DEF Listable, UpTo
  <1>2. IsFiniteSet(X) /\ IsFiniteSet(Y) /\ Cardinality(X) = Cardinality(Y)
    BY <1>1, FS_Subset DEF Listable, Rank, UpTo
  <1>3. X = Y
    BY <1>1, <1>2, FS_Subset
  <1>4. x \in Y /\ y \in X
    BY <1>1, <1>3
  <1>5. x.memo = y.memo
    BY <1>4 DEF Listable, UpTo
  <1> QED BY <1>5 DEF Listable

\* A list that grows only pushes its rows back.
LEMMA RankGrows ==
  ASSUME NEW S, NEW T, IsFiniteSet(T), S \subseteq T, NEW descending, NEW x
  PROVE  /\ Rank(S, descending, x) \in Nat /\ Rank(T, descending, x) \in Nat
         /\ Rank(S, descending, x) <= Rank(T, descending, x)
  <1>1. UpTo(S, descending, x) \subseteq UpTo(T, descending, x)
    BY DEF UpTo
  <1>2. UpTo(T, descending, x) \subseteq T
    BY DEF UpTo
  <1>3. IsFiniteSet(UpTo(T, descending, x))
    BY <1>2, FS_Subset
  <1>4. /\ IsFiniteSet(UpTo(S, descending, x))
        /\ Cardinality(UpTo(S, descending, x)) <= Cardinality(UpTo(T, descending, x))
    BY <1>1, <1>3, FS_Subset
  <1> QED BY <1>3, <1>4, FS_CardinalityType DEF Rank, UpTo

\* There is a row at every place: as many places as rows, and no two rows at one.
LEMMA PlacesAreTaken ==
  ASSUME NEW S, Listable(S), NEW descending \in BOOLEAN,
         NEW k \in 1..Cardinality(S)
  PROVE  \E x \in S : Rank(S, descending, x) = k
  <1> DEFINE f == [x \in S |-> Rank(S, descending, x)]
             n == Cardinality(S)
  <1>1. n \in Nat
    BY FS_CardinalityType DEF Listable
  <1>2. f \in Injection(S, 1..n)
    BY RankBounds, RankApart DEF Injection, IsInjective
  <1>3. IsFiniteSet(1..n) /\ Cardinality(1..n) = n
    BY <1>1, FS_Interval
  <1> HIDE DEF f
  <1>4. f \in Surjection(S, 1..n)
    BY <1>2, <1>3, FS_Injection
  <1> QED BY <1>4 DEF Surjection, f

\* A page in the middle of the list is full.
LEMMA SliceIsFull ==
  ASSUME NEW S, Listable(S), NEW descending \in BOOLEAN, NEW k \in Nat,
         k + Limit <= Cardinality(S)
  PROVE  Cardinality(Slice(S, descending, k + 1, k + Limit)) = Limit
  <1> DEFINE T == Slice(S, descending, k + 1, k + Limit)
             f == [x \in T |-> Rank(S, descending, x)]
             P == (k + 1)..(k + Limit)
  <1>1. T \subseteq S /\ IsFiniteSet(T)
    BY FS_Subset DEF Slice, Listable
  <1>2. f \in [T -> P]
    BY DEF Slice
  <1>3. IsInjective(f)
    BY <1>1, RankApart DEF IsInjective
  <1>4. \A p \in P : \E x \in T : f[x] = p
    <2> TAKE p \in P
    <2>1. p \in 1..Cardinality(S)
      BY FS_CardinalityType DEF Listable
    <2>2. PICK x \in S : Rank(S, descending, x) = p
      BY <2>1, PlacesAreTaken
    <2> QED BY <2>2 DEF Slice
  <1>5. f \in Bijection(T, P)
    BY <1>2, <1>3, <1>4 DEF Bijection, Injection, Surjection
  <1>6. ExistsBijection(T, P)
    BY <1>5 DEF ExistsBijection
  <1>7. Cardinality(P) = Cardinality(T)
    BY <1>1, <1>6, FS_Bijection
  <1>8. Cardinality(P) = Limit
    BY FS_Interval
  <1> QED BY <1>7, <1>8

\* Rows that stand behind place k are as many as there are such places, at most.
LEMMA FewStandBehind ==
  ASSUME NEW S, Listable(S), NEW descending \in BOOLEAN, NEW k \in Nat,
         NEW M \in SUBSET S, \A x \in M : Rank(S, descending, x) > k
  PROVE  /\ IsFiniteSet(M) /\ Cardinality(M) \in Nat
         /\ M = {} \/ Cardinality(M) + k <= Cardinality(S)
  <1> DEFINE f == [x \in M |-> Rank(S, descending, x)]
             n == Cardinality(S)
  <1>1. n \in Nat /\ IsFiniteSet(M)
    BY FS_CardinalityType, FS_Subset DEF Listable
  <1>2. f \in [M -> (k + 1)..n]
    BY <1>1, RankBounds
  <1>3. IsInjective(f)
    BY RankApart DEF IsInjective
  <1>4. f \in Injection(M, (k + 1)..n)
    BY <1>2, <1>3 DEF Injection
  <1> HIDE DEF f, n
  <1>5. /\ IsFiniteSet((k + 1)..n)
        /\ Cardinality((k + 1)..n) = IF k + 1 > n THEN 0 ELSE n - (k + 1) + 1
    <2>1. n \in Int /\ k + 1 \in Int
      BY <1>1
    <2> QED BY <2>1, FS_Interval
  <1>6. Cardinality(M) <= Cardinality((k + 1)..n)
    BY <1>4, <1>5, FS_Injection
  <1>7. Cardinality(M) \in Nat /\ (Cardinality(M) = 0 <=> M = {})
    BY <1>1, FS_CardinalityType, FS_EmptySet
  <1> QED BY <1>1, <1>5, <1>6, <1>7 DEF n

-----------------------------------------------------------------------------
\* The state: rows and calls

LEMMA Types ==
  ASSUME TypeOK
  PROVE  /\ Running \subseteq Callers
         /\ \A c \in Callers : RowOf(c).by = c /\ RowOf(c).memo = calls[c].memo
         /\ \A c \in Callers : calls[c] # NoCall => RowOf(c) \in Rows
         /\ \A c \in Callers : calls[c].done => calls[c] # NoCall
         /\ Boot \in Callers /\ Clients = Callers \ {Boot}
  <1> DEFINE Known == [memo : Memos, payload : AllPayloads, done : BOOLEAN]
  <1>1. \A c \in Callers : calls[c] = NoCall \/ calls[c] \in Known
    BY DEF TypeOK
  <1>2. \A c \in Callers : RowOf(c).by = c /\ RowOf(c).memo = calls[c].memo
    BY DEF RowOf, Charge
  <1>3. \A c \in Callers : calls[c] \in Known => RowOf(c) \in Rows
    BY DEF RowOf, Charge, Rows
  <1>4. ~NoCall.done
    BY DEF NoCall
  <1>5. Boot \in Callers /\ Clients = Callers \ {Boot}
    BY DEF Callers
  <1> QED BY <1>1, <1>2, <1>3, <1>4, <1>5 DEF Running

LEMMA DrawnFinite ==
  ASSUME TypeOK
  PROVE  /\ Drawn \subseteq Rows
         /\ IsFiniteSet({RowOf(c) : c \in Running})
         /\ IsFiniteSet(Drawn)
  <1> DEFINE f == [c \in Running |-> RowOf(c)]
             R == {RowOf(c) : c \in Running}
  <1>1. IsFiniteSet(Running)
    <2>1. IsFiniteSet(Callers)
      BY FS_AddElement DEF Callers
    <2> QED BY <2>1, Types, FS_Subset
  <1>2. f \in Surjection(Running, R)
    BY DEF Surjection
  <1>3. IsFiniteSet(R)
    BY <1>1, <1>2, FS_Surjection
  <1>4. R \subseteq Rows
    BY Types DEF Running
  <1>5. IsFiniteSet(charges \cup orphans) /\ charges \subseteq Rows /\ orphans \subseteq Rows
    BY FS_Union DEF TypeOK
  <1>6. IsFiniteSet((charges \cup orphans) \cup R)
    BY <1>3, <1>5, FS_Union
  <1> QED BY <1>3, <1>4, <1>5, <1>6 DEF Drawn

LEMMA ChargesListable ==
  ASSUME TypeOK, MemosApart
  PROVE  Listable(charges)
  BY DEF TypeOK, MemosApart, Drawn, Rows, Memos, Listable

\* Charges that appear disturb no reader.
LEMMA ListKept ==
  ASSUME TypeOK, ListInStep, IsFiniteSet(charges'), charges \subseteq charges',
         UNCHANGED reader
  PROVE  ListInStep'
  <1>1. \A ch : /\ Rank(charges, newestFirst, ch) \in Nat
                /\ Rank(charges, newestFirst, ch)' \in Nat
                /\ Rank(charges, newestFirst, ch)' >= Rank(charges, newestFirst, ch)
    BY RankGrows DEF reader
  <1>2. page \in Nat /\ Limit \in Nat /\ Limit * (page - 1) \in Int /\ Limit * page \in Int
    BY DEF TypeOK
  <1> DEFINE r(ch) == Rank(charges, newestFirst, ch)
             a == Limit * (page - 1)
             b == Limit * page
  <1>3. a' = a /\ b' = b /\ Unread' = Unread
    BY DEF reader, Unread
  <1>4. \A ch : r(ch) \in Nat /\ r(ch)' \in Nat /\ r(ch)' >= r(ch)
    BY <1>1
  <1>5. ListInStep = /\ page = 0 => NotReading
                     /\ page > 0 => \A ch \in there \ got : r(ch) > a
                     /\ items # Unread => \A ch \in there \ (got \cup items) :
                          r(ch) > b /\ Cardinality(items) = Limit
                     /\ total # -1 => total >= Cardinality(there)
    BY DEF ListInStep
  <1>6. ListInStep' = /\ page' = 0 => NotReading'
                      /\ page' > 0 => \A ch \in there' \ got' : r(ch)' > a'
                      /\ items' # Unread' => \A ch \in there' \ (got' \cup items') :
                           r(ch)' > b' /\ Cardinality(items') = Limit
                      /\ total' # -1 => total' >= Cardinality(there')
    BY DEF ListInStep
  <1> HIDE DEF r, a, b
  <1>7. a \in Int /\ b \in Int
    BY <1>2 DEF a, b
  <1> HIDE DEF Unread
  <1>8. UNCHANGED <<page, items, total, got, there>> /\ NotReading' = NotReading
    BY <1>3 DEF reader, NotReading
  <1>9. \A ch : (r(ch) > a => r(ch)' > a') /\ (r(ch) > b => r(ch)' > b')
    BY <1>3, <1>4, <1>7
  <1> HIDE DEF NotReading, TypeOK, ListInStep
  <1> QED BY <1>3, <1>5, <1>6, <1>8, <1>9

-----------------------------------------------------------------------------
\* What the steps do to the rows

LEMMA InitInv == Init => BackendInv
  <1> SUFFICES ASSUME Init PROVE BackendInv
    OBVIOUS
  <1> USE DEF Init
  <1>1. IsFiniteSet({}) /\ Cardinality({}) = 0
    BY FS_EmptySet
  <1>2. Running = {} /\ \A c \in Callers : calls[c] = NoCall /\ ~calls[c].done
    BY DEF Running, NoCall
  <1>3. Drawn = {}
    BY <1>2 DEF Drawn
  <1>4. NotReading /\ Boot \in Callers
    BY DEF Callers
  <1>5. TypeOK
    <2>1. calls \in [Callers -> {NoCall} \cup
                     [memo : Memos, payload : AllPayloads, done : BOOLEAN]]
      OBVIOUS
    <2>2. newestFirst \in BOOLEAN /\ byTotal \in BOOLEAN
      BY <1>4 DEF NotReading
    <2>3. charges \subseteq Rows /\ orphans \subseteq Rows
          /\ IsFiniteSet(charges) /\ IsFiniteSet(orphans)
      BY <1>1
    <2>4. page \in Nat /\ items \in {Unread} /\ total \in {-1} /\ got = {} /\ there = {}
      BY <1>4 DEF NotReading
    <2>5. seeds \in 0..3 /\ nextMemo \in Nat \ {0} /\ asked \in 0..MaxRequests
          /\ failures \in 0..MaxFailures /\ deaths \in 0..MaxDeaths
      OBVIOUS
    <2> QED BY <2>1, <2>2, <2>3, <2>4, <2>5 DEF TypeOK
  <1>6. MemosApart /\ CallsInStep
    BY <1>2, <1>3, <1>4 DEF MemosApart, CallsInStep
  <1>7. SeedsInStep
    <2>1. ByBoot(Drawn) = {} /\ ByBoot(charges) = {}
      BY <1>3 DEF ByBoot
    <2> QED BY <1>1, <1>2, <1>4, <2>1 DEF SeedsInStep, SeedsDrawn
  <1>8. ListInStep
    BY <1>4 DEF ListInStep, NotReading
  <1> QED BY <1>5, <1>6, <1>7, <1>8 DEF BackendInv

\* A call that begins adds a row that there was not.
LEMMA DrawRow ==
  ASSUME BackendInv, NEW c \in Callers, NEW payload \in AllPayloads,
         calls[c] = NoCall, Draw(c, payload), UNCHANGED <<charges, orphans>>
  PROVE  LET row == Charge(nextMemo, payload, c)
         IN  /\ Drawn' = Drawn \cup {row} /\ row \notin Drawn
             /\ Rows \subseteq Rows' /\ row \in Rows' /\ row.by = c
             /\ MemosApart'
             /\ nextMemo' \in Nat \ {0}
             /\ calls' \in [Callers -> {NoCall} \cup
                            [memo : Memos', payload : AllPayloads, done : BOOLEAN]]
             /\ calls'[c] # NoCall /\ ~calls'[c].done
             /\ \A b \in Callers \ {c} : calls'[b] = calls[b]
             /\ \A b \in Callers : calls'[b].done => RowOf(b)' \in charges'
             /\ \A b \in Running' : RowOf(b)' \notin charges' \cup orphans'
  <1> DEFINE row == Charge(nextMemo, payload, c)
             Known == [memo : Memos, payload : AllPayloads, done : BOOLEAN]
             call == [memo |-> nextMemo, payload |-> payload, done |-> FALSE]
  <1>1. TypeOK /\ MemosApart /\ CallsInStep /\ nextMemo \in Nat \ {0}
    BY DEF BackendInv, TypeOK
  <1>2. nextMemo' = nextMemo + 1 /\ calls' = [calls EXCEPT ![c] = call]
    BY DEF Draw
  <1>3. Memos \subseteq Memos' /\ nextMemo \in Memos' /\ nextMemo \notin Memos
        /\ nextMemo # 0
    BY <1>1, <1>2 DEF Memos
  <1>4. Rows \subseteq Rows' /\ row \in Rows' /\ row.by = c /\ row.memo = nextMemo
    BY <1>3 DEF Rows, Charge
  <1>5. Drawn \subseteq Rows
    BY <1>1, DrawnFinite
  <1>6. row \notin Drawn /\ \A ch \in Drawn : ch.memo # row.memo
    BY <1>3, <1>4, <1>5 DEF Rows
  <1>7. calls \in [Callers -> {NoCall} \cup Known]
    BY <1>1 DEF TypeOK
  <1>8. calls'[c] = call /\ call # NoCall /\ ~call.done
        /\ \A b \in Callers \ {c} : calls'[b] = calls[b]
    BY <1>2, <1>3, <1>7 DEF NoCall
  <1>9. calls' \in [Callers -> {NoCall} \cup
                      [memo : Memos', payload : AllPayloads, done : BOOLEAN]]
    BY <1>2, <1>3, <1>7
  <1>10. RowOf(c)' = row /\ \A b \in Callers \ {c} : RowOf(b)' = RowOf(b)
    BY <1>8 DEF RowOf
  <1>11. Running' = Running \cup {c} /\ c \notin Running
    BY <1>8 DEF Running
  <1>12. {RowOf(b)' : b \in Running'} = {RowOf(b) : b \in Running} \cup {row}
    BY <1>10, <1>11, Types, <1>1
  <1>13. Drawn' = Drawn \cup {row}
    BY <1>12 DEF Drawn
  <1>14. MemosApart'
    BY <1>1, <1>6, <1>13 DEF MemosApart
  <1>15. \A b \in Callers : calls'[b].done => RowOf(b)' \in charges'
    BY <1>1, <1>8, <1>10 DEF CallsInStep
  <1>16. \A b \in Running' : RowOf(b)' \notin charges' \cup orphans'
    BY <1>1, <1>6, <1>10, <1>11, Types DEF CallsInStep, Drawn
  <1> QED BY <1>1, <1>2, <1>4, <1>6, <1>8, <1>9, <1>13, <1>14, <1>15, <1>16

\* A call that ends, with or without a row, leaves no row that there was not.
LEMMA EndCall ==
  ASSUME BackendInv, NEW c \in Callers, calls[c] # NoCall,
         calls' = [calls EXCEPT ![c] = NoCall],
         UNCHANGED <<charges, nextMemo>>,
         orphans' = orphans \/ (c \in Running /\ orphans' = orphans \cup {RowOf(c)})
  PROVE  /\ Drawn' \subseteq Drawn
         /\ \A ch \in Drawn : ch.by # c => ch \in Drawn'
         /\ IsFiniteSet(orphans') /\ orphans' \subseteq Rows'
         /\ MemosApart'
         /\ calls' \in [Callers -> {NoCall} \cup
                        [memo : Memos', payload : AllPayloads, done : BOOLEAN]]
         /\ calls'[c] = NoCall /\ ~NoCall.done
         /\ \A b \in Callers \ {c} : calls'[b] = calls[b]
         /\ \A b \in Callers : calls'[b].done => RowOf(b)' \in charges'
         /\ \A b \in Running' : RowOf(b)' \notin charges' \cup orphans'
  <1> DEFINE Known == [memo : Memos, payload : AllPayloads, done : BOOLEAN]
  <1>1. TypeOK /\ MemosApart /\ CallsInStep
    BY DEF BackendInv
  <1>2. calls \in [Callers -> {NoCall} \cup Known]
    BY <1>1 DEF TypeOK
  <1>3. Memos' = Memos /\ Rows' = Rows
    BY DEF Memos, Rows
  <1>4. calls'[c] = NoCall /\ ~NoCall.done /\ \A b \in Callers \ {c} : calls'[b] = calls[b]
    BY <1>2 DEF NoCall
  <1>5. calls' \in [Callers -> {NoCall} \cup
                      [memo : Memos', payload : AllPayloads, done : BOOLEAN]]
    BY <1>2, <1>3
  <1>6. \A b \in Callers \ {c} : RowOf(b)' = RowOf(b)
    BY <1>4 DEF RowOf
  <1>7. Running' = Running \ {c}
    BY <1>4 DEF Running
  <1>8. \A b \in Running' : b \in Running /\ b # c /\ RowOf(b)' = RowOf(b)
    BY <1>1, <1>6, <1>7, Types
  <1>9. {RowOf(b)' : b \in Running'} \subseteq {RowOf(b) : b \in Running}
    BY <1>8
  <1>10. Drawn' \subseteq Drawn
    BY <1>9 DEF Drawn
  <1>11. \A ch \in Drawn : ch.by # c => ch \in Drawn'
    <2> TAKE ch \in Drawn
    <2> HAVE ch.by # c
    <2>1. CASE ch \in charges \cup orphans
      BY <2>1 DEF Drawn
    <2>2. CASE ch \in {RowOf(b) : b \in Running}
      <3>1. PICK b \in Running : ch = RowOf(b)
        BY <2>2
      <3>2. b # c /\ b \in Running'
        BY <1>1, <1>7, <3>1, Types
      <3>3. ch \in {RowOf(d)' : d \in Running'}
        BY <1>8, <3>1, <3>2
      <3> QED BY <3>3 DEF Drawn
    <2> QED BY <2>1, <2>2 DEF Drawn
  <1>12. MemosApart'
    BY <1>1, <1>10 DEF MemosApart
  <1>13. \A b \in Callers : calls'[b].done => RowOf(b)' \in charges'
    BY <1>1, <1>4, <1>6 DEF CallsInStep
  <1>14. \A b \in Running' : RowOf(b)' \notin charges' \cup orphans'
    <2> TAKE b \in Running'
    <2>1. RowOf(b)' = RowOf(b) /\ RowOf(b) \notin charges \cup orphans
      BY <1>1, <1>8 DEF CallsInStep
    <2>2. RowOf(b) # RowOf(c)
      BY <1>1, <1>8, Types
    <2> QED BY <2>1, <2>2
  <1>15. IsFiniteSet(orphans') /\ orphans' \subseteq Rows'
    <2>1. IsFiniteSet(orphans) /\ orphans \subseteq Rows
      BY <1>1 DEF TypeOK
    <2>2. IsFiniteSet(orphans \cup {RowOf(c)})
      BY <2>1, FS_AddElement
    <2>3. RowOf(c) \in Rows
      BY <1>1, Types
    <2> QED BY <1>3, <2>1, <2>2, <2>3
  <1> QED BY <1>4, <1>5, <1>10, <1>11, <1>12, <1>13, <1>14, <1>15

LEMMA SeedCounts ==
  ASSUME TypeOK
  PROVE  /\ IsFiniteSet(ByBoot(Drawn)) /\ IsFiniteSet(ByBoot(charges))
         /\ Cardinality(ByBoot(Drawn)) \in Nat /\ Cardinality(ByBoot(charges)) \in Nat
         /\ Cardinality(ByBoot(charges)) <= Cardinality(ByBoot(Drawn))
         /\ SeedsDrawn \in Nat
  <1>1. IsFiniteSet(Drawn)
    BY DrawnFinite
  <1>2. ByBoot(charges) \subseteq ByBoot(Drawn) /\ ByBoot(Drawn) \subseteq Drawn
    BY DEF ByBoot, Drawn
  <1>3. IsFiniteSet(ByBoot(Drawn))
    BY <1>1, <1>2, FS_Subset
  <1>4. /\ IsFiniteSet(ByBoot(charges))
        /\ Cardinality(ByBoot(charges)) <= Cardinality(ByBoot(Drawn))
    BY <1>2, <1>3, FS_Subset
  <1>5. SeedsDrawn \in Nat
    BY DEF TypeOK, SeedsDrawn
  <1> QED BY <1>3, <1>4, <1>5, FS_CardinalityType

\* Steps that are none of main.ts add no charge of its own.
LEMMA SeedsKept ==
  ASSUME BackendInv, ByBoot(Drawn)' \subseteq ByBoot(Drawn),
         charges \subseteq charges', IsFiniteSet(charges'),
         calls'[Boot] = calls[Boot], UNCHANGED <<env, phase, seeds, deaths>>
  PROVE  SeedsInStep'
  <1>1. TypeOK /\ SeedsInStep
    BY DEF BackendInv
  <1>2. Cardinality(ByBoot(Drawn)') <= Cardinality(ByBoot(Drawn))
        /\ Cardinality(ByBoot(Drawn)') \in Nat
    BY <1>1, SeedCounts, FS_Subset, FS_CardinalityType
  <1>3. ByBoot(charges) \subseteq ByBoot(charges)' /\ IsFiniteSet(ByBoot(charges)')
    <2>1. ByBoot(charges)' \subseteq charges'
      BY DEF ByBoot
    <2> QED BY <2>1, FS_Subset DEF ByBoot
  <1>4. Cardinality(ByBoot(charges)') >= Cardinality(ByBoot(charges))
        /\ Cardinality(ByBoot(charges)') \in Nat
    BY <1>3, FS_Subset, FS_CardinalityType
  <1>5. SeedsDrawn' = SeedsDrawn
    BY DEF SeedsDrawn, NoCall
  <1>6. SeedsDrawn \in Nat /\ seeds \in Nat
        /\ Cardinality(ByBoot(Drawn)) \in Nat /\ Cardinality(ByBoot(charges)) \in Nat
    BY <1>1, SeedCounts DEF TypeOK
  <1>7. NoCall' = NoCall
    BY DEF NoCall
  <1> QED BY <1>1, <1>2, <1>4, <1>5, <1>6, <1>7 DEF SeedsInStep

-----------------------------------------------------------------------------
\* Starting

LEMMA StartInv == ASSUME BackendInv, Start PROVE BackendInv'
  <1> USE DEF Start, history, reader
  <1>1. TypeOK /\ MemosApart /\ CallsInStep /\ SeedsInStep /\ ListInStep
    BY DEF BackendInv
  <1>2. (\A c \in Callers : calls[c] = NoCall /\ ~calls[c].done) /\ NotReading /\ Boot \in Callers
    BY <1>1 DEF CallsInStep, NoCall, Callers
  <1>3. Running = {} /\ Running' = {}
    BY <1>2 DEF Running
  <1>4. Drawn = charges \cup orphans /\ Drawn' = charges' \cup orphans'
    BY <1>3 DEF Drawn
  <1>5. charges' \subseteq charges /\ Drawn' \subseteq Drawn /\ IsFiniteSet(charges')
    BY <1>1, <1>4, FS_EmptySet DEF TypeOK
  <1>6. charges' \subseteq Rows' /\ orphans' \subseteq Rows' /\ nextMemo' \in Nat \ {0}
    BY <1>1 DEF TypeOK, Rows, Memos
  <1>7. calls' \in [Callers -> {NoCall} \cup
                      [memo : Memos', payload : AllPayloads, done : BOOLEAN]]
    BY <1>1, <1>2 DEF TypeOK
  <1>8. TypeOK'
    BY <1>1, <1>2, <1>5, <1>6, <1>7 DEF TypeOK, NotReading, Unread, Charge
  <1>9. MemosApart'
    BY <1>1, <1>5 DEF MemosApart
  <1>10. CallsInStep'
    BY <1>2, <1>3 DEF CallsInStep
  <1>11. SeedsInStep'
    <2>1. ByBoot(Drawn)' \subseteq ByBoot(Drawn)
      BY <1>5 DEF ByBoot
    <2>2. Cardinality(ByBoot(Drawn)') <= Cardinality(ByBoot(Drawn))
      BY <1>1, <2>1, SeedCounts, FS_Subset
    <2>3. SeedsDrawn = IF env = "production" THEN 3 * deaths ELSE 3
      BY <1>1, <1>2 DEF SeedsInStep, SeedsDrawn, TypeOK
    <2>4. SeedsDrawn' = IF env = "production" THEN 3 * deaths ELSE 0
      BY <1>1, <1>2 DEF SeedsDrawn, TypeOK, NoCall
    <2>5. Cardinality(ByBoot(Drawn)') <= SeedsDrawn'
      <3>1. CASE DropsSchema
        <4>1. ByBoot(Drawn)' = {} /\ env # "production"
          BY <1>4, <3>1 DEF ByBoot, DropsSchema
        <4> QED BY <2>4, <4>1, FS_EmptySet
      <3>2. CASE ~DropsSchema
        <4>1. env = "production"
          BY <1>1, <3>2 DEF DropsSchema, TypeOK
        <4>2. Cardinality(ByBoot(Drawn)') \in Nat
          BY <1>1, <2>1, SeedCounts, FS_Subset, FS_CardinalityType
        <4> QED BY <1>1, <2>2, <2>3, <2>4, <4>1, <4>2, SeedCounts DEF SeedsInStep
      <3> QED BY <3>1, <3>2
    <2>6. Cardinality(ByBoot(charges)') \in Nat
      <3>1. ByBoot(charges)' \subseteq charges'
        BY DEF ByBoot
      <3> QED BY <1>5, <3>1, FS_Subset, FS_CardinalityType
    <2> QED BY <1>2, <2>5, <2>6 DEF SeedsInStep
  <1>12. ListInStep'
    BY <1>2 DEF ListInStep, NotReading, Unread
  <1>13. env = "production" => told' \subseteq charges'
    BY DEF BackendInv, DropsSchema
  <1> QED BY <1>8, <1>9, <1>10, <1>11, <1>12, <1>13 DEF BackendInv

LEMMA ListenInv == ASSUME BackendInv, Listen PROVE BackendInv'
  <1> USE DEF Listen, database, history, reader
  <1>1. Drawn' = Drawn /\ Running' = Running /\ Rows' = Rows /\ Memos' = Memos
    BY DEF Drawn, Running, RowOf, Rows, Memos
  <1>2. TypeOK'
    BY <1>1 DEF BackendInv, TypeOK, Unread
  <1>3. MemosApart' /\ CallsInStep'
    BY <1>1 DEF BackendInv, MemosApart, CallsInStep, RowOf, NotReading, Unread
  <1>4. SeedsInStep'
    BY <1>1 DEF BackendInv, SeedsInStep, SeedsDrawn, ByBoot
  <1>5. ListInStep'
    BY DEF BackendInv, ListInStep, NotReading, Unread
  <1> QED BY <1>2, <1>3, <1>4, <1>5 DEF BackendInv

\* The two steps that draw a row share all but the count of main.ts.
LEMMA DrawInv ==
  ASSUME BackendInv, NEW c \in Callers, NEW payload \in AllPayloads,
         calls[c] = NoCall, Draw(c, payload), phase # "down",
         asked' \in 0..MaxRequests,
         UNCHANGED <<env, phase, seeds, charges, orphans, failures, deaths, told, reader>>
  PROVE  /\ TypeOK' /\ MemosApart' /\ CallsInStep' /\ ListInStep'
         /\ env' = "production" => told' \subseteq charges'
  <1>1. TypeOK /\ CallsInStep /\ ListInStep
    BY DEF BackendInv
  <1>2. /\ Rows \subseteq Rows' /\ MemosApart' /\ nextMemo' \in Nat \ {0}
        /\ calls' \in [Callers -> {NoCall} \cup
                       [memo : Memos', payload : AllPayloads, done : BOOLEAN]]
        /\ \A b \in Callers : calls'[b].done => RowOf(b)' \in charges'
        /\ \A b \in Running' : RowOf(b)' \notin charges' \cup orphans'
    BY DrawRow
  <1>3. TypeOK'
    BY <1>1, <1>2 DEF TypeOK, reader, Unread
  <1>4. CallsInStep'
    BY <1>2 DEF CallsInStep
  <1>5. ListInStep'
    BY <1>1, ListKept DEF TypeOK
  <1>6. env' = "production" => told' \subseteq charges'
    BY DEF BackendInv
  <1> QED BY <1>2, <1>3, <1>4, <1>5, <1>6

LEMMA SeedInv == ASSUME BackendInv, Seed PROVE BackendInv'
  <1> DEFINE row == Charge(nextMemo, SeedPayloads[seeds + 1], Boot)
  <1>1. /\ phase = "booting" /\ seeds < 3 /\ calls[Boot] = NoCall
        /\ Draw(Boot, SeedPayloads[seeds + 1])
        /\ UNCHANGED <<env, phase, seeds, charges, orphans, asked, failures, deaths,
                       told, reader>>
    BY DEF Seed, history
  <1>2. TypeOK /\ SeedsInStep
    BY DEF BackendInv
  <1>3. seeds \in 0..2 /\ asked' \in 0..MaxRequests
    BY <1>1, <1>2 DEF TypeOK
  <1>4. SeedPayloads[seeds + 1] \in AllPayloads
    <2>1. seeds + 1 = 1 \/ seeds + 1 = 2 \/ seeds + 1 = 3
      BY <1>3
    <2> QED BY <2>1 DEF SeedPayloads, AllPayloads
  <1>5. Boot \in Callers
    BY DEF Callers
  <1>6. /\ TypeOK' /\ MemosApart' /\ CallsInStep' /\ ListInStep'
        /\ env' = "production" => told' \subseteq charges'
    BY <1>1, <1>3, <1>4, <1>5, DrawInv
  <1>7. /\ Drawn' = Drawn \cup {row} /\ row.by = Boot
        /\ calls'[Boot] # NoCall /\ ~calls'[Boot].done
    BY <1>1, <1>4, <1>5, DrawRow
  <1>8. PICK r : Drawn' = Drawn \cup {r} /\ r.by = Boot
    BY <1>7
  <1>9. Cardinality(ByBoot(Drawn)') <= Cardinality(ByBoot(Drawn)) + 1
        /\ Cardinality(ByBoot(Drawn)') \in Nat
    <2>1. ByBoot(Drawn)' = ByBoot(Drawn) \cup {r}
      BY <1>8 DEF ByBoot
    <2>2. IsFiniteSet(ByBoot(Drawn)) /\ Cardinality(ByBoot(Drawn)) \in Nat
      BY <1>2, SeedCounts
    <2>3. /\ IsFiniteSet(ByBoot(Drawn) \cup {r})
          /\ Cardinality(ByBoot(Drawn) \cup {r}) =
               IF r \in ByBoot(Drawn) THEN Cardinality(ByBoot(Drawn))
                                      ELSE Cardinality(ByBoot(Drawn)) + 1
      BY <2>2, FS_AddElement
    <2> QED BY <2>1, <2>2, <2>3
  <1>10. SeedsDrawn' = SeedsDrawn + 1
    BY <1>1, <1>2, <1>7 DEF SeedsDrawn, TypeOK, NoCall
  <1>11. ByBoot(charges)' = ByBoot(charges) /\ ~NoCall.done
    BY <1>1 DEF ByBoot, NoCall
  <1>12. SeedsInStep'
    BY <1>1, <1>2, <1>3, <1>7, <1>9, <1>10, <1>11, SeedCounts DEF SeedsInStep
  <1> QED BY <1>6, <1>12 DEF BackendInv

-----------------------------------------------------------------------------
\* Requests

LEMMA RequestInv == ASSUME BackendInv, NEW c \in Clients, Request(c) PROVE BackendInv'
  <1>1. PICK payload \in Payloads : Draw(c, payload)
    BY DEF Request, Admitted
  <1>2. /\ phase = "listening" /\ calls[c] = NoCall
        /\ asked < MaxRequests /\ asked' = asked + 1
        /\ UNCHANGED <<env, phase, seeds, charges, orphans, failures, deaths, told, reader>>
    BY DEF Request
  <1>3. TypeOK /\ c \in Callers /\ c # Boot /\ Boot \in Callers /\ payload \in AllPayloads
    BY DEF BackendInv, Callers, AllPayloads
  <1>4. asked' \in 0..MaxRequests
    BY <1>2, <1>3 DEF TypeOK
  <1>5. /\ TypeOK' /\ MemosApart' /\ CallsInStep' /\ ListInStep'
        /\ env' = "production" => told' \subseteq charges'
    BY <1>1, <1>2, <1>3, <1>4, DrawInv
  <1>6. /\ Drawn' = Drawn \cup {Charge(nextMemo, payload, c)}
        /\ Charge(nextMemo, payload, c).by = c
        /\ \A b \in Callers \ {c} : calls'[b] = calls[b]
    BY <1>1, <1>2, <1>3, DrawRow
  <1>7. ByBoot(Drawn)' \subseteq ByBoot(Drawn) /\ calls'[Boot] = calls[Boot]
    BY <1>3, <1>6 DEF ByBoot
  <1>8. SeedsInStep'
    BY <1>2, <1>3, <1>7, SeedsKept DEF TypeOK
  <1> QED BY <1>5, <1>8 DEF BackendInv

LEMMA InsertInv == ASSUME BackendInv, NEW c \in Callers, Insert(c) PROVE BackendInv'
  <1> DEFINE Known == [memo : Memos, payload : AllPayloads, done : BOOLEAN]
  <1> USE DEF Insert, history, reader
  <1>1. TypeOK /\ MemosApart /\ CallsInStep /\ SeedsInStep /\ ListInStep /\ c \in Running
    BY DEF BackendInv
  <1>2. calls \in [Callers -> {NoCall} \cup Known] /\ calls[c] \in Known /\ ~calls[c].done
    BY <1>1 DEF TypeOK, Running
  <1>3. /\ calls' \in [Callers -> {NoCall} \cup Known]
        /\ calls'[c].done /\ calls'[c] # NoCall
        /\ calls'[c].memo = calls[c].memo /\ calls'[c].payload = calls[c].payload
        /\ \A b \in Callers \ {c} : calls'[b] = calls[b]
    BY <1>2 DEF NoCall
  <1>4. (\A b \in Callers : RowOf(b)' = RowOf(b)) /\ Running' = Running \ {c}
    BY <1>3 DEF RowOf, Running
  <1>5. RowOf(c) \in Rows /\ RowOf(c) \notin charges \cup orphans /\ RowOf(c).by = c
    BY <1>1, Types DEF CallsInStep, Running
  <1>6. Memos' = Memos /\ Rows' = Rows
    BY DEF Memos, Rows
  <1>7. IsFiniteSet(charges')
    BY <1>1, FS_AddElement DEF TypeOK
  <1>8. TypeOK'
    BY <1>1, <1>3, <1>5, <1>6, <1>7 DEF TypeOK, Unread
  <1>9. Drawn' = Drawn
    BY <1>1, <1>4, Types DEF Drawn
  <1>10. MemosApart'
    BY <1>1, <1>9 DEF MemosApart
  <1>11. CallsInStep'
    <2>1. \A b \in Callers : calls'[b].done => RowOf(b)' \in charges'
      BY <1>1, <1>3, <1>4 DEF CallsInStep
    <2>2. \A b \in Running' : RowOf(b)' \notin charges' \cup orphans'
      BY <1>1, <1>4, Types DEF CallsInStep
    <2>3. phase' # "down"
      BY <1>1 DEF CallsInStep, Running
    <2> QED BY <2>1, <2>2, <2>3 DEF CallsInStep
  <1>12. SeedsInStep'
    <2>1. CASE c # Boot
      <3>1. calls'[Boot] = calls[Boot] /\ ByBoot(Drawn)' \subseteq ByBoot(Drawn)
        BY <1>3, <1>9, <2>1 DEF ByBoot, Callers
      <3> QED BY <1>7, <3>1, SeedsKept
    <2>2. CASE c = Boot
      <3>1. ByBoot(charges)' = ByBoot(charges) \cup {RowOf(c)}
        BY <1>5, <2>2 DEF ByBoot
      <3>2. Cardinality(ByBoot(charges)') = Cardinality(ByBoot(charges)) + 1
        <4>1. RowOf(c) \notin ByBoot(charges)
          BY <1>5 DEF ByBoot
        <4> QED BY <1>1, <3>1, <4>1, SeedCounts, FS_AddElement
      <3>3. calls[Boot] # NoCall /\ ~calls[Boot].done /\ calls'[Boot] # NoCall'
        BY <1>1, <1>3, <2>2 DEF Running, NoCall
      <3>4. SeedsDrawn' = SeedsDrawn /\ ByBoot(Drawn)' = ByBoot(Drawn)
        BY <1>9, <3>3 DEF SeedsDrawn, ByBoot
      <3>5. phase' = phase /\ seeds' = seeds /\ seeds \in Nat /\ seeds # 3
        BY <1>1, <3>3 DEF SeedsInStep, TypeOK
      <3> QED BY <1>1, <3>2, <3>3, <3>4, <3>5, SeedCounts DEF SeedsInStep
    <2> QED BY <2>1, <2>2
  <1>13. ListInStep'
    BY <1>1, <1>7, ListKept
  <1> QED BY <1>8, <1>10, <1>11, <1>12, <1>13 DEF BackendInv

\* What a call that ends has in common with the others that do.
LEMMA EndInv ==
  ASSUME BackendInv, NEW c \in Callers, calls[c] # NoCall,
         calls' = [calls EXCEPT ![c] = NoCall], failures' \in 0..MaxFailures,
         orphans' = orphans \/ (c \in Running /\ orphans' = orphans \cup {RowOf(c)}),
         seeds' \in 0..3,
         UNCHANGED <<env, phase, charges, nextMemo, asked, deaths, reader>>
  PROVE  TypeOK' /\ MemosApart' /\ CallsInStep' /\ ListInStep'
  <1>1. TypeOK /\ CallsInStep /\ ListInStep /\ IsFiniteSet(charges')
    BY DEF BackendInv, TypeOK
  <1>2. /\ IsFiniteSet(orphans') /\ orphans' \subseteq Rows' /\ MemosApart'
        /\ calls' \in [Callers -> {NoCall} \cup
                       [memo : Memos', payload : AllPayloads, done : BOOLEAN]]
        /\ \A b \in Callers : calls'[b].done => RowOf(b)' \in charges'
        /\ \A b \in Running' : RowOf(b)' \notin charges' \cup orphans'
    BY EndCall
  <1>3. Memos' = Memos /\ Rows' = Rows
    BY DEF Memos, Rows
  <1>4. TypeOK'
    BY <1>1, <1>2, <1>3 DEF TypeOK, reader, Unread
  <1>5. phase' # "down"
    BY <1>1 DEF CallsInStep
  <1>6. CallsInStep'
    BY <1>2, <1>5 DEF CallsInStep
  <1>7. ListInStep'
    BY <1>1, ListKept
  <1> QED BY <1>2, <1>4, <1>6, <1>7

\* A client's call that ends concerns no charge of main.ts.
LEMMA ClientEnds ==
  ASSUME BackendInv, NEW c \in Clients, calls[c] # NoCall,
         calls' = [calls EXCEPT ![c] = NoCall],
         orphans' = orphans \/ (c \in Running /\ orphans' = orphans \cup {RowOf(c)}),
         UNCHANGED <<env, phase, seeds, charges, nextMemo, deaths>>
  PROVE  SeedsInStep'
  <1>1. c \in Callers /\ c # Boot /\ Boot \in Callers /\ IsFiniteSet(charges')
    BY DEF BackendInv, TypeOK, Callers
  <1>2. Drawn' \subseteq Drawn /\ \A b \in Callers \ {c} : calls'[b] = calls[b]
    BY <1>1, EndCall
  <1>3. ByBoot(Drawn)' \subseteq ByBoot(Drawn) /\ calls'[Boot] = calls[Boot]
    BY <1>1, <1>2 DEF ByBoot
  <1> QED BY <1>1, <1>3, SeedsKept

LEMMA ReturnInv == ASSUME BackendInv, NEW c \in Callers, Return(c) PROVE BackendInv'
  <1> USE DEF Return, database
  <1>1. TypeOK /\ CallsInStep /\ SeedsInStep /\ seeds \in 0..3 /\ failures' \in 0..MaxFailures
    BY DEF BackendInv, TypeOK
  <1>2. calls[c].done /\ calls[c] # NoCall /\ RowOf(c) \in charges
    BY <1>1, Types DEF CallsInStep
  <1>3. c = Boot => seeds < 3 /\ phase = "booting"
    BY <1>1, <1>2 DEF SeedsInStep, CallsInStep, TypeOK
  <1>4. seeds' \in 0..3
    BY <1>1, <1>3
  <1>5. TypeOK' /\ MemosApart' /\ CallsInStep' /\ ListInStep'
    BY <1>1, <1>2, <1>4, EndInv
  <1>6. SeedsInStep'
    <2>1. CASE c # Boot
      <3>1. c \in Clients
        BY <2>1 DEF Callers
      <3> QED BY <1>2, <2>1, <3>1, ClientEnds
    <2>2. CASE c = Boot
      <3>1. seeds' = seeds + 1 /\ ~NoCall.done /\ NoCall' = NoCall
        BY <2>2 DEF NoCall
      <3>2. Drawn' \subseteq Drawn /\ calls'[Boot] = NoCall
        BY <1>2, <2>2, EndCall
      <3>3. ByBoot(Drawn)' \subseteq ByBoot(Drawn) /\ ByBoot(charges)' = ByBoot(charges)
        BY <3>2 DEF ByBoot
      <3>4. /\ Cardinality(ByBoot(Drawn)') <= Cardinality(ByBoot(Drawn))
            /\ Cardinality(ByBoot(Drawn)') \in Nat
        BY <1>1, <3>3, SeedCounts, FS_Subset, FS_CardinalityType
      <3>5. SeedsDrawn' = SeedsDrawn
        BY <1>1, <1>2, <2>2, <3>1, <3>2 DEF SeedsDrawn, TypeOK
      <3> QED BY <1>1, <1>2, <1>3, <2>2, <3>1, <3>2, <3>3, <3>4, <3>5, SeedCounts
              DEF SeedsInStep
    <2> QED BY <2>1, <2>2
  <1>7. env' = "production" => told' \subseteq charges'
    BY <1>2 DEF BackendInv
  <1> QED BY <1>5, <1>6, <1>7 DEF BackendInv

LEMMA TooLongInv == ASSUME BackendInv, NEW c \in Clients, TooLong(c) PROVE BackendInv'
  <1> USE DEF TooLong, database, history
  <1>1. c \in Callers /\ seeds' \in 0..3 /\ failures' \in 0..MaxFailures
    BY DEF BackendInv, TypeOK, Callers
  <1>2. TypeOK' /\ MemosApart' /\ CallsInStep' /\ ListInStep'
    BY <1>1, EndInv
  <1>3. SeedsInStep'
    BY ClientEnds
  <1> QED BY <1>2, <1>3 DEF BackendInv

LEMMA RequestFailsInv ==
  ASSUME BackendInv, NEW c \in Clients, RequestFails(c)
  PROVE  BackendInv'
  <1> USE DEF RequestFails
  <1>1. c \in Callers /\ seeds' \in 0..3 /\ failures' \in 0..MaxFailures
    BY DEF BackendInv, TypeOK, Callers
  <1>2. orphans' = orphans \/ (c \in Running /\ orphans' = orphans \cup {RowOf(c)})
    <2>1. CASE c \in Running
      <3>1. {RowOf(b) : b \in {c} \cap Running} = {RowOf(c)}
        BY <2>1
      <3> QED BY <2>1, <3>1
    <2>2. CASE c \notin Running
      <3>1. orphans \cup {RowOf(b) : b \in {c} \cap Running} = orphans
        BY <2>2
      <3> QED BY <3>1
    <2> QED BY <2>1, <2>2
  <1>3. TypeOK' /\ MemosApart' /\ CallsInStep' /\ ListInStep'
    BY <1>1, <1>2, EndInv
  <1>4. SeedsInStep'
    BY <1>2, ClientEnds
  <1> QED BY <1>3, <1>4 DEF BackendInv

-----------------------------------------------------------------------------
\* Deaths

LEMMA DieInv == ASSUME BackendInv, Die PROVE BackendInv'
  <1> USE DEF Die, ProcessEnds
  <1>1. TypeOK /\ MemosApart /\ SeedsInStep
    BY DEF BackendInv
  <1>2. /\ \A c \in Callers : calls'[c] = NoCall /\ ~calls'[c].done
        /\ NotReading' /\ Boot \in Callers /\ NoCall' = NoCall /\ ~NoCall.done
    BY DEF StopReading, NotReading, NoCall, Callers, Unread
  <1>3. Running' = {}
    BY <1>2 DEF Running
  <1>4. Drawn' = Drawn
    BY <1>3 DEF Drawn
  <1>5. IsFiniteSet(orphans') /\ orphans' \subseteq Rows' /\ Rows' = Rows
    <2>1. IsFiniteSet({RowOf(c) : c \in Running}) /\ Drawn \subseteq Rows /\ Rows' = Rows
      BY <1>1, DrawnFinite DEF Rows, Memos
    <2>2. IsFiniteSet(orphans)
      BY <1>1 DEF TypeOK
    <2> QED BY <2>1, <2>2, FS_Union DEF Drawn
  <1>6. TypeOK'
    <2>1. calls' \in [Callers -> {NoCall} \cup
                      [memo : Memos', payload : AllPayloads, done : BOOLEAN]]
      OBVIOUS
    <2>2. charges' \subseteq Rows' /\ IsFiniteSet(charges') /\ nextMemo' \in Nat \ {0}
      BY <1>1, <1>5 DEF TypeOK
    <2>3. deaths' \in 0..MaxDeaths /\ asked' \in 0..MaxRequests
          /\ failures' \in 0..MaxFailures /\ seeds' \in 0..3
      BY <1>1 DEF TypeOK
    <2>4. /\ page' \in Nat /\ newestFirst' \in BOOLEAN /\ byTotal' \in BOOLEAN
          /\ items' \in {Unread'} /\ total' \in {-1} /\ got' = {} /\ there' = {}
      BY <1>2 DEF NotReading
    <2>5. env' \in {"production", "development"} /\ phase' \in {"down", "booting", "listening"}
      BY <1>1 DEF TypeOK
    <2> QED BY <1>5, <2>1, <2>2, <2>3, <2>4, <2>5 DEF TypeOK
  <1>7. MemosApart'
    BY <1>1, <1>4 DEF MemosApart
  <1>8. CallsInStep'
    BY <1>2, <1>3 DEF CallsInStep
  <1>9. SeedsInStep'
    <2>1. ByBoot(Drawn)' = ByBoot(Drawn) /\ ByBoot(charges)' = ByBoot(charges)
      BY <1>4 DEF ByBoot
    <2>2. SeedsDrawn <= SeedsDrawn' /\ SeedsDrawn' \in Nat
      BY <1>1, <1>2 DEF SeedsDrawn, SeedsInStep, TypeOK
    <2> QED BY <1>1, <1>2, <2>1, <2>2, SeedCounts DEF SeedsInStep
  <1>10. ListInStep'
    BY <1>2 DEF ListInStep, NotReading
  <1>11. env' = "production" => told' \subseteq charges'
    BY DEF BackendInv
  <1> QED BY <1>6, <1>7, <1>8, <1>9, <1>10, <1>11 DEF BackendInv

LEMMA OrphanEndsInv == ASSUME BackendInv, OrphanEnds PROVE BackendInv'
  <1>1. TypeOK /\ MemosApart /\ CallsInStep /\ SeedsInStep /\ ListInStep
    BY DEF BackendInv
  <1>2. PICK o \in orphans :
          /\ orphans' = orphans \ {o}
          /\ charges' = charges \cup {o} \/ charges' = charges
    BY DEF OrphanEnds
  <1>3. UNCHANGED <<env, phase, seeds, calls, nextMemo, asked, failures, deaths, told, reader>>
    BY DEF OrphanEnds, process, history
  <1>4. Running' = Running /\ (\A c : RowOf(c)' = RowOf(c)) /\ Rows' = Rows /\ Memos' = Memos
    BY <1>3 DEF Running, RowOf, NoCall, Rows, Memos
  <1>5. Drawn' \subseteq Drawn /\ charges' \cup orphans' \subseteq charges \cup orphans
    BY <1>2, <1>4 DEF Drawn
  <1>6. IsFiniteSet(charges') /\ IsFiniteSet(orphans') /\ charges \subseteq charges'
    BY <1>1, <1>2, FS_AddElement, FS_RemoveElement DEF TypeOK
  <1>7. TypeOK'
    <2>1. charges' \subseteq Rows' /\ orphans' \subseteq Rows'
      BY <1>1, <1>4, <1>5 DEF TypeOK
    <2> QED BY <1>1, <1>3, <1>4, <1>6, <2>1 DEF TypeOK, reader, Unread
  <1>8. MemosApart'
    BY <1>1, <1>5 DEF MemosApart
  <1>9. CallsInStep'
    BY <1>1, <1>3, <1>4, <1>5, <1>6 DEF CallsInStep, reader, NotReading, Unread
  <1>10. SeedsInStep'
    <2>1. ByBoot(Drawn)' \subseteq ByBoot(Drawn)
      BY <1>5 DEF ByBoot
    <2> QED BY <1>3, <1>6, <2>1, SeedsKept
  <1>11. ListInStep'
    BY <1>1, <1>3, <1>6, ListKept
  <1>12. env' = "production" => told' \subseteq charges'
    BY <1>3, <1>6 DEF BackendInv
  <1> QED BY <1>7, <1>8, <1>9, <1>10, <1>11, <1>12 DEF BackendInv

-----------------------------------------------------------------------------
\* The list

\* A reader's step leaves the rest as it is.
LEMMA ReaderStep ==
  ASSUME BackendInv, UNCHANGED <<process, database, history>>,
         page' \in Nat, newestFirst' \in BOOLEAN, byTotal' \in BOOLEAN,
         items' = Unread \/ items' \subseteq charges, total' \in Nat \cup {-1},
         got' \subseteq charges, there' \subseteq charges,
         phase = "down" => NotReading', ListInStep'
  PROVE  BackendInv'
  <1> USE DEF process, database, history
  <1>1. Drawn' = Drawn /\ Running' = Running /\ Rows' = Rows /\ Memos' = Memos
    BY DEF Drawn, Running, RowOf, Rows, Memos
  <1>2. TypeOK'
    BY <1>1 DEF BackendInv, TypeOK, Unread
  <1>3. MemosApart' /\ CallsInStep'
    BY <1>1 DEF BackendInv, MemosApart, CallsInStep, RowOf
  <1>4. SeedsInStep'
    BY <1>1 DEF BackendInv, SeedsInStep, SeedsDrawn, ByBoot
  <1> QED BY <1>2, <1>3, <1>4 DEF BackendInv

LEMMA OpenListInv == ASSUME BackendInv, OpenList PROVE BackendInv'
  <1> USE DEF OpenList
  <1>1. TypeOK /\ MemosApart /\ NotReading
    BY DEF BackendInv, ListInStep
  <1>2. Limit * (page' - 1) = 0
    OBVIOUS
  <1>3. \A ch \in charges : Rank(charges, newestFirst', ch) > 0
    BY <1>1, ChargesListable, RankBounds
  <1>4. ListInStep'
    BY <1>1, <1>2, <1>3 DEF ListInStep, NotReading, Unread, database
  <1> QED BY <1>1, <1>4, ReaderStep DEF NotReading

LEMMA ReadItemsInv == ASSUME BackendInv, ReadItems PROVE BackendInv'
  <1> USE DEF ReadItems
  <1> DEFINE r(ch) == Rank(charges, newestFirst, ch)
             k == Limit * (page - 1)
  <1>1. TypeOK /\ MemosApart /\ ListInStep /\ CallsInStep
    BY DEF BackendInv
  <1>2. k \in Nat /\ Limit * page = k + Limit /\ Limit \in Nat
    BY <1>1 DEF TypeOK
  <1>3. Listable(charges) /\ newestFirst \in BOOLEAN
    BY <1>1, ChargesListable DEF TypeOK
  <1>4. items' = Slice(charges, newestFirst, k + 1, k + Limit) /\ items' \subseteq charges
    BY <1>2 DEF PageOf, Slice
  <1>5. \A ch \in charges : r(ch) \in 1..Cardinality(charges)
    BY <1>3, RankBounds
  <1>6. \A ch \in there \ (got \cup items') : r(ch) > k + Limit
    <2> TAKE ch \in there \ (got \cup items')
    <2>1. ch \in charges /\ r(ch) > k
      BY <1>1 DEF TypeOK, ListInStep
    <2>2. r(ch) \notin (k + 1)..(k + Limit)
      BY <1>4, <2>1 DEF Slice
    <2> QED BY <1>2, <1>5, <2>1, <2>2
  <1>7. there \ (got \cup items') # {} => Cardinality(items') = Limit
    <2>1. ASSUME NEW ch \in there \ (got \cup items')
          PROVE  k + Limit <= Cardinality(charges)
      <3>1. ch \in charges
        BY <1>1 DEF TypeOK
      <3>2. Cardinality(charges) \in Nat
        BY <1>3, FS_CardinalityType DEF Listable
      <3> QED BY <1>2, <1>5, <1>6, <3>1, <3>2
    <2> QED BY <1>2, <1>3, <1>4, <2>1, SliceIsFull
  <1>8. ListInStep'
    <2>1. UNCHANGED <<charges, page, newestFirst, total, got, there>> /\ page > 0
      BY DEF database
    <2> QED BY <1>1, <1>2, <1>6, <1>7, <2>1 DEF ListInStep
  <1>9. newestFirst' \in BOOLEAN /\ byTotal' \in BOOLEAN
    BY <1>1 DEF TypeOK
  <1>10. phase # "down"
    BY <1>1 DEF CallsInStep, NotReading
  <1>11. /\ page' \in Nat /\ (items' = Unread \/ items' \subseteq charges)
        /\ total' \in Nat \cup {-1} /\ got' \subseteq charges /\ there' \subseteq charges
    BY <1>1, <1>4 DEF TypeOK
  <1> QED BY <1>8, <1>9, <1>10, <1>11, ReaderStep

LEMMA ReadTotalInv == ASSUME BackendInv, ReadTotal PROVE BackendInv'
  <1> USE DEF ReadTotal
  <1>1. TypeOK /\ ListInStep /\ CallsInStep
    BY DEF BackendInv
  <1>2. total' \in Nat /\ total' >= Cardinality(there)
    BY <1>1, FS_Subset, FS_CardinalityType DEF TypeOK
  <1>3. ListInStep'
    <2>1. UNCHANGED <<charges, page, newestFirst, items, got, there>> /\ page > 0
      BY DEF database
    <2> QED BY <1>1, <1>2, <2>1 DEF ListInStep, Unread
  <1>4. newestFirst' \in BOOLEAN /\ byTotal' \in BOOLEAN
    BY <1>1 DEF TypeOK
  <1>5. phase # "down"
    BY <1>1 DEF CallsInStep, NotReading
  <1>6. /\ page' \in Nat /\ (items' = Unread \/ items' \subseteq charges)
        /\ total' \in Nat \cup {-1} /\ got' \subseteq charges /\ there' \subseteq charges
    BY <1>1, <1>2 DEF TypeOK
  <1> QED BY <1>3, <1>4, <1>5, <1>6, ReaderStep

LEMMA TurnPageInv == ASSUME BackendInv, TurnPage PROVE BackendInv'
  <1> USE DEF TurnPage, Answered
  <1>1. TypeOK /\ ListInStep /\ CallsInStep
    BY DEF BackendInv
  <1>2. items \subseteq charges /\ page' - 1 = page /\ page' > 0 /\ page' \in Nat
    BY <1>1 DEF TypeOK
  <1>3. ListInStep'
    <2>1. UNCHANGED <<charges, newestFirst, there>> /\ Unread' = Unread
      BY DEF database, Unread
    <2> QED BY <1>1, <1>2, <2>1 DEF ListInStep
  <1>4. newestFirst' \in BOOLEAN /\ byTotal' \in BOOLEAN
    BY <1>1 DEF TypeOK
  <1>5. phase # "down"
    BY <1>1 DEF CallsInStep, NotReading
  <1>6. /\ page' \in Nat /\ (items' = Unread \/ items' \subseteq charges)
        /\ total' \in Nat \cup {-1} /\ got' \subseteq charges /\ there' \subseteq charges
    BY <1>1, <1>2 DEF TypeOK
  <1> QED BY <1>3, <1>4, <1>5, <1>6, ReaderStep

LEMMA CloseListInv == ASSUME BackendInv, CloseList PROVE BackendInv'
  <1> USE DEF CloseList, StopReading
  <1>1. NotReading'
    BY DEF NotReading, Unread
  <1>2. ListInStep'
    BY <1>1 DEF ListInStep, NotReading
  <1>3. newestFirst' \in BOOLEAN /\ byTotal' \in BOOLEAN
    BY <1>1 DEF NotReading
  <1>4. /\ page' \in Nat /\ items' = Unread /\ total' \in Nat \cup {-1}
        /\ got' \subseteq charges /\ there' \subseteq charges
    OBVIOUS
  <1> QED BY <1>1, <1>2, <1>3, <1>4, ReaderStep

-----------------------------------------------------------------------------
\* The theorems

LEMMA StepInv == BackendInv /\ [Next]_vars => BackendInv'
  <1> SUFFICES ASSUME BackendInv, [Next]_vars PROVE BackendInv'
    OBVIOUS
  <1>1. CASE Start
    BY <1>1, StartInv
  <1>2. CASE Seed
    BY <1>2, SeedInv
  <1>3. CASE Listen
    BY <1>3, ListenInv
  <1>4. CASE OrphanEnds
    BY <1>4, OrphanEndsInv
  <1>5. CASE \E c \in Callers : Insert(c) \/ Return(c)
    BY <1>5, InsertInv, ReturnInv
  <1>6. CASE \E c \in Clients : Request(c) \/ TooLong(c) \/ RequestFails(c)
    BY <1>6, RequestInv, TooLongInv, RequestFailsInv
  <1>7. CASE Die
    BY <1>7, DieInv
  <1>8. CASE List
    BY <1>8, OpenListInv, ReadItemsInv, ReadTotalInv, TurnPageInv, CloseListInv DEF List
  <1>9. CASE UNCHANGED vars
    <2>1. UNCHANGED <<process, database, history, page, newestFirst, byTotal, items, total,
                      got, there>>
      BY <1>9 DEF vars, reader
    <2>2. TypeOK /\ ListInStep /\ CallsInStep
      BY DEF BackendInv
    <2>3. ListInStep' /\ NotReading' = NotReading
      BY <2>1, <2>2 DEF ListInStep, NotReading, Unread, database
    <2> QED BY <2>1, <2>2, <2>3, ReaderStep DEF TypeOK, CallsInStep
  <1> QED BY <1>1, <1>2, <1>3, <1>4, <1>5, <1>6, <1>7, <1>8, <1>9 DEF Next, Bring, Callers

\* The rows, the calls, main.ts and the readers of the list stay in step with
\* each other, whatever fails or dies.
THEOREM Safety == Spec => []BackendInv
  BY InitInv, StepInv, PTL DEF Spec

\* A memo told to a client names the same charge for ever, over any number of
\* deaths and starts of a production backend.
THEOREM MemosLast == Spec => []MemoIsKept
  <1>1. BackendInv => MemoIsKept
    BY DEF BackendInv, MemosApart, Drawn, MemoIsKept
  <1> QED BY <1>1, Safety, PTL

\* A start adds three charges, and no more whatever it died of.
THEOREM ThreePerStart == Spec => []SeedsPileUp
  <1>1. BackendInv => SeedsPileUp
    <2> SUFFICES ASSUME BackendInv PROVE SeedsPileUp
      OBVIOUS
    <2>1. TypeOK /\ SeedsInStep
      BY DEF BackendInv
    <2>2. SeedsDrawn <= 3 * (IF env = "production" THEN deaths + 1 ELSE 1)
      <3>1. seeds \in 0..3 /\ deaths \in Nat /\ (phase = "down" => seeds = 0)
            /\ (calls[Boot] # NoCall => seeds <= 2 /\ phase # "down")
        BY <2>1, Types DEF SeedsInStep, TypeOK, BackendInv, CallsInStep
      <3>2. CASE env = "production"
        BY <3>1, <3>2 DEF SeedsDrawn
      <3>3. CASE env # "production"
        BY <3>1, <3>3 DEF SeedsDrawn
      <3> QED BY <3>2, <3>3
    <2>3. ~NoCall.done
      BY DEF NoCall
    <2>4. deaths \in Nat
      BY <2>1 DEF TypeOK
    <2> QED BY <2>1, <2>2, <2>3, <2>4, SeedCounts DEF SeedsInStep, SeedsPileUp
  <1> QED BY <1>1, Safety, PTL

\* For any page size, a client that goes on to the first page that is not full
\* has seen every charge there was when it began.
THEOREM NoChargeMissed == Spec => []ListMissesNothing
  <1>1. BackendInv => ListMissesNothing
    <2> SUFFICES ASSUME BackendInv, Answered, LastPage PROVE ListMissesNothing
      BY DEF ListMissesNothing
    <2> DEFINE M == there \ (got \cup items)
               k == Limit * page
    <2>1. TypeOK /\ MemosApart /\ ListInStep
      BY DEF BackendInv
    <2>2. /\ Listable(charges) /\ newestFirst \in BOOLEAN /\ there \subseteq charges
          /\ k \in Nat /\ page * Limit = k
      BY <2>1, ChargesListable DEF TypeOK
    <2>3. \A ch \in M : Rank(charges, newestFirst, ch) > k /\ Cardinality(items) = Limit
      BY <2>1 DEF ListInStep, Answered
    <2>4. CASE ~byTotal
      <3>1. M = {}
        BY <2>3, <2>4 DEF LastPage
      <3> QED BY <2>4, <3>1 DEF ListMissesNothing
    <2>5. CASE byTotal
      <3>1. total >= Cardinality(there) /\ k >= total
        BY <2>1, <2>2, <2>5 DEF ListInStep, Answered, LastPage
      <3>2. /\ IsFiniteSet(M) /\ Cardinality(M) \in Nat
            /\ M = {} \/ Cardinality(M) + k <= Cardinality(charges)
        BY <2>2, <2>3, FewStandBehind
      <3>3. /\ Cardinality(charges \ there) = Cardinality(charges) - Cardinality(there)
            /\ Cardinality(charges \ there) \in Nat
            /\ Cardinality(charges) \in Nat /\ Cardinality(there) \in Nat
        <4>1. charges \cap there = there /\ IsFiniteSet(charges) /\ IsFiniteSet(there)
          BY <2>2, FS_Subset DEF Listable
        <4>2. /\ IsFiniteSet(charges \ there)
              /\ Cardinality(charges \ there) = Cardinality(charges) - Cardinality(charges \cap there)
          BY <4>1, FS_Difference
        <4> QED BY <4>1, <4>2, FS_CardinalityType
      <3>4. total \in Int
        BY <2>1 DEF TypeOK
      <3>5. Cardinality(M) <= Cardinality(charges \ there)
        <4>1. CASE M = {}
          BY <3>3, <4>1, FS_EmptySet
        <4>2. CASE M # {}
          <5> HIDE DEF M, k
          <5> QED BY <2>2, <3>1, <3>2, <3>3, <3>4, <4>2
        <4> QED BY <4>1, <4>2
      <3> QED BY <2>5, <3>5 DEF ListMissesNothing
    <2> QED BY <2>4, <2>5
  <1> QED BY <1>1, Safety, PTL
=============================================================================

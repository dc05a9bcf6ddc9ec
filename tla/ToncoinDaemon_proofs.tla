------------------------- MODULE ToncoinDaemon_proofs -------------------------
(***************************************************************************)
(* Theorems about ToncoinDaemon and TokenUnits, for every amount, every    *)
(* number of decimals and of bits, and however often calls fail and the    *)
(* backend restarts.                                                       *)
(***************************************************************************)
EXTENDS ToncoinDaemon, TransactionRow_proofs, WellFoundedInduction, TLAPS

USE FaultAssumption

LEMMA InitInv == Init => DaemonInv
  BY DEF Init, DaemonInv, TypeOK, CreditOnlyPayments, PaymentLostOnlyByFault,
         Paid, Absent

\* What the checks, the schema and the range of bigint leave over is exactly a
\* payment.
LEMMA PaymentShape ==
  ASSUME TypeOK PROVE IsPayment <=> Reason = "none" /\ ParamsValid /\ Findable
  BY DEF TypeOK, Transactions, IsPayment, Reason, Interesting, ParamsValid, Findable

LEMMA Reasons ==
  ASSUME TypeOK, Reason # "none"
  PROVE  Reason \in Notes \ (Paid \cup {Absent})
  BY DEF TypeOK, Transactions, Reason, Interesting, Notes, Paid, Absent

\* The invariant survives a step that leaves the transaction alone and writes no
\* note or a right one.
LEMMA RightNote ==
  ASSUME DaemonInv, tx' = tx,
         faults' \in 0..MaxFaults, faults' >= faults,
         hasCharge' \in BOOLEAN, hasCharge => hasCharge',
         \/ note' = note
         \/ /\ note' \in Notes
            /\ note' \in Paid => IsPayment
            /\ note' = "null" => hasCharge'
            /\ IsPayment /\ note' \notin Paid => faults' > 0,
         pc' \in {"idle", "check", "mark", "process", "catch"},
         pc' = "mark" => Reason # "none",
         pc' \in {"process", "catch"} => Reason = "none",
         pc' = "catch" => ~ParamsValid \/ ~Findable \/ faults' > 0
  PROVE  DaemonInv'
  <1>1. TypeOK' /\ IsPayment' = IsPayment /\ Reason' = Reason
          /\ ParamsValid' = ParamsValid /\ Findable' = Findable
    BY DEF DaemonInv, TypeOK, IsPayment, Reason, Interesting, ParamsValid, Findable
  <1>2. CreditOnlyPayments'
    BY <1>1 DEF DaemonInv, CreditOnlyPayments, Paid
  <1>3. ASSUME IsPayment, note' \notin Paid \cup {Absent} PROVE faults' > 0
    <2>1. CASE note' = note
      <3>1. faults > 0 /\ faults \in Nat /\ faults' \in Nat
        BY <1>3, <2>1 DEF DaemonInv, PaymentLostOnlyByFault, TypeOK
      <3> QED BY <3>1
    <2>2. CASE note' # note
      BY <1>3, <2>2
    <2> QED BY <2>1, <2>2
  <1>4. PaymentLostOnlyByFault'
    BY <1>1, <1>3 DEF PaymentLostOnlyByFault, Paid
  <1> QED BY <1>1, <1>2, <1>4 DEF DaemonInv

LEMMA NextInv == ASSUME DaemonInv, [Next]_vars PROVE DaemonInv'
  <1>0. /\ TypeOK
        /\ faults \in 0..MaxFaults /\ faults >= faults
        /\ hasCharge \in BOOLEAN
        /\ pc \in {"idle", "check", "mark", "process", "catch"}
        /\ pc = "mark" => Reason # "none"
        /\ pc \in {"process", "catch"} => Reason = "none"
        /\ pc = "catch" => ~ParamsValid \/ ~Findable \/ faults > 0
    BY DEF DaemonInv, TypeOK
  <1>a. faults \in Nat /\ \A n \in 0..MaxFaults : n \in Nat
    BY DEF DaemonInv, TypeOK
  <1>1. CASE UNCHANGED vars
    BY <1>0, <1>1, RightNote DEF vars
  <1>2. CASE Visit
    BY <1>0, <1>2, RightNote DEF Visit, Goto
  <1>3. CASE Check
    BY <1>0, <1>3, RightNote DEF Check, Goto
  <1>4. CASE Mark
    <2>1. /\ note' = note \/ note' = Reason
          /\ faults' \in 0..MaxFaults /\ faults' >= faults
          /\ hasCharge' = hasCharge /\ tx' = tx /\ pc' = "idle"
      BY <1>0, <1>4, MarkStep DEF Mark, Goto
    <2>2. Reason \in Notes \ (Paid \cup {Absent}) /\ ~IsPayment
      BY <1>0, <1>4, Reasons, PaymentShape DEF Mark
    <2> QED BY <1>0, <2>1, <2>2, RightNote DEF Paid
  <1>5. CASE Process
    <2>1. CASE ~ParamsValid
      BY <1>0, <1>5, <2>1, RightNote DEF Process, Goto
    <2>2. CASE ParamsValid
      <3>1. tx' = tx /\ Reason = "none" /\ (Findable => IsPayment)
        BY <1>0, <1>5, <2>2, PaymentShape DEF Process
      <3>2. Verdict \in Paid \cap Notes /\ (Verdict = "null" => hasCharge)
        BY DEF Verdict, Paid, Notes
      <3>3. /\ \/ ProcessReturns(Findable) /\ pc' = "idle"
               \/ ProcessThrows(Findable) /\ pc' = "catch"
            /\ Findable \in BOOLEAN
        BY <1>5, <2>2 DEF Process, Goto, Findable
      <3>4. /\ note' = note \/ (note' = Verdict /\ Findable)
            /\ faults' \in 0..MaxFaults /\ faults' >= faults
            /\ pc' = "catch" => ~Findable \/ faults' > 0
            /\ hasCharge' = hasCharge
        BY <1>0, <3>3, ProcessStep
      <3> QED BY <1>0, <3>1, <3>2, <3>3, <3>4, RightNote
    <2> QED BY <2>1, <2>2
  <1>6. CASE Catch
    <2>1. IsPayment => faults > 0
      BY <1>0, <1>6, PaymentShape DEF Catch
    <2>2. "invalid memo" \in Notes \ Paid
      BY DEF Notes, Paid
    <2>3. /\ note' = note \/ note' = "invalid memo"
          /\ faults' \in 0..MaxFaults /\ faults' >= faults
          /\ hasCharge' = hasCharge /\ tx' = tx /\ pc' = "idle"
      BY <1>0, <1>6, MarkStep DEF Catch, Goto
    <2>4. ASSUME IsPayment PROVE faults' > 0
      <3>1. faults > 0
        BY <2>1, <2>4
      <3>2. faults \in Nat /\ faults' \in Nat
        BY <1>a, <2>3
      <3>3. faults' >= faults
        BY <2>3
      <3> QED BY <3>1, <3>2, <3>3
    <2> QED BY <1>0, <2>2, <2>3, <2>4, RightNote DEF Paid
  <1>7. CASE CheckFails \/ Restart
    <2>1. /\ note' = note /\ hasCharge' = hasCharge /\ tx' = tx /\ pc' = "idle"
          /\ faults' \in 0..MaxFaults /\ faults' >= faults
      BY <1>0, <1>7 DEF CheckFails, Restart, OneMoreFault, Goto
    <2> QED BY <1>0, <2>1, RightNote
  <1>8. CASE CreateCharge /\ UNCHANGED <<tx, pc>>
    BY <1>0, <1>8, RightNote DEF CreateCharge
  <1> QED BY <1>1, <1>2, <1>3, <1>4, <1>5, <1>6, <1>7, <1>8 DEF Next, Handle

-----------------------------------------------------------------------------
(***************************************************************************)
(* TokenUnits.  Power is a recursive function, of which the definition     *)
(* says only that it is some function with its equation, if there is one:  *)
(* PowerDef shows that there is.  Induction goes by the least natural for  *)
(* which a claim is false.                                                 *)
(***************************************************************************)

\* Every set of naturals that is not empty has a least one.
LEMMA Least ==
  ASSUME NEW T \in SUBSET Nat, T # {}
  PROVE  \E x \in T : \A y \in T : x <= y
  <1> DEFINE R == {p \in Nat \X Nat : p[1] < p[2]}
  <1>1. IsWellFoundedOn(R, Nat)
    BY NatLessThanWellFounded, Zenon DEF OpToRel
  <1>2. \A x, y \in Nat : y < x => <<y, x>> \in R
    OBVIOUS
  <1> HIDE DEF R
  <1>3. PICK x \in T : \A y \in T : <<y, x>> \notin R
    BY <1>1, WFMin
  <1>4. \A y \in T : ~(y < x)
    BY <1>2, <1>3, Zenon
  <1>5. \A y \in T : y \in Nat /\ x \in Nat
    OBVIOUS
  <1> QED BY <1>4, <1>5

\* A table of the first n powers.
Table(base, n) ==
  {g \in [0..n -> Nat] :
     \A k \in 0..n : g[k] = IF k = 0 THEN 1 ELSE base * g[k - 1]}

\* There is a table of any length: one of length m - 1 makes one of length m.
LEMMA TableExists ==
  ASSUME NEW base \in Nat
  PROVE  \A n \in Nat : Table(base, n) # {}
  <1> DEFINE T == {n \in Nat : Table(base, n) = {}}
  <1>1. SUFFICES ASSUME T # {} PROVE FALSE
    OBVIOUS
  <1>2. PICK m \in T : \A n \in T : m <= n
    BY <1>1, Least
  <1>3. m \in Nat /\ Table(base, m) = {}
    OBVIOUS
  <1>4. CASE m = 0
    <2>1. [k \in 0..0 |-> 1] \in Table(base, 0)
      BY DEF Table
    <2> QED BY <1>3, <1>4, <2>1
  <1>5. CASE m > 0
    <2>1. m - 1 \in Nat /\ ~(m <= m - 1)
      BY <1>3, <1>5
    <2>2. Table(base, m - 1) # {}
      BY <1>2, <2>1
    <2>3. PICK g : g \in Table(base, m - 1)
      BY <2>2
    <2>4. /\ g \in [0..(m - 1) -> Nat]
          /\ \A k \in 0..(m - 1) : g[k] = IF k = 0 THEN 1 ELSE base * g[k - 1]
      BY <2>3 DEF Table
    <2> DEFINE h == [k \in 0..m |-> IF k = m THEN base * g[m - 1] ELSE g[k]]
    <2>5. g[m - 1] \in Nat /\ base * g[m - 1] \in Nat
      BY <2>1, <2>4
    <2>6. h \in [0..m -> Nat]
      BY <1>3, <2>4, <2>5
    <2>7. ASSUME NEW k \in 0..m
          PROVE  h[k] = IF k = 0 THEN 1 ELSE base * h[k - 1]
      <3>1. CASE k = m
        BY <1>3, <1>5, <3>1
      <3>2. CASE k < m
        <4>1. k \in 0..(m - 1)
          BY <1>3, <3>2
        <4>2. k > 0 => k - 1 \in 0..m /\ k - 1 # m
          BY <1>3, <3>2
        <4>3. h[k] = g[k] /\ (k > 0 => h[k - 1] = g[k - 1])
          BY <3>2, <4>1, <4>2
        <4> QED BY <2>4, <4>1, <4>3
      <3> QED BY <1>3, <3>1, <3>2
    <2>8. h \in Table(base, m)
      BY <2>6, <2>7 DEF Table
    <2> QED BY <1>3, <2>8
  <1> QED BY <1>3, <1>4, <1>5

\* Two tables agree as far as both go.
LEMMA TablesAgree ==
  ASSUME NEW base \in Nat, NEW n \in Nat, NEW m \in Nat,
         NEW g \in Table(base, n), NEW h \in Table(base, m)
  PROVE  \A k \in Nat : k <= n /\ k <= m => g[k] = h[k]
  <1> DEFINE T == {k \in Nat : k <= n /\ k <= m /\ g[k] # h[k]}
  <1>1. SUFFICES ASSUME T # {} PROVE FALSE
    OBVIOUS
  <1>2. PICK k \in T : \A j \in T : k <= j
    BY <1>1, Least
  <1>3. /\ k \in 0..n /\ k \in 0..m /\ k \in Nat /\ g[k] # h[k]
    OBVIOUS
  <1>4. /\ g[k] = IF k = 0 THEN 1 ELSE base * g[k - 1]
        /\ h[k] = IF k = 0 THEN 1 ELSE base * h[k - 1]
    BY <1>3 DEF Table
  <1>5. k > 0 /\ g[k - 1] # h[k - 1]
    BY <1>3, <1>4
  <1>6. k - 1 \in T
    BY <1>3, <1>5
  <1> QED BY <1>2, <1>3, <1>6

\* What a reader takes the recursive definition of Power to say.
LEMMA PowerDef ==
  ASSUME NEW base \in Nat
  PROVE  /\ Power(base) \in [Nat -> Nat]
         /\ Power(base)[0] = 1
         /\ \A k \in Nat : Power(base)[k + 1] = base * Power(base)[k]
  <1> DEFINE table(n) == CHOOSE g : g \in Table(base, n)
             f == [n \in Nat |-> table(n)[n]]
  <1>1. ASSUME NEW n \in Nat PROVE table(n) \in Table(base, n)
    BY TableExists
  <1>2. ASSUME NEW n \in Nat
        PROVE  f[n] \in Nat /\ f[n] = IF n = 0 THEN 1 ELSE base * f[n - 1]
    <2>1. /\ table(n) \in [0..n -> Nat]
          /\ \A k \in 0..n : table(n)[k] = IF k = 0 THEN 1 ELSE base * table(n)[k - 1]
      BY <1>1 DEF Table
    <2>2. n \in 0..n
      OBVIOUS
    <2>3. f[n] = table(n)[n]
      OBVIOUS
    <2>4. CASE n = 0
      BY <2>1, <2>2, <2>3, <2>4
    <2>5. CASE n > 0
      <3>1. n - 1 \in Nat /\ n - 1 <= n /\ n - 1 <= n - 1
        BY <2>5
      <3>2. table(n)[n - 1] = table(n - 1)[n - 1]
        BY <1>1, <3>1, TablesAgree
      <3>3. f[n - 1] = table(n - 1)[n - 1]
        BY <3>1
      <3> HIDE DEF table, f
      <3> QED BY <2>1, <2>2, <2>3, <2>5, <3>2, <3>3
    <2> QED BY <2>4, <2>5
  <1> HIDE DEF table
  <1>3. f = [n \in Nat |-> IF n = 0 THEN 1 ELSE base * f[n - 1]]
    <2>1. f = [n \in Nat |-> f[n]]
      OBVIOUS
    <2> HIDE DEF f
    <2> QED BY <1>2, <2>1
  <1> HIDE DEF f
  <1> DEFINE Q(p) == p = [n \in Nat |-> IF n = 0 THEN 1 ELSE base * p[n - 1]]
  <1>4. Power(base) = CHOOSE p : Q(p)
    BY DEF Power
  <1>5. Q(Power(base))
    <2>1. Q(f)
      BY <1>3
    <2> HIDE DEF Q
    <2> QED BY <1>4, <2>1
  <1> HIDE DEF f
  <1> DEFINE p == Power(base)
  <1>6. \A n \in Nat : p[n] = IF n = 0 THEN 1 ELSE base * p[n - 1]
    <2>1. Q(p)
      BY <1>5
    <2> HIDE DEF p
    <2> QED BY <2>1
  <1>7. \A n \in Nat : p[n] \in Nat
    <2> DEFINE T == {n \in Nat : p[n] \notin Nat}
    <2>1. SUFFICES ASSUME T # {} PROVE FALSE
      OBVIOUS
    <2>2. PICK n \in T : \A m \in T : n <= m
      BY <2>1, Least
    <2>3. n \in Nat /\ p[n] \notin Nat
      OBVIOUS
    <2>4. n > 0 /\ p[n - 1] \notin Nat
      BY <1>6, <2>3
    <2>5. n - 1 \in T
      BY <2>3, <2>4
    <2> QED BY <2>2, <2>3, <2>5
  <1>8. p \in [Nat -> Nat]
    <2>1. p = [n \in Nat |-> p[n]]
      BY <1>5
    <2> HIDE DEF p
    <2> QED BY <1>7, <2>1
  <1>9. \A n \in Nat : n + 1 \in Nat /\ n + 1 # 0 /\ (n + 1) - 1 = n
    OBVIOUS
  <1> HIDE DEF p
  <1>10. p[0] = 1 /\ \A n \in Nat : p[n + 1] = base * p[n]
    BY <1>6, <1>9
  <1> QED BY <1>8, <1>10 DEF p

\* 2^k > k, so a power of two reaches any bound.
LEMMA PowerAbove ==
  \A k \in Nat : Power(2)[k] \in Nat \ {0} /\ Power(2)[k] > k
  <1> DEFINE T == {k \in Nat : ~(Power(2)[k] > k)}
  <1>0. \A k \in Nat : Power(2)[k] \in Nat
    BY PowerDef
  <1>1. SUFFICES ASSUME T # {} PROVE FALSE
    BY <1>0
  <1>2. PICK k \in T : \A j \in T : k <= j
    BY <1>1, Least
  <1>3. k \in Nat /\ ~(Power(2)[k] > k)
    OBVIOUS
  <1>4. Power(2)[0] = 1 /\ \A j \in Nat : Power(2)[j + 1] = 2 * Power(2)[j]
    BY PowerDef
  <1>5. k > 0
    BY <1>3, <1>4
  <1>6. k - 1 \in Nat /\ k = (k - 1) + 1 /\ ~(k <= k - 1)
    BY <1>3, <1>5
  <1>7. Power(2)[k] = 2 * Power(2)[k - 1]
    BY <1>4, <1>6
  <1>8. ~(Power(2)[k - 1] > k - 1)
    BY <1>0, <1>3, <1>6, <1>7
  <1>9. k - 1 \in T
    BY <1>6, <1>8
  <1> QED BY <1>2, <1>6, <1>9

\* The CHOOSE of LeastPower finds the least exponent.
LEMMA LeastPowerDef ==
  ASSUME NEW bound \in Nat, NEW step \in Nat \ {0}
  PROVE  \E k \in Nat :
           /\ LeastPower(bound, step) = Power(2)[k]
           /\ Power(2)[k] * step >= bound
           /\ \A j \in Nat : j < k => Power(2)[j] * step < bound
  <1> DEFINE P == Power(2)
             Fits(k) == P[k] * step >= bound
             T == {k \in Nat : Fits(k)}
  <1>1. \A k \in Nat : P[k] \in Nat /\ P[k] > k
    BY PowerAbove
  <1>2. Fits(bound)
    <2>1. P[bound] \in Nat /\ P[bound] > bound
      BY <1>1
    <2> HIDE DEF P
    <2>2. \A x \in Nat : x > bound => x * step >= x
      OBVIOUS
    <2>3. P[bound] * step >= P[bound] /\ P[bound] * step \in Nat
      BY <2>1, <2>2
    <2> QED BY <2>1, <2>3
  <1>3. PICK k \in T : \A j \in T : k <= j
    <2>1. T # {} /\ T \in SUBSET Nat
      BY <1>2
    <2> QED BY <2>1, Least
  <1>4. k \in Nat /\ Fits(k) /\ k <= bound
    BY <1>2, <1>3
  <1>5. \A j \in Nat : j < k => ~Fits(j)
    BY <1>3, <1>4
  <1> DEFINE IsLeast(i) == /\ P[i] * step >= bound
                           /\ \A j \in 0..(i - 1) : P[j] * step < bound
  <1>6. \A j \in Nat : ~Fits(j) <=> P[j] * step < bound
    <2>1. \A j \in Nat : P[j] * step \in Nat
      BY <1>1
    <2> HIDE DEF P
    <2> QED BY <2>1
  <1>7. k \in 0..bound /\ IsLeast(k)
    BY <1>4, <1>5, <1>6
  <1>8. LeastPower(bound, step) = P[CHOOSE i \in 0..bound : IsLeast(i)]
    BY DEF LeastPower
  <1> HIDE DEF P, Fits
  <1>9. (CHOOSE i \in 0..bound : IsLeast(i)) = k
    <2> DEFINE c == CHOOSE i \in 0..bound : IsLeast(i)
    <2>1. c \in 0..bound /\ IsLeast(c)
      BY <1>7
    <2> HIDE DEF c
    <2>2. c \in Nat /\ k \in Nat /\ P[c] * step >= bound /\ P[k] * step >= bound
      BY <1>7, <2>1
    <2>3. ~(c < k) /\ ~(k < c)
      <3>1. \A x \in Nat : P[x] * step \in Nat
        BY <1>1
      <3>2. c < k => P[c] * step < bound
        BY <1>7, <2>2
      <3>3. k < c => P[k] * step < bound
        BY <2>1, <2>2
      <3> QED BY <2>2, <3>1, <3>2, <3>3
    <2> QED BY <2>2, <2>3 DEF c
  <1> QED BY <1>4, <1>5, <1>6, <1>7, <1>8, <1>9 DEF P

\* The quotient and the remainder.
LEMMA Division ==
  ASSUME NEW x \in Nat, NEW y \in Nat \ {0}
  PROVE  /\ x \div y \in Nat
         /\ x % y \in Nat
         /\ x % y < y
         /\ x = (x \div y) * y + (x % y)
  OBVIOUS

\* The product of naturals as the provers need it.
LEMMA Products ==
  /\ \A x, y \in Nat : x * y \in Nat
  /\ \A x, y \in Nat \ {0} : x * y \in Nat \ {0}
  OBVIOUS

\* Half the distance of two numbers at most, times 1/Grid, away from amount.
LEMMA RoundsToNearest ==
  ASSUME NEW amount \in Nat, Grid \in Nat, Ulp(amount) \in Nat \ {0},
         One \in Nat \ {0}
  PROVE  /\ Format(amount) \in Nat
         /\ 2 * (Format(amount) * One - amount * Grid) <= One * Ulp(amount)
         /\ 2 * (Format(amount) * One - amount * Grid) >= -(One * Ulp(amount))
         /\ amount = 0 => Format(amount) = 0
  <1> DEFINE u == Ulp(amount)
             x == amount * Grid
             step == One * u
             q == x \div step
             r == x % step
             up == 2 * r > step \/ (2 * r = step /\ q % 2 = 1)
  <1>1. x \in Nat /\ step \in Nat \ {0}
    BY Products
  <1>2. Format(amount) = (IF up THEN q + 1 ELSE q) * u
    BY DEF Format
  <1>3. u \in Nat \ {0} /\ (amount = 0 => x = 0)
    OBVIOUS
  <1> HIDE DEF u, x
  <1>4. step = One * u
    OBVIOUS
  <1> HIDE DEF step
  <1>5. q \in Nat /\ r \in Nat /\ r < step /\ x = q * step + r
    BY <1>1, Division
  <1>6. x = 0 => q = 0 /\ r = 0
    BY <1>1, <1>5
  <1> HIDE DEF q, r
  <1>7. q * u * One = q * step /\ (q + 1) * u * One = q * step + step
    BY <1>3, <1>4, <1>5
  <1>8. q * step \in Nat
    BY <1>1, <1>5, Products
  <1>9. CASE up
    <2>1. Format(amount) * One = q * step + step
      BY <1>2, <1>7, <1>9
    <2>2. 2 * r >= step
      BY <1>1, <1>5, <1>9
    <2>3. Format(amount) \in Nat
      BY <1>2, <1>3, <1>5, <1>9
    <2>4. x # 0
      BY <1>1, <1>6, <2>2
    <2> QED BY <1>1, <1>3, <1>4, <1>5, <1>8, <2>1, <2>2, <2>3, <2>4 DEF x, u
  <1>10. CASE ~up
    <2>1. Format(amount) * One = q * step
      BY <1>2, <1>7, <1>10
    <2>2. 2 * r <= step
      BY <1>1, <1>5, <1>10
    <2>3. Format(amount) \in Nat
      BY <1>2, <1>3, <1>5, <1>10
    <2>4. x = 0 => Format(amount) = 0
      BY <1>2, <1>3, <1>6, <1>10
    <2>5. amount = 0 => Format(amount) = 0
      BY <1>3, <2>4
    <2> QED BY <1>1, <1>4, <1>5, <1>8, <2>1, <2>2, <2>3, <2>5 DEF x, u
  <1> QED BY <1>9, <1>10

\* The constants of the number format are positive, and Grid is fine enough.
LEMMA Units ==
  /\ One \in Nat \ {0}
  /\ Power(2)[Bits] = 2 * Power(2)[Bits - 1]
  /\ Power(2)[Bits - 1] \in Nat \ {0}
  /\ Power(2)[Bits] \in Nat \ {0}
  /\ Grid \in Nat \ {0}
  /\ Grid >= One * Power(2)[Bits - 1]
  <1>1. One \in Nat \ {0}
    <2> DEFINE T == {k \in Nat : Power(10)[k] = 0}
    <2>1. /\ Power(10) \in [Nat -> Nat]
          /\ Power(10)[0] = 1
          /\ \A k \in Nat : Power(10)[k + 1] = 10 * Power(10)[k]
      BY PowerDef
    <2>2. ASSUME T # {} PROVE FALSE
      <3>1. PICK k \in T : \A j \in T : k <= j
        BY <2>2, Least
      <3>2. k \in Nat /\ Power(10)[k] = 0 /\ k # 0
        BY <2>1
      <3>3. k - 1 \in Nat /\ k = (k - 1) + 1 /\ ~(k <= k - 1)
        BY <3>2
      <3>4. Power(10)[k] = 10 * Power(10)[k - 1]
        BY <2>1, <3>3
      <3>5. Power(10)[k - 1] \in Nat
        BY <2>1, <3>3
      <3>6. k - 1 \in T
        BY <3>2, <3>3, <3>4, <3>5
      <3> QED BY <3>1, <3>3, <3>6
    <2> QED BY <2>1, <2>2, UnitsAssumption DEF One
  <1>2. Bits - 1 \in Nat /\ Bits = (Bits - 1) + 1 /\ Bits \in Nat
    BY UnitsAssumption
  <1>3. Power(2)[Bits] = 2 * Power(2)[Bits - 1]
    BY <1>2, PowerDef
  <1>4. Power(2)[Bits - 1] \in Nat \ {0} /\ Power(2)[Bits] \in Nat \ {0}
    BY <1>2, PowerAbove
  <1> DEFINE bound == One * Power(2)[Bits - 1]
  <1>5. bound \in Nat
    BY <1>1, <1>4
  <1> HIDE DEF bound
  <1>6. PICK k \in Nat : LeastPower(bound, 1) = Power(2)[k] /\ Power(2)[k] * 1 >= bound
    <2>1. 1 \in Nat \ {0}
      OBVIOUS
    <2> QED BY <1>5, <2>1, LeastPowerDef
  <1>7. Power(2)[k] \in Nat \ {0}
    BY PowerAbove
  <1>8. Grid \in Nat \ {0} /\ Grid >= bound
    BY <1>6, <1>7 DEF Grid, bound
  <1> QED BY <1>1, <1>3, <1>4, <1>8 DEF bound

\* The distance of the numbers near amount / One is the least power of two with
\* which a significand of Bits bits reaches amount / One.
LEMMA UlpDef ==
  ASSUME NEW amount \in Nat
  PROVE  \E i \in Nat :
           /\ Ulp(amount) = Power(2)[i]
           /\ \A j \in Nat :
                j < i => Power(2)[j] * (One * Power(2)[Bits]) <= amount * Grid
  <1> DEFINE x == amount * Grid
             step == One * Power(2)[Bits]
  <1>1. x + 1 \in Nat /\ x \in Nat /\ step \in Nat \ {0}
    BY Units, Products
  <1> HIDE DEF x, step
  <1>2. PICK i \in Nat : /\ LeastPower(x + 1, step) = Power(2)[i]
                         /\ \A j \in Nat : j < i => Power(2)[j] * step < x + 1
    BY <1>1, LeastPowerDef
  <1>3. \A j \in Nat : Power(2)[j] * step \in Nat
    BY <1>1, PowerAbove
  <1>4. \A j \in Nat : j < i => Power(2)[j] * step <= x
    BY <1>1, <1>2, <1>3
  <1> QED BY <1>2, <1>4 DEF Ulp, x, step

\* The number format() makes of an amount is no further from it than one part
\* in 2^Bits: the amount below a power of two is rounded at the last bit.
LEMMA FormatError ==
  ASSUME NEW amount \in Nat
  PROVE  (Format(amount) * One - amount * Grid) * Power(2)[Bits] \in
           (-(amount * Grid))..(amount * Grid)
  <1> DEFINE O == One
             S == Power(2)[Bits]
             H == Power(2)[Bits - 1]
             u == Ulp(amount)
             x == amount * Grid
             e == Format(amount) * One - amount * Grid
  <1>1. PICK i \in Nat :
          /\ u = Power(2)[i]
          /\ \A j \in Nat : j < i => Power(2)[j] * (O * S) <= x
    BY UlpDef
  <1>2. u \in Nat \ {0} /\ x \in Nat
    BY <1>1, Units, PowerAbove
  <1>3. /\ e \in Int /\ 2 * e <= O * u /\ 2 * e >= -(O * u)
        /\ amount = 0 => e = 0
    <2>1. /\ Format(amount) \in Nat /\ (amount = 0 => Format(amount) = 0)
          /\ One \in Nat /\ Grid \in Nat
      BY <1>2, Units, RoundsToNearest
    <2>2. 2 * e <= O * u /\ 2 * e >= -(O * u)
      BY <1>2, Units, RoundsToNearest
    <2>3. e \in Int /\ (amount = 0 => e = 0)
      BY <2>1
    <2> HIDE DEF e, u, O
    <2> QED BY <2>2, <2>3
  <1>4. O \in Nat \ {0} /\ H \in Nat \ {0} /\ S = 2 * H /\ Grid >= O * H
        /\ S \in Nat \ {0} /\ O * u \in Nat /\ Grid \in Nat
    BY <1>2, Units
  <1>5. amount > 0 => x >= Grid
    BY <1>4
  <1>6. amount = 0 => x = 0
    BY <1>4
  <1>7. \A j \in Nat : Power(2)[j] \in Nat /\ Power(2)[j + 1] = 2 * Power(2)[j]
    BY PowerDef
  <1> HIDE DEF O, S, H, u, x, e
  <1>8. (O * u) * S <= 2 * x \/ amount = 0
    <2>1. CASE i = 0
      <3>1. u = 1
        BY <1>1, <2>1, PowerDef
      <3>2. (O * u) * S = 2 * (O * H)
        BY <1>4, <3>1
      <3>3. amount > 0 => O * H <= x
        BY <1>2, <1>4, <1>5
      <3> QED BY <1>2, <1>4, <3>2, <3>3
    <2>2. CASE i > 0
      <3>1. i - 1 \in Nat /\ i - 1 < i /\ (i - 1) + 1 = i
        BY <2>2
      <3>2. Power(2)[i - 1] * (O * S) <= x
        BY <1>1, <3>1
      <3>3. u = 2 * Power(2)[i - 1] /\ Power(2)[i - 1] \in Nat
        BY <1>1, <1>7, <3>1
      <3>4. (O * u) * S = 2 * (Power(2)[i - 1] * (O * S))
        BY <1>4, <3>3
      <3> QED BY <1>2, <1>4, <3>2, <3>3, <3>4
    <2> QED BY <2>1, <2>2
  <1>9. (2 * e) * S <= (O * u) * S /\ (2 * e) * S >= -((O * u) * S)
    <2> DEFINE d == O * u
    <2>1. d \in Nat /\ 2 * e <= d /\ 2 * e >= -d
      BY <1>3, <1>4
    <2> HIDE DEF d
    <2>2. (2 * e) * S <= d * S /\ (2 * e) * S >= (-d) * S
      BY <1>3, <1>4, <2>1
    <2>3. (-d) * S = -(d * S)
      BY <1>4, <2>1
    <2> QED BY <2>2, <2>3 DEF d
  <1>10. e * S \in Int /\ e * S <= x /\ e * S >= -x
    <2>1. CASE amount = 0
      BY <1>2, <1>3, <1>4, <1>6, <2>1
    <2>2. CASE amount # 0
      <3>1. (2 * e) * S = 2 * (e * S) /\ e * S \in Int /\ (O * u) * S \in Nat
        BY <1>3, <1>4
      <3> QED BY <1>2, <1>8, <1>9, <2>2, <3>1
    <2> QED BY <2>1, <2>2
  <1> QED BY <1>2, <1>10 DEF e, S, x

\* Below ExactBelow numbers are closer to each other than amounts, and parse()
\* gives back the amount that was formatted.
LEMMA FormatThenParse ==
  ASSUME NEW amount \in Nat, amount < ExactBelow
  PROVE  Parse(Format(amount)) = amount
  <1> DEFINE O == One
             G == Grid
             S == Power(2)[Bits]
             H == Power(2)[Bits - 1]
             W == LeastPower(Grid, One)
             u == Ulp(amount)
             x == amount * Grid
             F == Format(amount)
             B == (O * W) * H
  <1>1. PICK i \in Nat :
          /\ u = Power(2)[i]
          /\ \A j \in Nat : j < i => Power(2)[j] * (O * S) <= x
    BY UlpDef
  <1>2. PICK k \in Nat :
          /\ W = Power(2)[k]
          /\ W * O >= G
          /\ \A j \in Nat : j < k => Power(2)[j] * O < G
    BY Units, LeastPowerDef
  <1>3. /\ O \in Nat \ {0} /\ G \in Nat \ {0} /\ H \in Nat \ {0}
        /\ S = 2 * H /\ G >= O * H
    BY Units
  <1>4. u \in Nat \ {0} /\ W \in Nat \ {0}
    BY <1>1, <1>2, PowerAbove
  <1>5. /\ F \in Nat
        /\ 2 * (F * O - x) <= O * u
        /\ 2 * (F * O - x) >= -(O * u)
        /\ amount = 0 => F = 0
    BY <1>3, <1>4, RoundsToNearest
  <1>6. \A j \in Nat : Power(2)[j] \in Nat /\ Power(2)[j + 1] = 2 * Power(2)[j]
    BY PowerDef
  <1>7. amount < B \div G
    BY DEF ExactBelow
  <1>8. x = amount * G
    OBVIOUS
  <1>9. Parse(F) = ((2 * F) * O + G) \div (2 * G)
    BY DEF Parse
  <1>10. B = (O * W) * H
    OBVIOUS
  <1> HIDE DEF O, G, S, H, W, u, x, F, B
  <1>11. B \in Nat /\ x \in Nat
    BY <1>3, <1>4, <1>8, <1>10
  <1>12. x + G <= B
    <2> DEFINE q == B \div G
               r == B % G
    <2>1. q \in Nat /\ r \in Nat /\ B = q * G + r
      BY <1>3, <1>11, Division
    <2>2. amount < q
      BY <1>7
    <2> HIDE DEF q, r
    <2>3. (amount + 1) * G <= q * G
      BY <1>3, <2>1, <2>2
    <2>4. (amount + 1) * G = x + G
      BY <1>3, <1>8
    <2>5. q * G \in Nat
      BY <1>3, <2>1
    <2> QED BY <1>3, <1>11, <2>1, <2>3, <2>4, <2>5
  <1>13. O * u < G \/ amount = 0
    <2>1. CASE k = 0
      <3>1. W = 1
        BY <1>2, <2>1, PowerDef
      <3>2. B = O * H
        BY <1>3, <1>10, <3>1
      <3>3. x <= 0
        BY <1>3, <1>11, <1>12, <3>2
      <3> QED BY <1>3, <1>8, <1>11, <3>3
    <2>2. CASE k > 0
      <3>1. k - 1 \in Nat /\ k - 1 < k /\ (k - 1) + 1 = k
        BY <2>2
      <3>2. W = 2 * Power(2)[k - 1] /\ Power(2)[k - 1] \in Nat
        BY <1>2, <1>6, <3>1
      <3>3. Power(2)[k - 1] * (O * S) = B
        BY <1>3, <1>10, <3>2
      <3>4. ~(Power(2)[k - 1] * (O * S) <= x)
        BY <1>3, <1>11, <1>12, <3>3
      <3>5. ~(k - 1 < i)
        BY <1>1, <3>1, <3>4
      <3>6. i < k
        BY <3>1, <3>5
      <3>7. Power(2)[i] * O < G
        BY <1>2, <3>6
      <3> QED BY <1>1, <1>3, <1>4, <3>7
    <2> QED BY <2>1, <2>2
  <1>14. 2 * (F * O - x) < G /\ 2 * (F * O - x) > -G
    <2>1. CASE amount = 0
      BY <1>3, <1>5, <1>8, <2>1
    <2>2. CASE amount # 0
      <3> DEFINE d == O * u
                 y == F * O - x
      <3>1. d \in Nat /\ d < G /\ y \in Int /\ 2 * y <= d /\ 2 * y >= -d
        BY <1>3, <1>4, <1>5, <1>11, <1>13, <2>2
      <3> HIDE DEF d, y
      <3>2. 2 * y < G /\ 2 * y > -G
        BY <1>3, <3>1
      <3> QED BY <3>2 DEF y
    <2> QED BY <2>1, <2>2
  <1>15. Parse(F) = amount
    <2> DEFINE n == (2 * F) * O + G
               m == 2 * G
    <2>1. n \in Nat /\ m \in Nat \ {0}
      BY <1>3, <1>5
    <2>2. F * O \in Nat /\ (2 * F) * O = 2 * (F * O)
      BY <1>3, <1>5
    <2>3. amount * m = 2 * x /\ (amount + 1) * m = 2 * x + 2 * G
      BY <1>3, <1>8
    <2>4. amount * m <= n /\ n < (amount + 1) * m
      BY <1>3, <1>11, <1>14, <2>2, <2>3
    <2> HIDE DEF n, m
    <2>5. n \div m = amount
      <3> DEFINE q == n \div m
                 r == n % m
      <3>1. q \in Nat /\ r \in Nat /\ r < m /\ n = q * m + r
        BY <2>1, Division
      <3> HIDE DEF q, r
      <3>2. q * m <= n /\ n < (q + 1) * m
        BY <2>1, <3>1
      <3>3. q < amount + 1
        <4>1. CASE q >= amount + 1
          <5>1. q * m >= (amount + 1) * m
            BY <2>1, <3>1, <4>1
          <5> QED BY <2>1, <2>4, <3>1, <3>2, <5>1
        <4> QED BY <3>1, <4>1
      <3>4. amount < q + 1
        <4>1. CASE amount >= q + 1
          <5>1. amount * m >= (q + 1) * m
            BY <2>1, <3>1, <4>1
          <5> QED BY <2>1, <2>4, <3>1, <3>2, <5>1
        <4> QED BY <3>1, <4>1
      <3> QED BY <3>1, <3>3, <3>4 DEF q
    <2> QED BY <1>9, <2>5 DEF n, m
  <1> QED BY <1>15 DEF F

-----------------------------------------------------------------------------
\* The theorems

\* At every await the daemon has made the checks that lead there.
THEOREM Safety == Spec => []DaemonInv
  <1> QED BY InitInv, NextInv, PTL DEF Spec

\* Only what passed every check, and a memo within bigint, gets a verdict.
THEOREM OnlyPaymentsCredited == Spec => []CreditOnlyPayments
  <1>1. DaemonInv => CreditOnlyPayments
    BY DEF DaemonInv
  <1> QED BY <1>1, Safety, PTL

\* No payment whose memo a charge can have is given up without a fault.
THEOREM NoPaymentLost == Spec => []PaymentLostOnlyByFault
  <1>1. DaemonInv => PaymentLostOnlyByFault
    BY DEF DaemonInv
  <1> QED BY <1>1, Safety, PTL

\* The number in the webhook is the amount credited, to one part in 2^Bits and
\* below ExactBelow to the coin.
THEOREM MerchantToldAmount == Spec => []ToldIsPaid
  <1>1. DaemonInv => tx.coins \in Nat
    <2>1. \A n \in 0..MaxCoins : n \in Nat
      BY CoinsAssumption
    <2> QED BY <2>1 DEF DaemonInv, TypeOK, Transactions
  <1>2. tx.coins \in Nat => ToldIsPaid
    BY FormatError, FormatThenParse DEF ToldIsPaid, Told
  <1> QED BY <1>1, <1>2, Safety, PTL
===============================================================================

--------------------------- MODULE TONDaemon_proofs ---------------------------
(***************************************************************************)
(* Theorems about TONDaemon, for every page size, length of the account's  *)
(* history, number of failures and set of transactions that throw.         *)
(***************************************************************************)
EXTENDS TONDaemon, SequenceTheorems, WellFoundedInduction, TLAPS

USE LimitAssumption, BoundAssumption, PoisonAssumption

LEMMA InitInv == Init => PassInv
  BY DEF Init, NoPass, PassInv, TypeOK, Pcs, NoCursor, StackIsContiguous,
         Forward, Backward

\* What a fetched page is: the Limit transactions up to its top, or all of them.
LEMMA PageBounds ==
  ASSUME TypeOK, NEW c \in 0..head, FetchPage(c)
  PROVE  /\ hi' \in 0..head
         /\ lo' \in 1..(head + 1)
         /\ lo' <= hi' + 1
         /\ hi' = IF c = NoCursor THEN head ELSE c - 1
         /\ lo' = IF hi' >= Limit THEN hi' - Limit + 1 ELSE 1
         /\ PageIsFull(c) <=> hi' >= Limit
  BY DEF TypeOK, FetchPage, PageTop, PageEnd, PageIsFull, NoCursor

\* The iterator's stack: what push and pop do.
LEMMA Push ==
  ASSUME NEW S, NEW s \in Seq(S), NEW c \in S
  PROVE  /\ Append(s, c) \in Seq(S)
         /\ Append(s, c) # <<>>
         /\ Len(Append(s, c)) = Len(s) + 1
         /\ Append(s, c)[Len(s) + 1] = c
         /\ \A i \in 1..Len(s) : Append(s, c)[i] = s[i]
  BY AppendProperties

LEMMA Pop ==
  ASSUME NEW S, NEW s \in Seq(S), Len(s) >= 1
  PROVE  /\ SubSeq(s, 1, Len(s) - 1) \in Seq(S)
         /\ Len(SubSeq(s, 1, Len(s) - 1)) = Len(s) - 1
         /\ Len(s) = 1 => SubSeq(s, 1, Len(s) - 1) = <<>>
         /\ Len(s) >= 2 => SubSeq(s, 1, Len(s) - 1) # <<>>
         /\ \A i \in 1..(Len(s) - 1) : SubSeq(s, 1, Len(s) - 1)[i] = s[i]
  <1> PICK m \in Nat : Len(s) = m + 1
    BY LenProperties
  <1>1. Len(s) - 1 = m /\ m \in Int /\ 1 \in Int /\ \A i \in 1..m : s[i] \in S
    BY LenProperties
  <1>2. /\ SubSeq(s, 1, m) \in Seq(S)
        /\ Len(SubSeq(s, 1, m)) = IF 1 <= m THEN m - 1 + 1 ELSE 0
        /\ \A i \in 1..(m - 1 + 1) : SubSeq(s, 1, m)[i] = s[1 + i - 1]
    BY <1>1, SubSeqProperties
  <1>3. Len(SubSeq(s, 1, m)) = m /\ \A i \in 1..m : SubSeq(s, 1, m)[i] = s[i]
    BY <1>1, <1>2
  <1>4. m = 0 => SubSeq(s, 1, m) = <<>>
    BY <1>1, SubSeqEmpty
  <1>5. Len(s) >= 2 => SubSeq(s, 1, m) # <<>>
    BY <1>1, <1>3, EmptySeq
  <1> QED BY <1>1, <1>2, <1>3, <1>4, <1>5

LEMMA ArriveInv == ASSUME PassInv, Arrive PROVE PassInv'
  <1> USE DEF Arrive, pass
  <1>1. TypeOK'
    BY DEF PassInv, TypeOK
  <1>2. StackIsContiguous' /\ Forward' /\ Backward' /\ (pc = "idle" => NoPass)'
    BY DEF PassInv, StackIsContiguous, Forward, Backward, TopOf, EndOf, NoPass
  <1>3. (pc = "handle" =>
           /\ lo <= at + 1 /\ at <= hi
           /\ HandlesFoundPage \/ HandlesOlderPage \/ HandlesNewestPage)'
    BY DEF PassInv, HandlesFoundPage, HandlesOlderPage, HandlesNewestPage,
           TopOf, EndOf
  <1> QED BY <1>1, <1>2, <1>3 DEF PassInv

LEMMA EndPassInv ==
  ASSUME PassInv, EndPass, UNCHANGED <<head, processed>>, faults' \in 0..MaxFaults
  PROVE  PassInv'
  BY DEF PassInv, EndPass, NoPass, TypeOK, Pcs, NoCursor, StackIsContiguous,
         Forward, Backward

LEMMA StartInv == ASSUME PassInv, Start PROVE PassInv'
  BY DEF PassInv, Start, pass, NoPass, TypeOK, Pcs, NoCursor, StackIsContiguous,
         Forward, Backward

LEMMA NextPageInv == ASSUME PassInv, NextPage PROVE PassInv'
  <1> PICK n \in Nat : n = Len(stack)
    BY LenProperties DEF PassInv, TypeOK
  <1>0. /\ TypeOK /\ cursor \in 0..head /\ stack \in Seq(0..head)
        /\ n \in Nat /\ head \in Nat /\ seen \in 0..head
        /\ pc = "next" /\ canNext = TRUE
        /\ n = 0 <=> stack = <<>>
    BY EmptySeq, LenProperties DEF PassInv, NextPage, TypeOK, Forward
  <1>a. /\ pc' = "check" /\ UNCHANGED <<head, processed, faults, at>>
        /\ seen' = IF stack = <<>> THEN head ELSE seen
        /\ bottom' = lo'
        /\ FetchPage(cursor)
    BY DEF NextPage
  <1>1. /\ hi' \in 0..head
        /\ lo' \in 1..(head + 1)
        /\ lo' <= hi' + 1
        /\ hi' = IF cursor = NoCursor THEN head ELSE cursor - 1
        /\ lo' = IF hi' >= Limit THEN hi' - Limit + 1 ELSE 1
        /\ PageIsFull(cursor) <=> hi' >= Limit
    BY <1>0, <1>a, PageBounds
  <1>2. /\ stack' \in Seq(0..head)
        /\ stack' # <<>>
        /\ Len(stack') = n + 1
        /\ stack'[n + 1] = cursor
        /\ \A i \in 1..n : stack'[i] = stack[i]
    BY <1>0, Push DEF NextPage
  <1>3. \/ hi' >= Limit /\ cursor' = lo' /\ canNext' = canNext
        \/ hi' < Limit /\ canNext' = FALSE /\ cursor' = cursor
    BY <1>1 DEF NextPage
  <1>4. TypeOK'
    <2>1. cursor' \in 0..head
      <3>1. hi' >= Limit => lo' \in 0..head
        BY <1>0, <1>1
      <3>2. (cursor' = lo' /\ hi' >= Limit) \/ cursor' = cursor
        BY <1>3
      <3> QED BY <1>0, <3>1, <3>2
    <2>3. canNext' \in BOOLEAN
      BY <1>0, <1>3
    <2>2. pc' \in Pcs /\ seen' \in 0..head
      BY <1>0, <1>a DEF Pcs
    <2> QED BY <1>0, <1>a, <1>1, <1>2, <2>1, <2>2, <2>3 DEF TypeOK
  <1>5. TopOf(n + 1)' = hi' /\ \A i \in 1..n : TopOf(i)' = TopOf(i)
    <2>1. CASE stack = <<>>
      <3>1. n = 0 /\ cursor = NoCursor /\ seen' = head
        BY <1>0, <1>a, <2>1 DEF PassInv, Forward
      <3> QED BY <1>1, <3>1 DEF TopOf
    <2>2. CASE stack # <<>>
      <3>1. n >= 1 /\ seen' = seen
        BY <1>0, <1>a, <2>2
      <3>2. cursor = lo /\ lo \in 1..(head + 1)
        BY <1>0, <2>2 DEF PassInv, Forward, TypeOK
      <3>3. hi' = cursor - 1 /\ n + 1 # 1
        BY <1>0, <1>1, <3>1, <3>2 DEF NoCursor
      <3> QED BY <1>2, <3>1, <3>3 DEF TopOf
    <2> QED BY <2>1, <2>2
  <1>6. StackIsContiguous'
    <2>1. stack'[1] = NoCursor
      <3>1. CASE stack = <<>>
        BY <1>0, <1>2, <3>1 DEF PassInv, Forward
      <3>2. CASE stack # <<>>
        BY <1>0, <1>2, <3>2 DEF PassInv, StackIsContiguous
      <3> QED BY <3>1, <3>2
    <2>2. n >= 1 => TopOf(n) >= Limit /\ cursor = TopOf(n) - Limit + 1
      <3>1. n >= 1 => stack # <<>>
        BY <1>0
      <3> QED BY <1>0, <3>1 DEF PassInv, Forward, EndOf
    <2>3. ASSUME NEW i \in 2..Len(stack')
          PROVE  TopOf(i - 1)' >= Limit /\ stack'[i] = TopOf(i - 1)' - Limit + 1
      <3>1. CASE i = n + 1
        <4>1. n \in 1..n /\ i - 1 = n
          BY <1>0, <3>1
        <4>2. TopOf(n)' = TopOf(n)
          BY <1>5, <4>1
        <4> QED BY <1>2, <2>2, <3>1, <4>1, <4>2
      <3>2. CASE i # n + 1
        <4>1. i \in 2..n /\ i \in 1..n /\ i - 1 \in 1..n
          BY <1>0, <1>2, <3>2
        <4> QED BY <1>2, <1>5, <4>1 DEF PassInv, StackIsContiguous
      <3> QED BY <3>1, <3>2
    <2> QED BY <2>1, <2>3 DEF StackIsContiguous, TopOf
  <1>7. Forward'
    <2>1. hi' = TopOf(Len(stack))' /\ lo' = EndOf(Len(stack))'
      BY <1>1, <1>2, <1>5 DEF EndOf
    <2>2. canNext' => hi' >= Limit /\ cursor' = lo'
      BY <1>3
    <2> QED BY <1>a, <1>2, <2>1, <2>2 DEF Forward
  <1> QED BY <1>a, <1>4, <1>6, <1>7 DEF PassInv, Backward

LEMMA CheckPageInv == ASSUME PassInv, CheckPage PROVE PassInv'
  <1> USE DEF CheckPage
  <1>1. TypeOK'
    BY DEF PassInv, TypeOK, Pcs
  <1>2. stack # <<>> /\ lo = EndOf(Len(stack)) /\ bottom = lo
    BY DEF PassInv, Forward
  <1>3. StackIsContiguous' /\ Forward'
    BY <1>2 DEF PassInv, StackIsContiguous, Forward, TopOf, EndOf
  <1>4. Backward'
    BY <1>2 DEF Backward, PassInv, TypeOK, TopOf, EndOf
  <1>5. pc' = "handle" => (lo <= at + 1 /\ at <= hi /\ HandlesFoundPage)'
    <2>1. lo \in Nat /\ hi \in Nat
      BY DEF PassInv, TypeOK
    <2>2. HasProcessed => lo <= hi
      BY <2>1 DEF HasProcessed
    <2> QED BY <1>2, <2>1, <2>2 DEF HandlesFoundPage, TopOf, EndOf
  <1> QED BY <1>1, <1>3, <1>4, <1>5 DEF PassInv

LEMMA BackInv == ASSUME PassInv, Back PROVE PassInv'
  <1> PICK n \in Nat : n = Len(stack)
    BY LenProperties DEF PassInv, TypeOK
  <1> PICK c : c = stack[n]
    OBVIOUS
  <1>0. /\ TypeOK /\ pc = "back" /\ stack \in Seq(0..head) /\ head \in Nat
        /\ n \in Nat /\ n >= 1 /\ c \in 0..head /\ seen \in 0..head
        /\ bottom \in Nat
    BY EmptySeq, LenProperties DEF PassInv, Back, Backward, TypeOK
  <1>1. /\ hi' \in 0..head
        /\ lo' \in 1..(head + 1)
        /\ lo' <= hi' + 1
        /\ hi' = IF c = NoCursor THEN head ELSE c - 1
        /\ lo' = IF hi' >= Limit THEN hi' - Limit + 1 ELSE 1
        /\ at' = hi' /\ cursor' = c
    BY <1>0, PageBounds DEF Back
  <1>2. /\ stack' \in Seq(0..head)
        /\ Len(stack') = n - 1
        /\ n = 1 => stack' = <<>>
        /\ n >= 2 => stack' # <<>>
        /\ \A i \in 1..(n - 1) : stack'[i] = stack[i]
    BY <1>0, Pop DEF Back
  <1>3. TypeOK'
    BY <1>0, <1>1, <1>2 DEF Back, TypeOK, Pcs
  <1>4. \A i \in 1..(n - 1) : TopOf(i)' = TopOf(i) /\ EndOf(i)' = EndOf(i)
    BY <1>0, <1>2 DEF Back, TopOf, EndOf
  <1>5. StackIsContiguous'
    <2>1. n - 1 >= 1 => stack'[1] = NoCursor
      <3>1. stack[1] = NoCursor
        BY <1>0 DEF PassInv, StackIsContiguous
      <3>2. n - 1 >= 1 => 1 \in 1..(n - 1)
        BY <1>0
      <3> QED BY <1>2, <3>1, <3>2
    <2>2. ASSUME NEW i \in 2..(n - 1)
          PROVE  TopOf(i - 1)' >= Limit /\ stack'[i] = TopOf(i - 1)' - Limit + 1
      <3>1. i \in 2..n /\ i \in 1..(n - 1) /\ i - 1 \in 1..(n - 1)
        BY <1>0
      <3> QED BY <1>2, <1>4, <3>1 DEF PassInv, StackIsContiguous
    <2> QED BY <1>2, <2>1, <2>2 DEF StackIsContiguous, TopOf
  <1>6. bottom..(EndOf(n) - 1) \subseteq processed
    BY <1>0 DEF PassInv, Backward
  <1>7. CASE n = 1
    <2>1. c = NoCursor /\ stack' = <<>>
      BY <1>0, <1>2, <1>7 DEF PassInv, StackIsContiguous
    <2>2. EndOf(n) = IF seen >= Limit THEN seen - Limit + 1 ELSE 1
      BY <1>7 DEF EndOf, TopOf
    <2>3. HandlesNewestPage'
      BY <1>0, <1>1, <1>6, <2>1, <2>2 DEF HandlesNewestPage, Back
    <2> QED BY <1>0, <1>1, <1>3, <1>5, <2>3 DEF PassInv, Forward, Backward, Back
  <1>8. CASE n >= 2
    <2>1. TopOf(n - 1) >= Limit /\ c = TopOf(n - 1) - Limit + 1
      BY <1>0, <1>8 DEF PassInv, StackIsContiguous
    <2>2. TopOf(n - 1) \in Nat
      <3>1. n - 1 \in 1..Len(stack) /\ stack[n - 1] \in 0..head
        BY <1>0, <1>8
      <3>2. TopOf(n - 1) = seen \/ TopOf(n - 1) = stack[n - 1] - 1
        BY DEF TopOf
      <3>3. seen \in Nat /\ stack[n - 1] - 1 \in Int
        BY <1>0, <3>1
      <3> QED BY <2>1, <3>2, <3>3
    <2>3. c # NoCursor /\ hi' = c - 1 /\ TopOf(n) = c - 1 /\ EndOf(n) = lo'
      <3>1. c \in Nat /\ c >= 1
        BY <2>1, <2>2
      <3>2. c # NoCursor /\ hi' = c - 1
        BY <1>1, <3>1 DEF NoCursor
      <3>3. TopOf(n) = c - 1
        BY <1>8 DEF TopOf
      <3> QED BY <1>1, <3>2, <3>3 DEF EndOf
    <2>4. hi' + 1 = EndOf(n - 1)
      BY <2>1, <2>2, <2>3 DEF EndOf
    <2>5. hi' + 1 = EndOf(Len(stack))'
      <3>1. n - 1 \in 1..(n - 1)
        BY <1>0, <1>8
      <3>2. EndOf(n - 1)' = EndOf(n - 1)
        BY <1>4, <3>1
      <3> QED BY <1>2, <2>4, <3>2
    <2>6. bottom' = bottom /\ processed' = processed /\ at' = hi'
      BY DEF Back
    <2>7. HandlesOlderPage'
      <3>1. (at' + 1)..hi' = {}
        BY <1>1
      <3>2. stack' # <<>>
        BY <1>2, <1>8
      <3>3. bottom'..(lo' - 1) \subseteq processed'
        BY <1>6, <2>3, <2>6
      <3> QED BY <2>5, <3>1, <3>2, <3>3 DEF HandlesOlderPage
    <2> QED BY <1>0, <1>1, <1>3, <1>5, <2>7 DEF PassInv, Forward, Backward, Back
  <1> QED BY <1>0, <1>7, <1>8

LEMMA HandleTxInv == ASSUME PassInv, HandleTx PROVE PassInv'
  <1> USE DEF HandleTx
  <1>1. at \in lo..hi /\ lo \in 1..(head + 1) /\ hi \in 0..head
    BY DEF PassInv, TypeOK
  <1>2. TypeOK'
    BY <1>1 DEF PassInv, TypeOK
  <1>3. StackIsContiguous' /\ Forward' /\ Backward' /\ (pc = "idle" => NoPass)'
    BY DEF PassInv, StackIsContiguous, Forward, Backward, TopOf, EndOf
  <1>4. processed \subseteq processed'
        /\ ((at + 1)..hi \subseteq processed => (at' + 1)..hi \subseteq processed')
    BY <1>1
  <1>5. /\ HandlesFoundPage => HandlesFoundPage'
        /\ HandlesOlderPage => HandlesOlderPage'
        /\ HandlesNewestPage => HandlesNewestPage'
    BY <1>4 DEF HandlesFoundPage, HandlesOlderPage, HandlesNewestPage, TopOf,
                EndOf
  <1>6. lo' <= at' + 1 /\ at' <= hi'
    BY <1>1
  <1> QED BY <1>2, <1>3, <1>5, <1>6 DEF PassInv

LEMMA PageDoneInv == ASSUME PassInv, PageDone PROVE PassInv'
  <1>1. CASE stack = <<>> /\ EndPass
    BY <1>1, EndPassInv DEF PageDone, PassInv, TypeOK
  <1>2. CASE stack # <<>> /\ pc' = "back" /\ UNCHANGED pass
    <2> USE <1>2 DEF PageDone, pass
    <2>1. TypeOK'
      BY DEF PassInv, TypeOK, Pcs
    <2>2. StackIsContiguous' /\ Forward' /\ (pc = "idle" => NoPass)'
      BY DEF PassInv, StackIsContiguous, Forward, TopOf, EndOf
    <2>3. bottom..(EndOf(Len(stack)) - 1) \subseteq processed
      <3>1. CASE HandlesFoundPage
        BY <3>1 DEF HandlesFoundPage, PassInv, TypeOK
      <3>2. CASE HandlesOlderPage
        <4>1. at \in Nat /\ lo \in Nat /\ hi \in Nat /\ bottom \in Nat /\ at < lo
          BY DEF PassInv, TypeOK
        <4>2. bottom..hi \subseteq (bottom..(lo - 1)) \cup ((at + 1)..hi)
          BY <4>1
        <4>3. EndOf(Len(stack)) - 1 = hi
          BY <3>2, <4>1 DEF HandlesOlderPage
        <4> QED BY <3>2, <4>2, <4>3 DEF HandlesOlderPage
      <3> QED BY <3>1, <3>2 DEF PassInv, HandlesNewestPage
    <2>4. Backward'
      BY <2>3 DEF Backward, TopOf, EndOf
    <2> QED BY <2>1, <2>2, <2>4 DEF PassInv
  <1> QED BY <1>1, <1>2 DEF PageDone

LEMMA NextInv == ASSUME PassInv, [Next]_vars PROVE PassInv'
  <1>1. CASE Advance
    <2>1. CASE HandlePoison
      BY <2>1, EndPassInv DEF HandlePoison, PassInv, TypeOK
    <2> QED BY <1>1, <2>1, StartInv, NextPageInv, CheckPageInv, BackInv,
            HandleTxInv, PageDoneInv DEF Advance
  <1>2. CASE Abort
    <2>1. faults' \in 0..MaxFaults
      BY <1>2 DEF Abort, PassInv, TypeOK
    <2> QED BY <1>2, <2>1, EndPassInv DEF Abort
  <1>3. CASE UNCHANGED vars
    BY <1>3 DEF vars, PassInv, TypeOK, NoPass, StackIsContiguous, Forward,
       Backward, HandlesFoundPage, HandlesOlderPage, HandlesNewestPage, TopOf,
       EndOf
  <1> QED BY <1>1, <1>2, <1>3, ArriveInv DEF Next

\* The iterator's stack, the page in hand and the pass's progress fit together
\* in every state: the cursors are adjacent page boundaries, and going back
\* every page older than the one in hand is done.
THEOREM PassIsSound == Spec => []PassInv
  BY InitInv, NextInv, PTL DEF Spec

\* A pass that ends has left out nothing of the pages it fetched, the first one
\* and its newer transactions included, but what arrivals pushed off the first
\* page between the two times process() fetches that page.
THEOREM FetchedPagesDone == Spec => []SkipsOnlyPushedOut
  <1>1. PassInv => SkipsOnlyPushedOut
    <2> SUFFICES ASSUME PassInv, PassEnds
                 PROVE  (bottom..hi) \ processed \subseteq
                          (seen - Limit + 1)..(hi - Limit)
      BY DEF SkipsOnlyPushedOut
    <2>1. HandlesNewestPage
      BY DEF PassInv, PassEnds, HandlesFoundPage, HandlesOlderPage
    <2>2. /\ at \in Nat /\ lo \in Nat /\ hi \in Nat /\ bottom \in Nat
          /\ seen \in Nat /\ at < lo
      BY DEF PassInv, TypeOK, PassEnds
    <2>3. /\ bottom..(seen - Limit) \subseteq processed
          /\ lo..hi \subseteq processed
      BY <2>1, <2>2 DEF HandlesNewestPage
    <2>4. lo <= hi - Limit + 1 \/ lo = 1
      BY <2>1, <2>2 DEF HandlesNewestPage
    <2> QED BY <2>2, <2>3, <2>4 DEF PassInv, TypeOK
  <1> QED BY <1>1, PassIsSound, PTL

\* A pass handles its pages from the oldest to the newest.
THEOREM PagesInOrder == Spec => []OlderPagesFirst
  <1>1. PassInv => OlderPagesFirst
    <2> SUFFICES ASSUME PassInv, pc = "handle"
                 PROVE  (bottom..(lo - 1)) \ processed \subseteq
                          IF cursor = NoCursor
                            THEN (seen - Limit + 1)..(hi - Limit) ELSE {}
      BY DEF OlderPagesFirst
    <2>1. lo \in Nat /\ hi \in Nat /\ bottom \in Nat /\ seen \in Nat
      BY DEF PassInv, TypeOK
    <2>2. CASE HandlesFoundPage
      BY <2>1, <2>2 DEF HandlesFoundPage
    <2>3. CASE HandlesOlderPage
      BY <2>3 DEF HandlesOlderPage
    <2>4. CASE HandlesNewestPage
      BY <2>1, <2>4 DEF HandlesNewestPage, PassInv, TypeOK
    <2> QED BY <2>2, <2>3, <2>4 DEF PassInv
  <1> QED BY <1>1, PassIsSound, PTL

-----------------------------------------------------------------------------
\* Where a pass starts to handle, action by action.
LEMMA NextPageStarts ==
  ASSUME PassInv, StartsAtHandled, NextPage PROVE StartsAtHandled'
  <1>1. TypeOK /\ cursor \in 0..head /\ FetchPage(cursor)
    BY DEF PassInv, TypeOK, NextPage
  <1>2. /\ lo' = IF hi' >= Limit THEN hi' - Limit + 1 ELSE 1
        /\ PageIsFull(cursor) <=> hi' >= Limit
    BY <1>1, PageBounds
  <1>3. pc' = "check" /\ canNext = TRUE
    BY DEF NextPage, PassInv, Forward
  <1>4. canNext' \/ lo' = 1
    BY <1>2, <1>3 DEF NextPage
  <1> QED BY <1>3, <1>4 DEF StartsAtHandled

LEMMA CheckPageStarts ==
  ASSUME PassInv, StartsAtHandled, CheckPage PROVE StartsAtHandled'
  <1> USE DEF CheckPage
  <1>1. bottom = lo /\ lo \in Nat /\ hi \in Nat
    BY DEF PassInv, TypeOK, Forward
  <1>2. CASE HasProcessed /\ pc' = "handle"
    <2>1. PICK r \in lo..hi : r \in processed
      BY <1>2 DEF HasProcessed
    <2>2. r \in processed' /\ bottom' <= r
      BY <1>1, <2>1
    <2> QED BY <1>2, <2>2 DEF StartsAtHandled
  <1>3. CASE ~HasProcessed /\ pc' = "next"
    BY <1>3 DEF StartsAtHandled
  <1>4. CASE ~HasProcessed /\ ~canNext /\ pc' = "back"
    BY <1>1, <1>4 DEF StartsAtHandled
  <1> QED BY <1>2, <1>3, <1>4

LEMMA NextStarts ==
  ASSUME PassInv, StartsAtHandled, [Next]_vars PROVE StartsAtHandled'
  <1>1. CASE Arrive \/ UNCHANGED vars
    BY <1>1 DEF Arrive, pass, vars, StartsAtHandled
  <1>2. CASE Abort \/ HandlePoison
    BY <1>2 DEF Abort, HandlePoison, EndPass, StartsAtHandled
  <1>3. CASE Start
    BY <1>3 DEF Start, StartsAtHandled
  <1>4. CASE Back
    BY <1>4 DEF Back, StartsAtHandled
  <1>5. CASE HandleTx
    BY <1>5 DEF HandleTx, StartsAtHandled
  <1>6. CASE PageDone
    BY <1>6 DEF PageDone, EndPass, pass, StartsAtHandled
  <1> QED BY <1>1, <1>2, <1>3, <1>4, <1>5, <1>6, NextPageStarts,
          CheckPageStarts DEF Next, Advance

\* In every state a pass that handles has started at a handled transaction, or
\* at the account's first one.
THEOREM StartsWhereHandled == Spec => []StartsAtHandled
  <1>1. Init => StartsAtHandled
    BY DEF Init, StartsAtHandled
  <1> QED BY <1>1, NextStarts, PassIsSound, PTL DEF Spec

\* What falls behind does so on the page in hand, or pushed off the first page,
\* whatever fails, arrives, and was left by the passes before.
THEOREM BehindOnlyInHand == Spec => LeftBehindInHand
  <1>1. ASSUME PassInv, OlderPagesFirst, StartsAtHandled, [Next]_vars,
               NEW t \in 1..head, ~Behind(t), Behind(t)'
        PROVE  \/ t \in lo..(at - 1)
               \/ cursor = NoCursor /\ t \in (seen - Limit + 1)..(hi - Limit)
    <2>1. processed' # processed
      BY <1>1 DEF Behind
    <2>2. HandleTx
      BY <1>1, <2>1 DEF Next, Advance, vars, Arrive, Abort, Start, NextPage,
         CheckPage, Back, HandlePoison, PageDone
    <2>3. processed' = processed \cup {at} /\ pc = "handle"
      BY <2>2 DEF HandleTx
    <2>4. /\ t \notin processed
          /\ \A s \in processed : ~(t < s)
          /\ t < at
      BY <1>1, <2>3 DEF Behind
    <2>5. /\ at \in Nat /\ lo \in Nat /\ bottom \in Nat /\ t \in Nat /\ t >= 1
          /\ head \in Nat
      BY <1>1 DEF PassInv, TypeOK
    <2>6. bottom <= t
      <3>1. CASE bottom = 1
        BY <2>5, <3>1
      <3>2. CASE \E r \in processed : bottom <= r
        <4>1. PICK r \in processed : bottom <= r
          BY <3>2
        <4>2. r \in Nat
          BY <1>1, <2>5 DEF PassInv, TypeOK
        <4> QED BY <2>4, <2>5, <4>1, <4>2
      <3> QED BY <1>1, <2>3, <3>1, <3>2 DEF StartsAtHandled
    <2>7. CASE lo <= t
      BY <2>4, <2>5, <2>7
    <2>8. CASE t < lo
      <3>1. t \in (bottom..(lo - 1)) \ processed
        BY <2>4, <2>5, <2>6, <2>8
      <3> QED BY <1>1, <2>3, <3>1 DEF OlderPagesFirst
    <2> QED BY <2>5, <2>7, <2>8
  <1>2. PassInv /\ OlderPagesFirst /\ StartsAtHandled /\ [Next]_vars =>
          [\A t \in 1..head :
             ~Behind(t) /\ Behind(t)' =>
               \/ t \in lo..(at - 1)
               \/ cursor = NoCursor
                    /\ t \in (seen - Limit + 1)..(hi - Limit)]_vars
    BY <1>1
  <1> QED BY <1>2, PassIsSound, PagesInOrder, StartsWhereHandled, PTL
       DEF Spec, LeftBehindInHand

-----------------------------------------------------------------------------
(***************************************************************************)
(* A pass descends: each step makes Rest less, in the lexicographic order  *)
(* of triples of naturals, in which nothing descends for ever.             *)
(***************************************************************************)

\* Every set of naturals that is not empty has a least one.
LEMMA Least ==
  ASSUME NEW T \in SUBSET Nat, T # {}
  PROVE  \E x \in T : \A y \in T : x <= y
  <1> DEFINE R == {p \in Nat \X Nat : p[1] < p[2]}
  <1>1. IsWellFoundedOn(R, Nat)
    BY NatLessThanWellFounded, Zenon DEF OpToRel
  <1>2. \A x, y \in Nat : y < x => <<y, x>> \in R
    OBVIOUS
  <1> HIDE DEF R
  <1>3. PICK x \in T : \A y \in T : <<y, x>> \notin R
    BY <1>1, WFMin
  <1>4. \A y \in T : ~(y < x)
    BY <1>2, <1>3, Zenon
  <1>5. \A y \in T : y \in Nat /\ x \in Nat
    OBVIOUS
  <1> QED BY <1>4, <1>5

\* So has every set of triples: Less is well-founded.
LEMMA LessIsWellFounded ==
  ASSUME NEW T \in SUBSET (Nat \X Nat \X Nat), T # {}
  PROVE  \E x \in T : \A y \in T : ~Less(y, x)
  <1> DEFINE A == {x[1] : x \in T}
  <1>1. A \in SUBSET Nat /\ A # {}
    OBVIOUS
  <1>2. PICK a \in A : \A n \in A : a <= n
    BY <1>1, Least
  <1> DEFINE B == {x[2] : x \in {y \in T : y[1] = a}}
  <1>3. B \in SUBSET Nat /\ B # {}
    OBVIOUS
  <1>4. PICK b \in B : \A n \in B : b <= n
    BY <1>3, Least
  <1> DEFINE C == {x[3] : x \in {y \in T : y[1] = a /\ y[2] = b}}
  <1>5. C \in SUBSET Nat /\ C # {}
    OBVIOUS
  <1>6. PICK c \in C : \A n \in C : c <= n
    BY <1>5, Least
  <1>7. PICK x \in T : x[1] = a /\ x[2] = b /\ x[3] = c
    OBVIOUS
  <1>8. ASSUME NEW y \in T, Less(y, x) PROVE FALSE
    <2>1. y[1] \in A /\ y[1] \in Nat /\ a \in Nat
      BY <1>1
    <2>2. ~(y[1] < a)
      BY <1>2, <2>1
    <2>3. y[1] = a
      BY <1>7, <1>8, <2>2 DEF Less
    <2>4. y[2] \in B /\ y[2] \in Nat /\ b \in Nat
      BY <1>3, <2>3
    <2>5. ~(y[2] < b)
      <3> HIDE DEF B
      <3>1. b <= y[2]
        BY <1>4, <2>4
      <3> QED BY <2>4, <3>1
    <2>6. y[2] = b
      BY <1>7, <1>8, <2>2, <2>5 DEF Less
    <2>7. y[3] \in C /\ y[3] \in Nat /\ c \in Nat
      BY <1>5, <2>3, <2>6
    <2>8. ~(y[3] < c)
      BY <1>6, <2>7
    <2> QED BY <1>7, <1>8, <2>2, <2>5, <2>8 DEF Less
  <1> QED BY <1>8

\* What Rest is at each statement, as far as the invariant tells.
LEMMA RestIs ==
  ASSUME PassInv
  PROVE  /\ pc = "next" /\ stack = <<>> => Rest = <<2, 0, 0>>
         /\ pc = "next" /\ stack # <<>> => Rest = <<1, lo, 0>>
         /\ pc = "check" => Rest = <<1, IF canNext THEN lo ELSE 0, 1>>
         /\ pc = "handle" => Rest = <<0, Len(stack), at - lo + 2>>
         /\ pc = "back" => Rest = <<0, Len(stack), 0>>
  BY DEF Rest

LEMMA RestType ==
  ASSUME PassInv, pc # "idle" PROVE Rest \in Nat \X Nat \X Nat
  <1>1. /\ lo \in Nat /\ at \in Nat /\ pc \in Pcs
        /\ pc = "handle" => lo <= at + 1
    BY DEF PassInv, TypeOK
  <1>2. Len(stack) \in Nat
    BY LenProperties DEF PassInv, TypeOK
  <1>3. pc = "handle" => at - lo + 2 \in Nat
    BY <1>1
  <1>4. (IF canNext THEN lo ELSE 0) \in Nat
    BY <1>1
  <1> QED BY <1>1, <1>2, <1>3, <1>4, RestIs DEF Pcs

LEMMA NextPageDescends ==
  ASSUME PassInv, PassInv', NextPage PROVE Less(Rest', Rest)
  <1>1. TypeOK /\ cursor \in 0..head /\ FetchPage(cursor)
    BY DEF PassInv, TypeOK, NextPage
  <1>2. /\ hi' = IF cursor = NoCursor THEN head ELSE cursor - 1
        /\ lo' = IF hi' >= Limit THEN hi' - Limit + 1 ELSE 1
        /\ PageIsFull(cursor) <=> hi' >= Limit
    BY <1>1, PageBounds
  <1>3. Rest' = <<1, IF canNext' THEN lo' ELSE 0, 1>>
    BY DEF Rest, NextPage
  <1>4. CASE stack = <<>>
    BY <1>3, <1>4 DEF Rest, NextPage, Less
  <1>5. CASE stack # <<>>
    <2>1. Rest = <<1, lo, 0>> /\ cursor = lo /\ lo \in 1..(head + 1) /\ head \in Nat
      BY <1>5 DEF Rest, NextPage, PassInv, Forward, TypeOK
    <2>2. hi' = lo - 1
      BY <1>2, <2>1 DEF NoCursor
    <2>3. (IF canNext' THEN lo' ELSE 0) < lo
      <3>1. CASE PageIsFull(cursor)
        BY <1>2, <2>1, <2>2, <3>1
      <3>2. CASE ~PageIsFull(cursor)
        BY <2>1, <3>2 DEF NextPage
      <3> QED BY <3>1, <3>2
    <2> QED BY <1>3, <2>1, <2>3 DEF Less
  <1> QED BY <1>4, <1>5

LEMMA CheckPageDescends ==
  ASSUME PassInv, PassInv', CheckPage PROVE Less(Rest', Rest)
  <1>1. /\ Rest = <<1, IF canNext THEN lo ELSE 0, 1>>
        /\ stack # <<>>
    BY DEF Rest, CheckPage, PassInv, Forward
  <1>2. UNCHANGED <<stack, canNext, lo>>
    BY DEF CheckPage
  <1>3. CASE pc' = "next" /\ canNext
    BY <1>1, <1>2, <1>3 DEF Rest, Less
  <1>4. CASE pc' \in {"handle", "back"}
    BY <1>1, <1>4 DEF Rest, Less
  <1> QED BY <1>3, <1>4 DEF CheckPage

LEMMA BackDescends ==
  ASSUME PassInv, PassInv', Back PROVE Less(Rest', Rest)
  <1>1. stack \in Seq(0..head) /\ Len(stack) \in Nat /\ Len(stack) >= 1
    BY EmptySeq, LenProperties DEF PassInv, TypeOK, Back, Backward
  <1>2. Len(stack') = Len(stack) - 1
    BY <1>1, Pop DEF Back
  <1>3. Rest = <<0, Len(stack), 0>> /\ Rest' = <<0, Len(stack'), at' - lo' + 2>>
    BY DEF Rest, Back
  <1> QED BY <1>1, <1>2, <1>3 DEF Less

LEMMA HandleTxDescends ==
  ASSUME PassInv, PassInv', HandleTx PROVE Less(Rest', Rest)
  <1>1. at \in Nat /\ lo \in Nat /\ at' = at - 1 /\ UNCHANGED <<stack, lo>>
    BY DEF PassInv, TypeOK, HandleTx
  <1>2. /\ Rest = <<0, Len(stack), at - lo + 2>>
        /\ Rest' = <<0, Len(stack), (at - 1) - lo + 2>>
    BY <1>1 DEF Rest, HandleTx
  <1>3. (at - 1) - lo + 2 < at - lo + 2
    BY <1>1
  <1> QED BY <1>2, <1>3 DEF Less

LEMMA PageDoneDescends ==
  ASSUME PassInv, PassInv', PageDone, pc' # "idle" PROVE Less(Rest', Rest)
  <1>1. pc' = "back" /\ UNCHANGED stack
    BY DEF PageDone, EndPass, pass
  <1>2. at \in Nat /\ lo \in Nat /\ lo <= at + 1
    BY DEF PassInv, TypeOK, PageDone
  <1>3. /\ Rest = <<0, Len(stack), at - lo + 2>>
        /\ Rest' = <<0, Len(stack), 0>>
    BY <1>1 DEF Rest, PageDone
  <1>4. 0 < at - lo + 2
    BY <1>2
  <1> QED BY <1>3, <1>4 DEF Less

\* Every step of a pass leaves less to do: whatever the account holds and
\* receives, process() fetches, checks and handles only so often.
THEOREM PassGetsShorter == Spec => PassDescends
  <1>1. ASSUME PassInv, PassInv', Next, pc # "idle", pc' # "idle"
        PROVE  /\ Rest' \in Nat \X Nat \X Nat
               /\ IF head' = head THEN Less(Rest', Rest) ELSE Rest' = Rest
    <2>1. Rest' \in Nat \X Nat \X Nat
      <3>1. (pc # "idle" => Rest \in Nat \X Nat \X Nat)'
        BY <1>1, RestType, PTL
      <3> QED BY <1>1, <3>1
    <2>2. CASE Arrive
      <3>1. head' # head
        BY <1>1, <2>2 DEF Arrive, PassInv, TypeOK
      <3>2. Rest' = Rest
        BY <2>2 DEF Arrive, pass, Rest
      <3> QED BY <2>1, <3>1, <3>2
    <2>3. CASE Advance
      <3>1. head' = head
        BY <2>3 DEF Advance, Start, NextPage, CheckPage, Back, HandleTx,
           HandlePoison, PageDone
      <3>2. ~Start /\ ~HandlePoison
        BY <1>1 DEF Start, HandlePoison, EndPass
      <3>3. Less(Rest', Rest)
        BY <1>1, <2>3, <3>2, NextPageDescends, CheckPageDescends, BackDescends,
           HandleTxDescends, PageDoneDescends DEF Advance
      <3> QED BY <2>1, <3>1, <3>3
    <2>4. ~Abort
      BY <1>1 DEF Abort, EndPass
    <2> QED BY <1>1, <2>2, <2>3, <2>4 DEF Next
  <1>2. PassInv /\ PassInv' /\ [Next]_vars =>
          [pc # "idle" /\ pc' # "idle" =>
             /\ Rest' \in Nat \X Nat \X Nat
             /\ IF head' = head THEN Less(Rest', Rest) ELSE Rest' = Rest]_vars
    BY <1>1
  <1> QED BY <1>2, PassIsSound, PTL DEF Spec, PassDescends

-----------------------------------------------------------------------------
\* What NewerUntouched says of the page in hand, action by action.
LEMMA NextPageNewer ==
  ASSUME PassInv, NewerUntouched, NextPage PROVE NewerUntouched'
  <1>1. /\ TypeOK /\ cursor \in 0..head /\ head \in Nat /\ processed \subseteq 1..head
        /\ pc' = "check" /\ processed' = processed /\ FetchPage(cursor)
    BY DEF PassInv, TypeOK, NextPage
  <1>2. /\ hi' = IF cursor = NoCursor THEN head ELSE cursor - 1
        /\ lo' = IF hi' >= Limit THEN hi' - Limit + 1 ELSE 1
        /\ hi' \in 0..head
    BY <1>1, PageBounds
  <1>3. processed \subseteq 1..hi'
    <2>1. CASE stack = <<>>
      BY <1>1, <1>2, <2>1 DEF PassInv, Forward, NextPage
    <2>2. CASE stack # <<>>
      <3>1. cursor = lo /\ lo \in 1..(head + 1)
        BY <2>2 DEF PassInv, TypeOK, Forward, NextPage
      <3>2. processed \subseteq 1..(lo - 1)
        BY <2>2 DEF NewerUntouched, NextPage
      <3> QED BY <1>2, <3>1, <3>2 DEF NoCursor
    <2> QED BY <2>1, <2>2
  <1> QED BY <1>1, <1>2, <1>3 DEF NewerUntouched

LEMMA CheckPageNewer ==
  ASSUME PassInv, NewerUntouched, CheckPage PROVE NewerUntouched'
  <1> USE DEF CheckPage
  <1>1. /\ processed \subseteq 1..hi /\ hi < lo + Limit
        /\ lo \in Nat /\ hi \in Nat
        /\ hi = TopOf(Len(stack))
    BY DEF PassInv, TypeOK, Forward, NewerUntouched
  <1>2. TopOf(Len(stack))' = TopOf(Len(stack))
    BY DEF TopOf
  <1>3. CASE HasProcessed /\ pc' = "handle"
    BY <1>1, <1>2, <1>3 DEF NewerUntouched
  <1>4. CASE ~HasProcessed /\ pc' = "next"
    BY <1>1, <1>4 DEF NewerUntouched, HasProcessed
  <1>5. CASE pc' = "back"
    BY <1>1, <1>2, <1>5 DEF NewerUntouched
  <1> QED BY <1>3, <1>4, <1>5

LEMMA BackNewer == ASSUME PassInv, NewerUntouched, Back PROVE NewerUntouched'
  <1> PICK n \in Nat : n = Len(stack)
    BY LenProperties DEF PassInv, TypeOK
  <1> PICK c : c = stack[n]
    OBVIOUS
  <1>0. /\ TypeOK /\ pc = "back" /\ stack \in Seq(0..head) /\ head \in Nat
        /\ n >= 1 /\ c \in 0..head /\ processed \subseteq 1..head
        /\ pc' = "handle" /\ processed' = processed /\ seen' = seen
        /\ stack' = SubSeq(stack, 1, n - 1) /\ FetchPage(c)
    BY EmptySeq, LenProperties DEF PassInv, Back, Backward, TypeOK
  <1>1. /\ hi' = IF c = NoCursor THEN head ELSE c - 1
        /\ lo' = IF hi' >= Limit THEN hi' - Limit + 1 ELSE 1
        /\ hi' \in 0..head
    BY <1>0, PageBounds
  <1>2. /\ Len(stack') = n - 1
        /\ n = 1 => stack' = <<>>
        /\ \A i \in 1..(n - 1) : stack'[i] = stack[i]
    BY <1>0, Pop
  <1>3. processed \subseteq 1..TopOf(n)
    BY <1>0 DEF NewerUntouched
  <1>4. CASE n = 1
    <2>1. stack' = <<>> /\ c = NoCursor
      BY <1>0, <1>2, <1>4 DEF PassInv, StackIsContiguous
    <2>2. processed' \subseteq 1..hi' /\ hi' < lo' + Limit
      BY <1>0, <1>1, <2>1
    <2> QED BY <1>0, <2>1, <2>2 DEF NewerUntouched
  <1>5. CASE n >= 2
    <2>1. c = TopOf(n - 1) - Limit + 1 /\ TopOf(n - 1) >= Limit
      BY <1>0, <1>5 DEF PassInv, StackIsContiguous
    <2>2. TopOf(n - 1)' = TopOf(n - 1) /\ TopOf(n) = c - 1
      <3>1. n - 1 \in 1..(n - 1)
        BY <1>5
      <3> QED BY <1>0, <1>2, <1>5, <3>1 DEF TopOf
    <2>3. TopOf(n - 1) \in Int
      <3>1. n - 1 \in 1..Len(stack) /\ stack[n - 1] \in 0..head
        BY <1>0, <1>5
      <3> QED BY <1>0, <3>1 DEF TopOf, TypeOK
    <2>4. c # NoCursor
      BY <2>1, <2>3 DEF NoCursor
    <2>5. hi' = c - 1
      BY <1>1, <2>4
    <2>6. processed' \subseteq 1..hi'
      BY <1>0, <1>3, <2>2, <2>5
    <2>7. hi' <= TopOf(n - 1)'
      BY <2>1, <2>2, <2>3, <2>5
    <2>8. TopOf(Len(stack))' = TopOf(n - 1)'
      BY <1>2
    <2>9. hi' < lo' + Limit
      BY <1>1
    <2> QED BY <1>0, <2>6, <2>7, <2>8, <2>9 DEF NewerUntouched
  <1> QED BY <1>0, <1>4, <1>5

LEMMA HandleTxNewer ==
  ASSUME PassInv, NewerUntouched, HandleTx PROVE NewerUntouched'
  <1> USE DEF HandleTx
  <1>1. at \in 1..hi
    BY DEF PassInv, TypeOK
  <1>2. TopOf(Len(stack))' = TopOf(Len(stack))
    BY DEF TopOf
  <1> QED BY <1>1, <1>2 DEF NewerUntouched

LEMMA PageDoneNewer ==
  ASSUME PassInv, NewerUntouched, PageDone PROVE NewerUntouched'
  <1> USE DEF PageDone
  <1>1. CASE stack = <<>> /\ EndPass
    BY <1>1 DEF EndPass, NewerUntouched
  <1>2. CASE stack # <<>> /\ pc' = "back" /\ UNCHANGED pass
    <2>1. TopOf(Len(stack))' = TopOf(Len(stack))
      BY <1>2 DEF TopOf, pass
    <2>2. /\ processed \subseteq 1..hi /\ hi <= TopOf(Len(stack)) /\ hi \in Nat
          /\ processed' = processed
      BY <1>2 DEF NewerUntouched, PassInv, TypeOK
    <2>3. TopOf(Len(stack)) \in Int
      <3>1. stack \in Seq(0..head) /\ head \in Nat /\ seen \in Nat
        BY DEF PassInv, TypeOK
      <3>2. Len(stack) \in 1..Len(stack)
        BY <1>2, <3>1, EmptySeq, LenProperties
      <3>3. stack[Len(stack)] \in 0..head
        BY <3>1, <3>2
      <3> QED BY <3>1, <3>3 DEF TopOf
    <2> QED BY <1>2, <2>1, <2>2, <2>3 DEF NewerUntouched
  <1> QED BY <1>1, <1>2

LEMMA NextNewer ==
  ASSUME PassInv, NewerUntouched, [Next]_vars PROVE NewerUntouched'
  <1>1. CASE Arrive \/ UNCHANGED vars
    <2>1. UNCHANGED <<processed, pc, stack, seen, lo, hi>>
      BY <1>1 DEF Arrive, pass, vars
    <2> QED BY <2>1 DEF NewerUntouched, TopOf
  <1>2. CASE Abort \/ HandlePoison
    BY <1>2 DEF Abort, HandlePoison, EndPass, NewerUntouched
  <1>3. CASE Start
    BY <1>3 DEF Start, pass, PassInv, NoPass, NewerUntouched
  <1> QED BY <1>1, <1>2, <1>3, NextPageNewer, CheckPageNewer, BackNewer,
          HandleTxNewer, PageDoneNewer DEF Next, Advance

\* In every state the pages newer than the one in hand are untouched.
THEOREM NewerIsUntouched == Spec => []NewerUntouched
  <1>1. Init => NewerUntouched
    BY DEF Init, NewerUntouched
  <1> QED BY <1>1, NextNewer, PassIsSound, PTL DEF Spec

\* Whatever fails and arrives, a transaction handled after a newer one is less
\* than a page older than it.
THEOREM WithinPage == Spec => HandledWithinPage
  <1>1. ASSUME PassInv, NewerUntouched, [Next]_vars,
               NEW t \in processed' \ processed, NEW s \in processed
        PROVE  s < t + Limit
    <2>1. HandleTx /\ t = at
      BY <1>1 DEF Next, Advance, vars, pass, Arrive, Abort, Start, NextPage,
         CheckPage, Back, HandlePoison, PageDone, HandleTx
    <2>2. /\ s \in 1..hi /\ hi < lo + Limit /\ lo <= at
          /\ hi \in Nat /\ lo \in Nat /\ at \in Nat
      BY <1>1, <2>1 DEF HandleTx, NewerUntouched, PassInv, TypeOK
    <2> QED BY <2>1, <2>2
  <1>2. PassInv /\ NewerUntouched /\ [Next]_vars =>
          [\A t \in processed' \ processed : \A s \in processed :
             s < t + Limit]_vars
    BY <1>1
  <1> QED BY <1>2, PassIsSound, NewerIsUntouched, PTL DEF Spec, HandledWithinPage
=============================================================================

------------------------ MODULE WebhookService_proofs ------------------------
(***************************************************************************)
(* Theorems about WebhookService, for every number of webhooks, of daemons *)
(* that insert them and of failures.                                       *)
(***************************************************************************)
EXTENDS WebhookService, FiniteSetTheorems, TLAPS

USE BoundAssumption DEF Webhooks

LEMMA InitConsistent == Init => Consistent
  BY DEF Init, Consistent, TypeOK, RowStates, SentMeansAnswered, BeginInOrder,
         BatchIsComplete

LEMMA BeginInv ==
  ASSUME Consistent, NEW w \in Webhooks, Begin(w) PROVE Consistent'
  <1> USE DEF Consistent, Begin, InState
  <1>1. TypeOK'
    BY DEF TypeOK, RowStates
  <1>2. SentMeansAnswered'
    BY DEF SentMeansAnswered, TypeOK
  <1>3. BeginInOrder'
    BY DEF BeginInOrder, TypeOK
  <1>4. BatchIsComplete'
    BY DEF BatchIsComplete, BeginInOrder, TypeOK
  <1>5. (pc = "update" => \A v \in batch : Current(v) => v \in answered)'
    BY DEF Current
  <1> QED BY <1>1, <1>2, <1>3, <1>4, <1>5

LEMMA EndInv ==
  ASSUME Consistent, NEW w \in Webhooks, Commit(w) \/ RollBack(w)
  PROVE  Consistent'
  <1> USE DEF Consistent, Commit, RollBack
  <1>1. TypeOK'
    BY DEF TypeOK, RowStates
  <1>2. SentMeansAnswered'
    BY DEF SentMeansAnswered, TypeOK
  <1>3. BeginInOrder'
    BY DEF BeginInOrder, TypeOK
  <1>4. BatchIsComplete'
    <2>1. \A v \in Webhooks :
            row'[v] \in {"open", "unsent"} => row[v] \in {"open", "unsent"}
      BY DEF TypeOK
    <2>2. \A v \in batch : v \in Webhooks /\ row'[v] = "unsent"
      BY DEF BatchIsComplete, TypeOK
    <2>3. \A u \in Webhooks : \A v \in 1..(u - 1) : v \in Webhooks
      OBVIOUS
    <2>4. UNCHANGED <<batch, overlap>>
      OBVIOUS
    <2> HIDE DEF Webhooks, Commit, RollBack
    <2> QED BY <2>1, <2>2, <2>3, <2>4 DEF BatchIsComplete
  <1>5. (pc = "update" => \A v \in batch : Current(v) => v \in answered)'
    BY DEF Current
  <1> QED BY <1>1, <1>2, <1>3, <1>4, <1>5

LEMMA FindInv == ASSUME Consistent, Find PROVE Consistent'
  <1> USE DEF Consistent, Find, GoOn, InState
  <1>1. TypeOK'
    BY DEF TypeOK
  <1>2. SentMeansAnswered' /\ BeginInOrder'
    BY DEF SentMeansAnswered, BeginInOrder
  <1>3. BatchIsComplete'
    BY DEF BatchIsComplete, BeginInOrder, TypeOK
  <1> QED BY <1>1, <1>2, <1>3

\* The end of a pass that failed: the row of the webhook it was at may have been
\* marked, the merchant may have been sent it.
LEMMA EndPassInv ==
  ASSUME Consistent, EndPass, failures' \in 0..MaxFailures,
         UNCHANGED <<answered, overlap>>,
         \/ UNCHANGED <<row, posts>>
         \/ \E w \in batch : /\ row' = row
                             /\ posts' = [posts EXCEPT ![w] = @ + 1]
         \/ \E w \in batch : /\ w \in answered
                             /\ row' = [row EXCEPT ![w] = "sent"]
                             /\ posts' = posts
  PROVE  Consistent'
  <1> USE DEF Consistent, EndPass
  <1>1. TypeOK'
    BY DEF TypeOK, RowStates
  <1>2. SentMeansAnswered'
    BY DEF SentMeansAnswered, BatchIsComplete, TypeOK
  <1>3. BeginInOrder'
    BY DEF BeginInOrder, BatchIsComplete, TypeOK
  <1>4. BatchIsComplete'
    BY DEF BatchIsComplete
  <1> QED BY <1>1, <1>2, <1>3, <1>4

LEMMA PostAnsweredInv ==
  ASSUME Consistent, NEW w \in Webhooks, PostAnswered(w) PROVE Consistent'
  <1> USE DEF Consistent, PostAnswered
  <1>1. TypeOK'
    BY DEF TypeOK, Current
  <1>2. SentMeansAnswered'
    BY DEF SentMeansAnswered, BatchIsComplete, TypeOK, Current
  <1>3. BeginInOrder' /\ BatchIsComplete'
    BY DEF BeginInOrder, BatchIsComplete
  <1>4. \A v \in batch' : Current(v)' => v \in answered'
    <2>1. \A v \in batch : v \in Int
      BY DEF TypeOK
    <2>2. \A v \in batch : Current(v) => v = w
      BY <2>1 DEF Current
    <2> QED BY <2>2 DEF Current
  <1> QED BY <1>1, <1>2, <1>3, <1>4

LEMMA MarkSentInv ==
  ASSUME Consistent, NEW w \in Webhooks, MarkSent(w) PROVE Consistent'
  <1> USE DEF Consistent, MarkSent, GoOn
  <1>1. TypeOK'
    BY DEF TypeOK, RowStates
  <1>2. w \in batch /\ w \in answered /\ row[w] = "unsent"
    BY DEF Current, BatchIsComplete
  <1>3. SentMeansAnswered'
    BY <1>2 DEF SentMeansAnswered, TypeOK
  <1>4. BeginInOrder'
    BY <1>2 DEF BeginInOrder, TypeOK
  <1>5. BatchIsComplete'
    BY <1>2 DEF BatchIsComplete, TypeOK
  <1>6. pc' # "update"
    BY DEF TypeOK
  <1> QED BY <1>1, <1>3, <1>4, <1>5, <1>6

LEMMA NextConsistent == ASSUME Consistent, [Next]_vars PROVE Consistent'
  <1> USE DEF OneMoreFailure
  <1>1. failures < MaxFailures /\ failures' = failures + 1 =>
          failures' \in 0..MaxFailures
    BY DEF Consistent, TypeOK
  <1>2. ASSUME NEW w \in Webhooks, PostFails(w) PROVE Consistent'
    <2>1. w \in batch /\ OneMoreFailure /\ EndPass
      BY <1>2 DEF PostFails, Current
    <2> QED BY <1>1, <1>2, <2>1, EndPassInv DEF PostFails
  <1>3. ASSUME NEW w \in Webhooks, MarkFails(w) PROVE Consistent'
    <2>1. w \in batch /\ w \in answered /\ OneMoreFailure /\ EndPass
      BY <1>3 DEF MarkFails, Current, Consistent
    <2> QED BY <1>1, <1>3, <2>1, EndPassInv DEF MarkFails
  <1>4. CASE Crash
    BY <1>1, <1>4, EndPassInv DEF Crash
  <1>5. CASE Advance
    BY <1>5, FindInv, PostAnsweredInv, MarkSentInv DEF Advance
  <1>6. CASE UNCHANGED vars
    BY <1>6 DEF vars, Consistent, TypeOK, SentMeansAnswered, BeginInOrder,
       BatchIsComplete, Current
  <1> QED BY <1>2, <1>3, <1>4, <1>5, <1>6, BeginInv, EndInv DEF Next

-----------------------------------------------------------------------------
(***************************************************************************)
(* Failures pay for repeats.  The sets are finite, and a step adds to      *)
(* Repeats and Owed together at most one element for each failure.         *)
(***************************************************************************)

LEMMA OwedIsFinite == IsFiniteSet(Owed) /\ Cardinality(Owed) \in Nat
  <1>1. IsFiniteSet(Webhooks) /\ Owed \subseteq Webhooks
    BY FS_Interval DEF Owed
  <1> QED BY <1>1, FS_Subset, FS_CardinalityType

\* Sets that are equal, or differ by one element, as their sizes see it.
LEMMA OneMore ==
  ASSUME NEW S, IsFiniteSet(S), NEW T, NEW x, T \subseteq S \cup {x}
  PROVE  /\ IsFiniteSet(T)
         /\ Cardinality(T) \in Nat
         /\ Cardinality(S) \in Nat
         /\ Cardinality(T) <= Cardinality(S) + 1
         /\ x \notin T => Cardinality(T) <= Cardinality(S)
         /\ x \notin T /\ x \in S => Cardinality(T) <= Cardinality(S) - 1
         /\ x \in S => Cardinality(T) <= Cardinality(S)
  <1>1. /\ IsFiniteSet(S \cup {x})
        /\ Cardinality(S \cup {x}) <= Cardinality(S) + 1
        /\ Cardinality(S) \in Nat
    <2>1. Cardinality(S) \in Nat
      BY FS_CardinalityType
    <2>2. /\ IsFiniteSet(S \cup {x})
          /\ Cardinality(S \cup {x}) =
               IF x \in S THEN Cardinality(S) ELSE Cardinality(S) + 1
      BY FS_AddElement
    <2> QED BY <2>1, <2>2
  <1>2. /\ IsFiniteSet(T)
        /\ Cardinality(T) <= Cardinality(S \cup {x})
        /\ Cardinality(T) \in Nat
        /\ Cardinality(S \cup {x}) \in Nat
    BY <1>1, FS_Subset, FS_CardinalityType
  <1>3. x \notin T => Cardinality(T) <= Cardinality(S)
    <2>1. x \notin T => T \in SUBSET S
      OBVIOUS
    <2> QED BY <2>1, FS_Subset
  <1>4. x \notin T /\ x \in S => Cardinality(T) <= Cardinality(S) - 1
    <2>1. /\ IsFiniteSet(S \ {x})
          /\ x \in S => Cardinality(S \ {x}) = Cardinality(S) - 1
      BY FS_RemoveElement
    <2>2. x \notin T => T \in SUBSET (S \ {x})
      OBVIOUS
    <2> QED BY <2>1, <2>2, FS_Subset
  <1>5. x \in S => Cardinality(T) <= Cardinality(S)
    <2>1. x \in S => T \in SUBSET S
      OBVIOUS
    <2> QED BY <2>1, FS_Subset
  <1> QED BY <1>1, <1>2, <1>3, <1>4, <1>5

\* A post of w is a repeat when it is not the first one.
LEMMA RepeatsOfPost ==
  ASSUME posts \in [Webhooks -> Nat], NEW w \in Webhooks,
         posts' = [posts EXCEPT ![w] = @ + 1]
  PROVE  /\ Repeats' \subseteq Repeats \cup {<<w, posts[w] + 1>>}
         /\ posts[w] = 0 => Repeats' \subseteq Repeats
  <1>1. ASSUME NEW v \in Webhooks, NEW k \in 2..posts'[v]
        PROVE  /\ <<v, k>> \in Repeats \cup {<<w, posts[w] + 1>>}
               /\ posts[w] = 0 => <<v, k>> \in Repeats
    <2>1. \/ v # w /\ k \in 2..posts[v]
          \/ v = w /\ k \in 2..posts[v]
          \/ v = w /\ k = posts[w] + 1 /\ posts[w] # 0
      BY <1>1
    <2> QED BY <2>1 DEF Repeats
  <1> QED BY <1>1 DEF Repeats

\* The steps of a pass: what each adds to Repeats and to Owed.
RepeatsInv == IsFiniteSet(Repeats) /\ RepeatsAreOwed

LEMMA InitRepeats == Init => RepeatsInv
  <1>1. Init => Repeats = {} /\ Owed = {}
    BY DEF Init, Repeats, Owed
  <1> QED BY <1>1, FS_EmptySet DEF RepeatsInv, RepeatsAreOwed, Init

LEMMA SameRepeats ==
  ASSUME RepeatsInv, posts' = posts, failures \in Nat,
         \/ Owed' \subseteq Owed /\ failures' = failures
         \/ /\ \E w \in Webhooks : Owed' \subseteq Owed \cup {w}
            /\ failures' = failures + 1
  PROVE  RepeatsInv'
  <1>1. Repeats' = Repeats
    BY DEF Repeats
  <1>2. Cardinality(Repeats) \in Nat
    BY FS_CardinalityType DEF RepeatsInv
  <1>3. CASE Owed' \subseteq Owed /\ failures' = failures
    <2>1. Cardinality(Owed') <= Cardinality(Owed)
      BY <1>3, OwedIsFinite, FS_Subset
    <2>2. Cardinality(Owed') \in Nat /\ Cardinality(Owed) \in Nat
      BY <1>3, OwedIsFinite, FS_Subset, FS_CardinalityType
    <2> HIDE DEF Webhooks
    <2> QED BY <1>1, <1>2, <1>3, <2>1, <2>2 DEF RepeatsInv, RepeatsAreOwed
  <1>4. CASE /\ \E w \in Webhooks : Owed' \subseteq Owed \cup {w}
             /\ failures' = failures + 1
    <2>1. /\ Cardinality(Owed') <= Cardinality(Owed) + 1
          /\ Cardinality(Owed') \in Nat
          /\ Cardinality(Owed) \in Nat
      BY <1>4, OwedIsFinite, OneMore
    <2> QED BY <1>1, <1>2, <1>4, <2>1 DEF RepeatsInv, RepeatsAreOwed
  <1> QED BY <1>3, <1>4

LEMMA PostAnsweredRepeats ==
  ASSUME Consistent, RepeatsInv, NEW w \in Webhooks, PostAnswered(w)
  PROVE  RepeatsInv'
  <1>1. posts \in [Webhooks -> Nat] /\ failures \in Nat
    BY DEF Consistent, TypeOK
  <1>2. \A v \in batch : Current(v) <=> v = w
    BY DEF PostAnswered, Current, Consistent, TypeOK
  <1>3. row[w] = "unsent" /\ w \in batch
    BY DEF PostAnswered, Current, Consistent, BatchIsComplete
  <1>4. Owed' \subseteq Owed /\ w \notin Owed'
    BY <1>1, <1>2, <1>3 DEF PostAnswered, Owed, Current
  <1>5. posts[w] > 0 => w \in Owed
    BY <1>3 DEF PostAnswered, Owed
  <1>6. /\ Repeats' \subseteq Repeats \cup {<<w, posts[w] + 1>>}
        /\ posts[w] = 0 => Repeats' \subseteq Repeats
    BY <1>1, RepeatsOfPost DEF PostAnswered
  <1>7. /\ IsFiniteSet(Repeats')
        /\ Cardinality(Repeats) \in Nat
        /\ Cardinality(Repeats') \in Nat
        /\ Cardinality(Repeats') <= Cardinality(Repeats) + 1
    BY <1>6, OneMore DEF RepeatsInv
  <1>8. posts[w] = 0 => Cardinality(Repeats') <= Cardinality(Repeats)
    BY <1>6, FS_Subset DEF RepeatsInv
  <1>9. /\ Cardinality(Owed) \in Nat
        /\ Cardinality(Owed') \in Nat
        /\ Cardinality(Owed') <= Cardinality(Owed)
        /\ w \in Owed => Cardinality(Owed') <= Cardinality(Owed) - 1
    BY <1>4, OwedIsFinite, OneMore
  <1>10. failures' = failures
    BY DEF PostAnswered
  <1> QED BY <1>1, <1>5, <1>7, <1>8, <1>9, <1>10 DEF RepeatsInv, RepeatsAreOwed

LEMMA PostFailsRepeats ==
  ASSUME Consistent, RepeatsInv, NEW w \in Webhooks, PostFails(w)
  PROVE  RepeatsInv'
  <1>1. posts \in [Webhooks -> Nat] /\ failures \in Nat /\ failures' = failures + 1
    BY DEF Consistent, TypeOK, PostFails, OneMoreFailure
  <1>2. row[w] = "unsent" /\ pc' = "idle"
    BY DEF PostFails, EndPass, Current, Consistent, BatchIsComplete
  <1>3. CASE posts' = posts
    <2>1. Owed' \subseteq Owed
      BY <1>3 DEF PostFails, Owed
    <2> QED BY <1>1, <1>3, <2>1, SameRepeats
  <1>4. CASE posts' = [posts EXCEPT ![w] = @ + 1]
    <2>1. /\ Repeats' \subseteq Repeats \cup {<<w, posts[w] + 1>>}
          /\ posts[w] = 0 => Repeats' \subseteq Repeats
      BY <1>1, <1>4, RepeatsOfPost
    <2>2. /\ IsFiniteSet(Repeats')
          /\ Cardinality(Repeats) \in Nat
          /\ Cardinality(Repeats') \in Nat
          /\ Cardinality(Repeats') <= Cardinality(Repeats) + 1
      BY <2>1, OneMore DEF RepeatsInv
    <2>3. posts[w] = 0 => Cardinality(Repeats') <= Cardinality(Repeats)
      BY <2>1, FS_Subset DEF RepeatsInv
    <2>4. Owed' \subseteq Owed \cup {w} /\ (posts[w] > 0 => w \in Owed)
      BY <1>1, <1>2, <1>4 DEF PostFails, Owed
    <2>5. /\ Cardinality(Owed) \in Nat
          /\ Cardinality(Owed') \in Nat
          /\ Cardinality(Owed') <= Cardinality(Owed) + 1
          /\ w \in Owed => Cardinality(Owed') <= Cardinality(Owed)
      BY <2>4, OwedIsFinite, OneMore
    <2> QED BY <1>1, <2>2, <2>3, <2>4, <2>5 DEF RepeatsInv, RepeatsAreOwed
  <1> QED BY <1>3, <1>4 DEF PostFails

LEMMA MarkRepeats ==
  ASSUME Consistent, RepeatsInv, NEW w \in Webhooks, MarkSent(w) \/ MarkFails(w)
  PROVE  RepeatsInv'
  <1>1. /\ posts' = posts
        /\ failures \in Nat
        /\ row \in [Webhooks -> RowStates]
    BY DEF Consistent, TypeOK, MarkSent, MarkFails
  <1>2. \A v \in batch : Current(v) <=> v = w
    BY DEF MarkSent, MarkFails, Current, Consistent, TypeOK
  <1>3. ASSUME MarkSent(w) PROVE Owed' \subseteq Owed
    BY <1>1, <1>2, <1>3 DEF MarkSent, Owed, Current
  <1>4. ASSUME MarkFails(w) PROVE Owed' \subseteq Owed \cup {w}
    BY <1>1, <1>2, <1>4 DEF MarkFails, Owed, Current
  <1> QED BY <1>1, <1>3, <1>4, SameRepeats DEF MarkSent, MarkFails, OneMoreFailure

LEMMA CrashRepeats ==
  ASSUME Consistent, RepeatsInv, Crash PROVE RepeatsInv'
  <1>1. /\ posts' = posts /\ failures \in Nat /\ failures' = failures + 1
        /\ batch # {} /\ batch \subseteq Webhooks
    BY DEF Consistent, TypeOK, Crash, OneMoreFailure
  <1>2. PICK w \in Webhooks : \A v \in Webhooks : Current(v) => v = w
    <2>1. CASE \E v \in Webhooks : Current(v)
      BY <2>1 DEF Current
    <2>2. CASE ~\E v \in Webhooks : Current(v)
      BY <1>1, <2>2
    <2> QED BY <2>1, <2>2
  <1>3. Owed' \subseteq Owed \cup {w}
    BY <1>2 DEF Crash, Owed
  <1> QED BY <1>1, <1>3, SameRepeats

LEMMA NextRepeats ==
  ASSUME Consistent, RepeatsInv, [Next]_vars PROVE RepeatsInv'
  <1>1. failures \in Nat /\ row \in [Webhooks -> RowStates]
    BY DEF Consistent, TypeOK
  <1>2. ASSUME NEW w \in Webhooks, Begin(w) \/ Commit(w) \/ RollBack(w)
        PROVE  RepeatsInv'
    <2>1. \A v \in Webhooks : posts[v] > 0 => row[v] \in {"unsent", "sent"}
      BY DEF Consistent, SentMeansAnswered
    <2>2. \A v \in batch : row[v] = "unsent"
      BY DEF Consistent, BatchIsComplete
    <2>3. Owed' \subseteq Owed
      BY <1>1, <1>2, <2>1, <2>2 DEF Begin, Commit, RollBack, Owed, Current
    <2> QED BY <1>1, <1>2, <2>3, SameRepeats DEF Begin, Commit, RollBack
  <1>3. CASE Find
    <2>1. Owed' \subseteq Owed
      BY <1>3 DEF Find, Owed
    <2> QED BY <1>1, <1>3, <2>1, SameRepeats DEF Find
  <1>4. CASE UNCHANGED vars
    <2>1. Owed' = Owed
      BY <1>4 DEF vars, Owed, Current
    <2> QED BY <1>1, <1>4, <2>1, SameRepeats DEF vars
  <1> QED BY <1>2, <1>3, <1>4, PostAnsweredRepeats, PostFailsRepeats,
      MarkRepeats, CrashRepeats DEF Next, Advance

-----------------------------------------------------------------------------
LEMMA Induction == Spec => [](Consistent /\ RepeatsInv)
  <1>1. Init => Consistent /\ RepeatsInv
    BY InitConsistent, InitRepeats
  <1>2. Consistent /\ RepeatsInv /\ [Next]_vars => Consistent' /\ RepeatsInv'
    BY NextConsistent, NextRepeats
  <1> QED BY <1>1, <1>2, PTL DEF Spec

\* The outbox is consistent in every state: marked rows were answered, the rows
\* a pass works on are unsent and complete but for overlapping ones, and
\* failures account for the repeats.
THEOREM OutboxIsSound == Spec => []OutboxInv
  <1>1. Consistent /\ RepeatsInv => OutboxInv
    BY DEF OutboxInv, RepeatsInv
  <1> QED BY <1>1, Induction, PTL

\* process() posts a webhook again only after a failure, once for each.
THEOREM RepeatsNeedFailures == Spec => []OneRepeatPerFailure
  <1>1. Consistent /\ RepeatsInv => OneRepeatPerFailure
    <2>1. ASSUME RepeatsInv
          PROVE  Cardinality(Repeats) \in Nat /\ Cardinality(Owed) \in Nat
      BY <2>1, OwedIsFinite, FS_CardinalityType DEF RepeatsInv
    <2> QED BY <2>1
        DEF Consistent, TypeOK, RepeatsInv, RepeatsAreOwed, OneRepeatPerFailure
  <1> QED BY <1>1, Induction, PTL

\* process() marks a webhook only after a 2XX answer to it.
THEOREM MarkAfterAnswer == Spec => []SentMeansAnswered
  <1>1. OutboxInv => SentMeansAnswered
    BY DEF OutboxInv, Consistent
  <1> QED BY <1>1, OutboxIsSound, PTL

\* Only a post that is answered and one that fails change the number of posts.
LEMMA WhoPosts ==
  ASSUME OutboxInv, [Next]_vars, NEW w \in Webhooks, Posted(w)
  PROVE  w \in batch /\ Current(w)
  <1>1. ASSUME NEW v \in Webhooks, PostAnswered(v) \/ PostFails(v)
        PROVE  w = v /\ w \in batch /\ Current(w)
    BY <1>1 DEF PostAnswered, PostFails, Posted, Current, OutboxInv, Consistent, TypeOK
  <1>2. posts' = posts => FALSE
    BY DEF Posted, OutboxInv, Consistent, TypeOK
  <1> QED BY <1>1, <1>2 DEF Next, Advance, vars, Begin, Commit, RollBack, Find,
      MarkSent, MarkFails, Crash

\* process() posts a webhook before an older one only if the transactions of the
\* two were open at the same time.
THEOREM OrderOfPosts == Spec => OvertakesOnlyOverlapping
  <1>1. ASSUME OutboxInv, [Next]_vars, NEW w \in Webhooks, Posted(w),
               NEW v \in 1..(w - 1), row[v] \in {"open", "unsent"}
        PROVE  v \in overlap[w]
    <2>1. w \in batch /\ v \notin batch
      BY <1>1, WhoPosts DEF Current
    <2> QED BY <1>1, <2>1 DEF OutboxInv, Consistent, BatchIsComplete
  <1>2. OutboxInv /\ [Next]_vars =>
          [\A w \in Webhooks : Posted(w) =>
             \A v \in 1..(w - 1) :
               row[v] \in {"open", "unsent"} => v \in overlap[w]]_vars
    BY <1>1
  <1> QED BY <1>2, OutboxIsSound, PTL DEF Spec, OvertakesOnlyOverlapping

\* process() never posts a webhook its row says is sent.
THEOREM NoRepeatAfterMark == Spec => NoPostAfterMark
  <1>1. OutboxInv /\ [Next]_vars =>
          [\A w \in Webhooks : Posted(w) => row[w] # "sent"]_vars
    BY WhoPosts DEF OutboxInv, Consistent, BatchIsComplete
  <1> QED BY <1>1, OutboxIsSound, PTL DEF Spec, NoPostAfterMark
=============================================================================

---------------------------- MODULE Gateway_proofs ----------------------------
(***************************************************************************)
(* Theorems about Gateway.  Its steps are steps of the component modules,  *)
(* so what is proved of those holds here too; DaemonTheorems and           *)
(* OutboxTheorems are the modules of those proofs at this instance.        *)
(***************************************************************************)
EXTENDS Gateway, FiniteSetTheorems, TLAPS

DaemonTheorems == INSTANCE TONDaemon_proofs WITH Poison <- {}
OutboxTheorems == INSTANCE WebhookService_proofs
                    WITH pc <- outPc, Daemons <- MaxWebhooks + 1

-----------------------------------------------------------------------------
\* The components' actions are those their theorems are about.

LEMMA SameDaemon ==
  /\ Daemon!Init => DaemonTheorems!Init
  /\ Daemon!Arrive => DaemonTheorems!Arrive
  /\ Daemon!Start => DaemonTheorems!Start
  /\ Daemon!NextPage => DaemonTheorems!NextPage
  /\ Daemon!CheckPage => DaemonTheorems!CheckPage
  /\ Daemon!Back => DaemonTheorems!Back
  /\ Daemon!HandleTx => DaemonTheorems!HandleTx
  /\ Daemon!PageDone => DaemonTheorems!PageDone
  /\ Daemon!Abort => DaemonTheorems!Abort
  <1>1. Daemon!Init => DaemonTheorems!Init
    BY DEF Daemon!Init, DaemonTheorems!Init, Daemon!NoPass, DaemonTheorems!NoPass,
           Daemon!NoCursor, DaemonTheorems!NoCursor
  <1>2. Daemon!Arrive => DaemonTheorems!Arrive
    BY DEF Daemon!Arrive, DaemonTheorems!Arrive, Daemon!pass, DaemonTheorems!pass
  <1>3. Daemon!Start => DaemonTheorems!Start
    BY DEF Daemon!Start, DaemonTheorems!Start, Daemon!pass, DaemonTheorems!pass
  <1>4. Daemon!NextPage => DaemonTheorems!NextPage
    BY DEF Daemon!NextPage, DaemonTheorems!NextPage, Daemon!FetchPage,
           DaemonTheorems!FetchPage, Daemon!PageTop, DaemonTheorems!PageTop,
           Daemon!PageEnd, DaemonTheorems!PageEnd, Daemon!PageIsFull,
           DaemonTheorems!PageIsFull, Daemon!NoCursor, DaemonTheorems!NoCursor
  <1>5. Daemon!CheckPage => DaemonTheorems!CheckPage
    BY DEF Daemon!CheckPage, DaemonTheorems!CheckPage, Daemon!HasProcessed,
           DaemonTheorems!HasProcessed
  <1>6. Daemon!Back => DaemonTheorems!Back
    BY DEF Daemon!Back, DaemonTheorems!Back, Daemon!FetchPage,
           DaemonTheorems!FetchPage, Daemon!PageTop, DaemonTheorems!PageTop,
           Daemon!PageEnd, DaemonTheorems!PageEnd, Daemon!NoCursor,
           DaemonTheorems!NoCursor
  <1>7. Daemon!HandleTx => DaemonTheorems!HandleTx
    BY DEF Daemon!HandleTx, DaemonTheorems!HandleTx
  <1>8. Daemon!PageDone => DaemonTheorems!PageDone
    BY DEF Daemon!PageDone, DaemonTheorems!PageDone, Daemon!EndPass,
           DaemonTheorems!EndPass, Daemon!pass, DaemonTheorems!pass,
           Daemon!NoCursor, DaemonTheorems!NoCursor
  <1>9. Daemon!Abort => DaemonTheorems!Abort
    BY DEF Daemon!Abort, DaemonTheorems!Abort, Daemon!EndPass,
           DaemonTheorems!EndPass, Daemon!NoCursor, DaemonTheorems!NoCursor
  <1> QED BY <1>1, <1>2, <1>3, <1>4, <1>5, <1>6, <1>7, <1>8, <1>9

LEMMA SameOutbox ==
  /\ Outbox!Init => OutboxTheorems!Init
  /\ \A w \in Webhooks :
       /\ Outbox!Begin(w) => OutboxTheorems!Begin(w)
       /\ Outbox!Commit(w) => OutboxTheorems!Commit(w)
       /\ Outbox!RollBack(w) => OutboxTheorems!RollBack(w)
       /\ Outbox!PostFails(w) => OutboxTheorems!PostFails(w)
       /\ Outbox!MarkFails(w) => OutboxTheorems!MarkFails(w)
  /\ Outbox!Advance => OutboxTheorems!Advance
  /\ Outbox!Crash => OutboxTheorems!Crash
  <1>1. Outbox!Init => OutboxTheorems!Init
    BY DEF Outbox!Init, OutboxTheorems!Init, Outbox!Webhooks,
           OutboxTheorems!Webhooks
  <1>0. ASSUME NEW s PROVE Outbox!InState(s) = OutboxTheorems!InState(s)
    BY DEF Outbox!InState, OutboxTheorems!InState, Outbox!Webhooks,
           OutboxTheorems!Webhooks
  <1>a. ASSUME NEW w \in Webhooks PROVE Outbox!Begin(w) => OutboxTheorems!Begin(w)
    <2>1. Outbox!InState("open") = OutboxTheorems!InState("open")
      BY <1>0
    <2>2. Outbox!Webhooks = OutboxTheorems!Webhooks
      BY DEF Outbox!Webhooks, OutboxTheorems!Webhooks
    <2>3. Outbox!Cardinality(Outbox!InState("open"))
            = OutboxTheorems!Cardinality(OutboxTheorems!InState("open"))
      BY <2>1 DEF Outbox!Cardinality, OutboxTheorems!Cardinality
    <2> QED BY <2>1, <2>2, <2>3 DEF Outbox!Begin, OutboxTheorems!Begin
  <1>2. ASSUME NEW w \in Webhooks
        PROVE  /\ Outbox!Commit(w) => OutboxTheorems!Commit(w)
               /\ Outbox!RollBack(w) => OutboxTheorems!RollBack(w)
    BY DEF Outbox!Commit, OutboxTheorems!Commit, Outbox!RollBack,
           OutboxTheorems!RollBack
  <1>3. ASSUME NEW w \in Webhooks
        PROVE  /\ Outbox!PostFails(w) => OutboxTheorems!PostFails(w)
               /\ Outbox!MarkFails(w) => OutboxTheorems!MarkFails(w)
    BY DEF Outbox!PostFails, OutboxTheorems!PostFails, Outbox!MarkFails,
           OutboxTheorems!MarkFails, Outbox!Current, OutboxTheorems!Current,
           Outbox!OneMoreFailure, OutboxTheorems!OneMoreFailure,
           Outbox!EndPass, OutboxTheorems!EndPass
  <1>4. Outbox!Advance => OutboxTheorems!Advance
    BY DEF Outbox!Advance, OutboxTheorems!Advance, Outbox!Find,
           OutboxTheorems!Find, Outbox!PostAnswered, OutboxTheorems!PostAnswered,
           Outbox!MarkSent, OutboxTheorems!MarkSent, Outbox!GoOn,
           OutboxTheorems!GoOn, Outbox!Current, OutboxTheorems!Current,
           Outbox!InState, OutboxTheorems!InState, Outbox!Webhooks,
           OutboxTheorems!Webhooks
  <1>5. Outbox!Crash => OutboxTheorems!Crash
    BY DEF Outbox!Crash, OutboxTheorems!Crash, Outbox!OneMoreFailure,
           OutboxTheorems!OneMoreFailure, Outbox!EndPass, OutboxTheorems!EndPass
  <1> QED BY <1>1, <1>a, <1>2, <1>3, <1>4, <1>5

-----------------------------------------------------------------------------
\* The gateway implements its components.

LEMMA DaemonStep ==
  ASSUME [Next]_vars PROVE [Daemon!Next]_daemonVars /\ [DaemonTheorems!Next]_daemonVars
  <1>1. CASE UNCHANGED vars
    BY <1>1 DEF vars
  <1>2. CASE Arrive
    BY <1>2, SameDaemon DEF Arrive, Daemon!Next, DaemonTheorems!Next
  <1>3. CASE Discover
    BY <1>3, SameDaemon DEF Discover, Daemon!Next, DaemonTheorems!Next,
       Daemon!Advance, DaemonTheorems!Advance
  <1>4. CASE Note \/ Credit \/ GiveUp
    BY <1>4, SameDaemon DEF Note, Credit, GiveUp, Daemon!Next,
       DaemonTheorems!Next, Daemon!Advance, DaemonTheorems!Advance
  <1>5. CASE Abort \/ Crash
    BY <1>5, SameDaemon DEF Abort, Crash, Daemon!Next, DaemonTheorems!Next
  <1>6. CASE UNCHANGED daemonVars
    BY <1>6
  <1> QED BY <1>1, <1>2, <1>3, <1>4, <1>5, <1>6 DEF Next, Advance, Begin,
       BeginElsewhere, EndElsewhere, Deliver, DeliveryFails, RollBackAnyLost,
       RollBackLost

LEMMA TypeInv == ASSUME TypeOK, [Next]_vars PROVE TypeOK'
  <1> USE DEF TypeOK
  <1>1. CASE UNCHANGED linkVars
    BY <1>1 DEF linkVars
  <1>2. CASE \E w \in Webhooks : Begin(w)
    BY <1>2 DEF Begin, IsPayment
  <1>3. CASE Credit \/ GiveUp \/ Abort
    BY <1>3 DEF Credit, GiveUp, Abort
  <1>4. CASE Crash
    BY <1>4 DEF Crash, Open
  <1> QED BY <1>1, <1>2, <1>3, <1>4 DEF Next, Advance, Arrive, Discover, Note,
       BeginElsewhere, EndElsewhere, Deliver, DeliveryFails, RollBackAnyLost,
       RollBackLost, vars

LEMMA OutboxStep ==
  ASSUME TypeOK, [Next]_vars
  PROVE  [Outbox!Next]_outboxVars /\ [OutboxTheorems!Next]_outboxVars
  <1> USE DEF Outbox!Next, OutboxTheorems!Next
  <1>0. Outbox!Webhooks = Webhooks /\ OutboxTheorems!Webhooks = Webhooks
    BY DEF Outbox!Webhooks, OutboxTheorems!Webhooks, Webhooks
  <1>1. CASE UNCHANGED vars
    BY <1>1 DEF vars
  <1>2. CASE \E w \in Webhooks : Begin(w) \/ BeginElsewhere(w)
    BY <1>0, <1>2, SameOutbox DEF Begin, BeginElsewhere
  <1>3. CASE \E w \in Webhooks : EndElsewhere(w) \/ RollBackLost(w)
    BY <1>0, <1>3, SameOutbox DEF EndElsewhere, RollBackLost
  <1>4. CASE Credit \/ GiveUp \/ Abort
    <2>1. ASSUME own # None, Outbox!Commit(own) \/ Outbox!RollBack(own)
          PROVE  Outbox!Next /\ OutboxTheorems!Next
      BY <1>0, <2>1, SameOutbox DEF TypeOK
    <2> QED BY <1>4, <2>1 DEF Credit, GiveUp, Abort
  <1>5. CASE \E w \in Webhooks : DeliveryFails(w)
    BY <1>0, <1>5, SameOutbox DEF DeliveryFails
  <1>6. CASE Deliver \/ Crash
    BY <1>6, SameOutbox DEF Deliver, Crash
  <1>7. CASE UNCHANGED outboxVars
    BY <1>7
  <1> QED BY <1>1, <1>2, <1>3, <1>4, <1>5, <1>6, <1>7 DEF Next, Advance, Arrive,
       Discover, Note, RollBackAnyLost

\* What the rest of the gateway does to an account and to the webhook table is
\* what the modules of the daemon and of the outbox say may happen to them.
THEOREM ImplementsComponents == Spec => Daemon!Spec /\ Outbox!Spec
  <1>1. Init => Daemon!Init /\ Outbox!Init /\ TypeOK
    BY DEF Init, TypeOK
  <1>2. TypeOK /\ [Next]_vars => TypeOK'
    BY TypeInv
  <1>3. TypeOK /\ [Next]_vars => [Daemon!Next]_daemonVars /\ [Outbox!Next]_outboxVars
    BY DaemonStep, OutboxStep
  <1>4. TypeOK /\ [Next]_vars => [Daemon!Next]_Daemon!vars /\ [Outbox!Next]_Outbox!vars
    BY <1>3 DEF daemonVars, Daemon!vars, outboxVars, Outbox!vars
  <1> QED BY <1>1, <1>2, <1>4, PTL DEF Spec, Daemon!Spec, Outbox!Spec

LEMMA TheoremsApply == Spec => DaemonTheorems!Spec /\ OutboxTheorems!Spec
  <1>1. Init => DaemonTheorems!Init /\ OutboxTheorems!Init /\ TypeOK
    BY SameDaemon, SameOutbox DEF Init, TypeOK
  <1>2. TypeOK /\ [Next]_vars => TypeOK'
    BY TypeInv
  <1>3. TypeOK /\ [Next]_vars =>
          [DaemonTheorems!Next]_DaemonTheorems!vars
            /\ [OutboxTheorems!Next]_OutboxTheorems!vars
    BY DaemonStep, OutboxStep DEF daemonVars, DaemonTheorems!vars, outboxVars,
       OutboxTheorems!vars
  <1> QED BY <1>1, <1>2, <1>3, PTL DEF Spec, DaemonTheorems!Spec, OutboxTheorems!Spec

LEMMA ComponentsAreSound ==
  Spec => [](/\ TypeOK
             /\ DaemonTheorems!PassInv /\ DaemonTheorems!NewerUntouched
             /\ OutboxTheorems!OutboxInv)
  <1>1. Init => TypeOK
    BY DEF Init, TypeOK
  <1>2. TypeOK /\ [Next]_vars => TypeOK'
    BY TypeInv
  <1>3. /\ Limit \in Nat \ {0}
        /\ MaxTx \in Nat /\ MaxFaults \in Nat
        /\ {} \subseteq Nat
        /\ MaxWebhooks \in Nat /\ MaxWebhooks + 1 \in Nat \ {0} /\ MaxFailures \in Nat
    BY ComponentAssumption
  <1>4. DaemonTheorems!Spec => []DaemonTheorems!PassInv
    BY <1>3, DaemonTheorems!PassIsSound
  <1>5. DaemonTheorems!Spec => []DaemonTheorems!NewerUntouched
    BY <1>3, DaemonTheorems!NewerIsUntouched
  <1>6. OutboxTheorems!Spec => []OutboxTheorems!OutboxInv
    BY <1>3, OutboxTheorems!OutboxIsSound
  <1> QED BY <1>1, <1>2, <1>4, <1>5, <1>6, TheoremsApply, PTL DEF Spec

-----------------------------------------------------------------------------
\* What the components' invariants say of the state the gateway relates.

DaemonFacts ==
  /\ at \in Nat /\ lo \in Nat /\ hi \in Nat
  /\ processed \subseteq Nat
  /\ pc = "handle" => \A t \in processed : t < lo + Limit

OutboxFacts ==
  /\ row \in [Webhooks -> {"unborn", "open", "dropped", "unsent", "sent"}]
  /\ posts \in [Webhooks -> Nat]
  /\ batch \subseteq Webhooks
  /\ overlap \in [Webhooks -> SUBSET Webhooks]
  /\ \A w \in Webhooks : posts[w] > 0 => row[w] \in {"unsent", "sent"}
  /\ \A w \in Webhooks : \A v \in 1..(w - 1) : row[v] = "unborn" => row[w] = "unborn"
  /\ \A w \in batch :
       /\ row[w] = "unsent"
       /\ \A v \in 1..(w - 1) : row[v] = "unsent" => v \in batch \/ v \in overlap[w]

LEMMA FactsHold ==
  ASSUME DaemonTheorems!PassInv, DaemonTheorems!NewerUntouched,
         OutboxTheorems!OutboxInv
  PROVE  DaemonFacts /\ OutboxFacts
  <1>1. DaemonFacts
    <2>1. /\ head \in Nat /\ at \in Nat /\ lo \in Nat /\ hi \in Nat
          /\ processed \subseteq Nat
      BY ComponentAssumption DEF DaemonTheorems!PassInv, DaemonTheorems!TypeOK
    <2>2. ASSUME pc = "handle", NEW t \in processed PROVE t < lo + Limit
      BY <2>1, <2>2, ComponentAssumption DEF DaemonTheorems!NewerUntouched
    <2> QED BY <2>1, <2>2 DEF DaemonFacts
  <1>2. OutboxFacts
    BY DEF OutboxFacts, OutboxTheorems!OutboxInv, OutboxTheorems!Consistent,
       OutboxTheorems!TypeOK,
       OutboxTheorems!RowStates, OutboxTheorems!SentMeansAnswered,
       OutboxTheorems!BeginInOrder, OutboxTheorems!BatchIsComplete,
       OutboxTheorems!Webhooks, Webhooks
  <1> QED BY <1>1, <1>2

\* What a step of the outbox's pass does to the table.
LEMMA OutboxPass ==
  ASSUME OutboxFacts,
         \/ Outbox!Advance \/ Outbox!Crash
         \/ \E w \in Webhooks : Outbox!PostFails(w) \/ Outbox!MarkFails(w)
  PROVE  /\ UNCHANGED overlap
         /\ DOMAIN row' = Webhooks /\ DOMAIN posts' = Webhooks
         /\ \A w \in Webhooks :
              row'[w] = row[w] \/ (row[w] = "unsent" /\ row'[w] = "sent")
         /\ \A w \in Webhooks :
              \/ posts'[w] = posts[w]
              \/ /\ posts'[w] = posts[w] + 1
                 /\ w \in batch /\ \A v \in batch : w <= v
  <1> USE DEF OutboxFacts
  <1>0. Outbox!Webhooks = Webhooks
    BY DEF Outbox!Webhooks, Webhooks
  <1>1. ASSUME NEW w \in Webhooks, Outbox!PostAnswered(w) \/ Outbox!PostFails(w)
        PROVE  /\ UNCHANGED <<overlap, row>>
               /\ w \in batch /\ \A v \in batch : w <= v
               /\ posts' = posts \/ posts' = [posts EXCEPT ![w] = @ + 1]
    BY <1>1 DEF Outbox!PostAnswered, Outbox!PostFails, Outbox!Current
  <1>2. ASSUME NEW w \in Webhooks, Outbox!MarkSent(w) \/ Outbox!MarkFails(w)
        PROVE  /\ UNCHANGED <<overlap, posts>>
               /\ w \in batch
               /\ row' = row \/ row' = [row EXCEPT ![w] = "sent"]
    BY <1>2 DEF Outbox!MarkSent, Outbox!MarkFails, Outbox!Current
  <1>3. ASSUME Outbox!Find \/ Outbox!Crash PROVE UNCHANGED <<overlap, posts, row>>
    BY <1>3 DEF Outbox!Find, Outbox!Crash
  <1>4. CASE \E w \in Webhooks : Outbox!PostAnswered(w) \/ Outbox!PostFails(w)
    BY <1>1, <1>4
  <1>5. CASE \E w \in Webhooks : Outbox!MarkSent(w) \/ Outbox!MarkFails(w)
    BY <1>2, <1>5
  <1>6. CASE Outbox!Find \/ Outbox!Crash
    BY <1>3, <1>6
  <1> QED BY <1>0, <1>4, <1>5, <1>6 DEF Outbox!Advance

-----------------------------------------------------------------------------
\* The invariant of the gateway, action by action.

Context == GatewayInv /\ DaemonFacts /\ OutboxFacts

LEMMA Names ==
  ASSUME NEW w \in Webhooks
  PROVE  /\ w \in Nat /\ w # None
         /\ \A v \in 1..(w - 1) : v \in Webhooks /\ v < w /\ v # w
         /\ \A v \in Webhooks : v \in 1..(w - 1) <=> v < w
  BY ComponentAssumption DEF Webhooks, None

LEMMA DaemonOnlyInv ==
  ASSUME Context, Arrive \/ Discover \/ Note \/ (Abort /\ own = None)
  PROVE  GatewayInv'
  <1> USE DEF Context, GatewayInv
  <1>1. UNCHANGED <<outboxVars, linkVars>> /\ processed \subseteq processed'
    BY DEF Arrive, Discover, Note, Abort, Daemon!Arrive, Daemon!pass, Daemon!Start,
       Daemon!NextPage, Daemon!CheckPage, Daemon!Back, Daemon!PageDone,
       Daemon!HandleTx, Daemon!Abort, linkVars
  <1>2. own = None \/ UNCHANGED <<pc, at, lo, processed>>
    BY DEF OwnIsOpen, OwnInHand, Arrive, Discover, Note, Daemon!Arrive, Daemon!pass,
       Daemon!Start, Daemon!NextPage, Daemon!CheckPage, Daemon!Back,
       Daemon!PageDone, DaemonFacts
  <1> USE <1>1 DEF outboxVars, linkVars
  <1>3. TypeOK'
    BY DEF TypeOK
  <1>4. OwnIsOpen'
    BY <1>2 DEF OwnIsOpen, OwnInHand, Open, IsPayment
  <1>5. OneWebhookPerPayment'
    BY DEF OneWebhookPerPayment, Visible, Announces
  <1>6. AccountIsSequential' /\ ChainOrderUpToPage'
    BY DEF AccountIsSequential, Settled, ChainOrderUpToPage, Visible
  <1> QED BY <1>3, <1>4, <1>5, <1>6

LEMMA BeginInv ==
  ASSUME Context, NEW w \in Webhooks, Begin(w) PROVE GatewayInv'
  <1>1. PICK O \in SUBSET Open :
          \A v \in Webhooks :
            /\ row'[v] = IF v = w THEN "open" ELSE row[v]
            /\ overlap'[v] = IF v = w THEN O ELSE overlap[v]
            /\ origin'[v] = IF v = w THEN at ELSE origin[v]
            /\ posts'[v] = posts[v]
    <2>1. \A v \in Webhooks : row'[v] = IF v = w THEN "open" ELSE row[v]
      BY DEF Begin, Outbox!Begin, Context, OutboxFacts
    <2>2. \A v \in Webhooks :
            overlap'[v] = IF v = w THEN Open ELSE overlap[v]
      BY DEF Begin, Outbox!Begin, Context, OutboxFacts, Outbox!InState,
         Outbox!Webhooks, Open, Webhooks
    <2>3. \A v \in Webhooks : origin'[v] = IF v = w THEN at ELSE origin[v]
      BY DEF Begin, Context, GatewayInv, TypeOK
    <2>4. posts' = posts
      BY DEF Begin, Outbox!Begin
    <2> QED BY <2>1, <2>2, <2>3, <2>4
  <1>2. /\ pc = "handle" /\ at >= lo /\ IsPayment(at)
        /\ own = None /\ own' = w
        /\ UNCHANGED <<pc, at, lo, processed, lost>>
    BY DEF Begin, daemonVars
  <1>3. /\ row[w] = "unborn" /\ posts[w] = 0
        /\ origin[w] = Elsewhere /\ w \notin lost
    BY DEF Begin, Outbox!Begin, Context, GatewayInv, OwnIsOpen, OwnInHand, OutboxFacts
  <1>4. \A v \in Webhooks : v > w => row[v] = "unborn" /\ origin[v] = Elsewhere
    BY <1>3, Names DEF Context, GatewayInv, OutboxFacts, OwnIsOpen, OwnInHand
  <1>5. w # None
    BY Names
  <1>6. TypeOK'
    BY TypeInv DEF Next, Advance, Context, GatewayInv
  <1>7. OwnIsOpen'
    <2>1. OwnIsOpen /\ lost \subseteq Webhooks
      BY DEF Context, GatewayInv, TypeOK
    <2>2. /\ row'[w] = "open" /\ w \notin lost /\ origin'[w] = at
          /\ pc' = "handle" /\ at' >= lo' /\ IsPayment(at)'
      BY <1>1, <1>2, <1>3 DEF IsPayment
    <2>3. ASSUME NEW v \in Webhooks, row'[v] = "open", origin'[v] # Elsewhere
          PROVE  v = w \/ v \in lost'
      BY <2>1, <2>3, <1>1, <1>2, Names DEF OwnIsOpen, OwnInHand, Open
    <2>4. \A v \in lost' : row'[v] \in {"open", "dropped"}
      BY <2>1, <1>1, <1>2 DEF OwnIsOpen, OwnInHand
    <2>5. \A v \in Webhooks : row'[v] = "unborn" => origin'[v] = Elsewhere
      BY <2>1, <1>1 DEF OwnIsOpen, OwnInHand
    <2> QED BY <1>2, <2>2, <2>3, <2>4, <2>5 DEF OwnIsOpen, OwnInHand, Open
  <1>8. \A v \in Webhooks : Visible(v)' <=> Visible(v) /\ v # w
    BY <1>1, <1>3 DEF Visible
  <1>9. OneWebhookPerPayment'
    <2>1. OneWebhookPerPayment
      BY DEF Context, GatewayInv
    <2> QED BY <1>1, <1>2, <1>8, <2>1 DEF OneWebhookPerPayment, Announces
  <1>10. ChainOrderUpToPage'
    <2>1. ChainOrderUpToPage
      BY DEF Context, GatewayInv
    <2> QED BY <1>1, <1>8, <2>1, Names DEF ChainOrderUpToPage
  <1>11. AccountIsSequential'
    <2>1. AccountIsSequential /\ OwnIsOpen
      BY DEF Context, GatewayInv
    <2>2. \A v \in Webhooks : v > w => origin'[v] = Elsewhere
      BY <1>1, <1>4, Names
    <2>3. ASSUME NEW v \in Webhooks, origin'[v] # Elsewhere,
                 NEW u \in overlap'[v], origin'[u] # Elsewhere
          PROVE  u \in lost'
      <3>1. u \in Webhooks
        BY <2>3, <1>1 DEF Context, OutboxFacts, Open
      <3>2. CASE v = w
        BY <3>1, <3>2, <2>1, <2>3, <1>1, <1>2, <1>3, Names DEF OwnIsOpen, OwnInHand, Open
      <3>3. CASE v # w
        <4>1. u \in overlap[v] /\ u # w
          BY <3>3, <2>1, <2>3, <1>1, <1>3 DEF AccountIsSequential
        <4> QED BY <4>1, <3>1, <3>3, <2>1, <2>3, <1>1, <1>2 DEF AccountIsSequential
      <3> QED BY <3>2, <3>3
    <2>4. ASSUME NEW v \in Webhooks, origin'[v] # Elsewhere, posts'[v] > 0,
                 NEW u \in 1..(v - 1), origin'[u] # Elsewhere
          PROVE  Settled(u)'
      <3>1. u \in Webhooks /\ v # w /\ u < v
        BY <2>4, <1>1, <1>3, Names
      <3>2. origin[v] # Elsewhere /\ u # w
        BY <3>1, <2>4, <1>1, <1>4, Names
      <3> QED BY <3>1, <3>2, <2>1, <2>4, <1>1, <1>2 DEF AccountIsSequential, Settled
    <2>5. ASSUME NEW v \in Webhooks, NEW u \in overlap'[v] PROVE row'[u] # "unborn"
      <3>1. u \in Webhooks
        BY <1>1 DEF Context, OutboxFacts, Open
      <3>2. row[u] # "unborn"
        BY <2>1, <1>1 DEF AccountIsSequential, Open
      <3> QED BY <3>1, <3>2, <1>1
    <2> QED BY <1>2, <2>2, <2>3, <2>4, <2>5 DEF AccountIsSequential
  <1> QED BY <1>6, <1>7, <1>9, <1>10, <1>11 DEF GatewayInv

\* A transaction that leaves nothing: that of the daemon, which is then free, or
\* another one.
LEMMA RollBackInv ==
  ASSUME Context, NEW w \in Webhooks, Outbox!RollBack(w),
         UNCHANGED <<origin, lost>>, processed \subseteq processed',
         \/ own' = None /\ w = own
         \/ own' = own /\ w # own /\ UNCHANGED <<pc, at, lo, processed>>
  PROVE  GatewayInv'
  <1>1. \A v \in Webhooks :
          /\ row'[v] = IF v = w THEN "dropped" ELSE row[v]
          /\ overlap'[v] = overlap[v]
          /\ posts'[v] = posts[v]
    BY DEF Outbox!RollBack, Context, OutboxFacts
  <1>2. row[w] = "open"
    BY DEF Outbox!RollBack
  <1>3. TypeOK /\ OwnIsOpen /\ OneWebhookPerPayment /\ AccountIsSequential
          /\ ChainOrderUpToPage
    BY DEF Context, GatewayInv
  <1>4. TypeOK'
    BY <1>3 DEF TypeOK
  <1>5. OwnIsOpen'
    <2>1. own' # None => OwnInHand'
      BY <1>1, <1>3, <1>4 DEF OwnIsOpen, OwnInHand, TypeOK, IsPayment
    <2>2. ASSUME NEW v \in Webhooks, row'[v] = "open", origin'[v] # Elsewhere
          PROVE  v = own' \/ v \in lost'
      BY <2>2, <1>1, <1>3 DEF OwnIsOpen, OwnInHand, Open
    <2>3. \A v \in lost' : row'[v] \in {"open", "dropped"}
      BY <1>1, <1>3 DEF OwnIsOpen, OwnInHand, TypeOK
    <2>4. \A v \in Webhooks : row'[v] = "unborn" => origin'[v] = Elsewhere
      BY <1>1, <1>3 DEF OwnIsOpen, OwnInHand
    <2> QED BY <2>1, <2>2, <2>3, <2>4 DEF OwnIsOpen, OwnInHand, Open
  <1>6. \A v \in Webhooks : Visible(v)' <=> Visible(v)
    BY <1>1, <1>2 DEF Visible
  <1>7. OneWebhookPerPayment'
    BY <1>3, <1>6 DEF OneWebhookPerPayment, Announces
  <1>8. ChainOrderUpToPage'
    BY <1>3, <1>6, Names DEF ChainOrderUpToPage
  <1>9. AccountIsSequential'
    <2>1. ASSUME NEW v \in Webhooks, NEW u \in overlap'[v] PROVE row'[u] # "unborn"
      BY <1>1, <1>3 DEF AccountIsSequential, Context, OutboxFacts
    <2>2. \A v \in Webhooks : Settled(v) => Settled(v)'
      BY <1>1 DEF Settled
    <2> QED BY <1>1, <1>3, <2>1, <2>2, Names DEF AccountIsSequential
  <1> QED BY <1>4, <1>5, <1>7, <1>8, <1>9 DEF GatewayInv

LEMMA BeginElsewhereInv ==
  ASSUME Context, NEW w \in Webhooks, BeginElsewhere(w) PROVE GatewayInv'
  <1>1. PICK O \in SUBSET Open :
          \A v \in Webhooks :
            /\ row'[v] = IF v = w THEN "open" ELSE row[v]
            /\ overlap'[v] = IF v = w THEN O ELSE overlap[v]
            /\ posts'[v] = posts[v]
    <2>1. \A v \in Webhooks : row'[v] = IF v = w THEN "open" ELSE row[v]
      BY DEF BeginElsewhere, Outbox!Begin, Context, OutboxFacts
    <2>2. \A v \in Webhooks :
            overlap'[v] = IF v = w THEN Open ELSE overlap[v]
      BY DEF BeginElsewhere, Outbox!Begin, Context, OutboxFacts, Outbox!InState,
         Outbox!Webhooks, Open, Webhooks
    <2>3. posts' = posts
      BY DEF BeginElsewhere, Outbox!Begin
    <2> QED BY <2>1, <2>2, <2>3
  <1>2. UNCHANGED <<own, origin, lost, pc, at, lo, processed>>
    BY DEF BeginElsewhere, daemonVars, linkVars
  <1>3. TypeOK /\ OwnIsOpen /\ OneWebhookPerPayment /\ AccountIsSequential
          /\ ChainOrderUpToPage
    BY DEF Context, GatewayInv
  <1>4. row[w] = "unborn" /\ origin[w] = Elsewhere
    BY <1>3 DEF BeginElsewhere, Outbox!Begin, OwnIsOpen
  <1>5. TypeOK'
    BY <1>2, <1>3 DEF TypeOK
  <1>6. OwnIsOpen'
    <2>1. own' # None => OwnInHand'
      BY <1>1, <1>2, <1>3, <1>4 DEF OwnIsOpen, OwnInHand, TypeOK, IsPayment
    <2>2. ASSUME NEW v \in Webhooks, row'[v] = "open", origin'[v] # Elsewhere
          PROVE  v = own' \/ v \in lost'
      BY <2>2, <1>1, <1>2, <1>3, <1>4 DEF OwnIsOpen, Open
    <2>3. \A v \in lost' : row'[v] \in {"open", "dropped"}
      BY <1>1, <1>2, <1>3 DEF OwnIsOpen, TypeOK
    <2>4. \A v \in Webhooks : row'[v] = "unborn" => origin'[v] = Elsewhere
      BY <1>1, <1>2, <1>3 DEF OwnIsOpen
    <2> QED BY <2>1, <2>2, <2>3, <2>4 DEF OwnIsOpen, Open
  <1>7. \A v \in Webhooks : Visible(v)' <=> Visible(v)
    BY <1>1, <1>4 DEF Visible
  <1>8. OneWebhookPerPayment'
    BY <1>2, <1>3, <1>7 DEF OneWebhookPerPayment, Announces
  <1>9. ChainOrderUpToPage'
    BY <1>2, <1>3, <1>7, Names DEF ChainOrderUpToPage
  <1>10. AccountIsSequential'
    <2>1. ASSUME NEW v \in Webhooks, NEW u \in overlap'[v] PROVE row'[u] # "unborn"
      <3>1. u \in Webhooks /\ row[u] # "unborn"
        BY <1>1, <1>3 DEF AccountIsSequential, Context, OutboxFacts, Open
      <3> QED BY <3>1, <1>1
    <2>2. \A v \in Webhooks : Settled(v) => Settled(v)'
      BY <1>1, <1>2, <1>4 DEF Settled
    <2> QED BY <1>1, <1>2, <1>3, <1>4, <2>1, <2>2, Names DEF AccountIsSequential
  <1> QED BY <1>5, <1>6, <1>8, <1>9, <1>10 DEF GatewayInv

LEMMA CommitElsewhereInv ==
  ASSUME Context, NEW w \in Webhooks, Outbox!Commit(w),
         origin[w] = Elsewhere, w \notin lost,
         UNCHANGED <<daemonVars, linkVars>>
  PROVE  GatewayInv'
  <1>1. \A v \in Webhooks :
          /\ row'[v] = IF v = w THEN "unsent" ELSE row[v]
          /\ overlap'[v] = overlap[v]
          /\ posts'[v] = posts[v]
    BY DEF Outbox!Commit, Context, OutboxFacts
  <1>2. UNCHANGED <<own, origin, lost, pc, at, lo, processed>>
    BY DEF daemonVars, linkVars
  <1>3. TypeOK /\ OwnIsOpen /\ OneWebhookPerPayment /\ AccountIsSequential
          /\ ChainOrderUpToPage
    BY DEF Context, GatewayInv
  <1>4. TypeOK'
    BY <1>2, <1>3 DEF TypeOK
  <1>5. OwnIsOpen'
    <2>1. own' # None => OwnInHand'
      <3>1. own # w \/ own = None
        BY <1>3, PaymentsAssumption DEF OwnIsOpen, OwnInHand, IsPayment, Elsewhere
      <3> QED BY <3>1, <1>1, <1>2, <1>3, <1>4 DEF OwnIsOpen, OwnInHand, TypeOK, IsPayment
    <2>2. ASSUME NEW v \in Webhooks, row'[v] = "open", origin'[v] # Elsewhere
          PROVE  v = own' \/ v \in lost'
      BY <2>2, <1>1, <1>2, <1>3 DEF OwnIsOpen, OwnInHand, Open
    <2>3. \A v \in lost' : row'[v] \in {"open", "dropped"}
      BY <1>1, <1>2, <1>3 DEF OwnIsOpen, OwnInHand, TypeOK
    <2>4. \A v \in Webhooks : row'[v] = "unborn" => origin'[v] = Elsewhere
      BY <1>1, <1>2, <1>3 DEF OwnIsOpen, OwnInHand
    <2> QED BY <2>1, <2>2, <2>3, <2>4 DEF OwnIsOpen, OwnInHand, Open
  <1>6. \A v \in Webhooks : origin[v] # Elsewhere => (Visible(v)' <=> Visible(v))
    BY <1>1 DEF Visible
  <1>7. OneWebhookPerPayment'
    BY <1>2, <1>3, <1>6 DEF OneWebhookPerPayment, Announces
  <1>8. ChainOrderUpToPage'
    BY <1>2, <1>3, <1>6, Names DEF ChainOrderUpToPage
  <1>9. AccountIsSequential'
    <2>1. ASSUME NEW v \in Webhooks, NEW u \in overlap'[v] PROVE row'[u] # "unborn"
      BY <1>1, <1>3 DEF AccountIsSequential, Context, OutboxFacts
    <2>2. \A v \in Webhooks : origin[v] # Elsewhere /\ Settled(v) => Settled(v)'
      BY <1>1, <1>2 DEF Settled
    <2> QED BY <1>1, <1>2, <1>3, <2>1, <2>2, Names DEF AccountIsSequential
  <1> QED BY <1>4, <1>5, <1>7, <1>8, <1>9 DEF GatewayInv

LEMMA CreditInv == ASSUME Context, Credit PROVE GatewayInv'
  <1>1. TypeOK /\ OwnIsOpen /\ OneWebhookPerPayment /\ AccountIsSequential
          /\ ChainOrderUpToPage
    BY DEF Context, GatewayInv
  <1>2. /\ own \in Webhooks /\ own' = None
        /\ processed' = processed \cup {at}
        /\ UNCHANGED <<origin, lost>>
    BY <1>1 DEF Credit, Daemon!HandleTx, TypeOK
  <1>3. \A v \in Webhooks :
          /\ row'[v] = IF v = own THEN "unsent" ELSE row[v]
          /\ overlap'[v] = overlap[v]
          /\ posts'[v] = posts[v]
    BY <1>2 DEF Credit, Outbox!Commit, Context, OutboxFacts
  <1>4. /\ own # None /\ row[own] = "open" /\ own \notin lost
        /\ pc = "handle" /\ at >= lo
        /\ origin[own] = at /\ at \in Payments /\ at \notin processed
    BY <1>1, <1>2, Names DEF OwnIsOpen, OwnInHand, IsPayment
  <1>5. at # Elsewhere
    BY <1>4, PaymentsAssumption DEF Elsewhere
  <1>6. TypeOK'
    BY <1>1, <1>2 DEF TypeOK
  <1>7. OwnIsOpen'
    <2>1. ASSUME NEW v \in Webhooks, row'[v] = "open", origin'[v] # Elsewhere
          PROVE  v \in lost'
      BY <2>1, <1>1, <1>2, <1>3 DEF OwnIsOpen, Open
    <2>2. \A v \in lost' : row'[v] \in {"open", "dropped"}
      BY <1>1, <1>2, <1>3, <1>4 DEF OwnIsOpen, TypeOK
    <2>3. \A v \in Webhooks : row'[v] = "unborn" => origin'[v] = Elsewhere
      BY <1>1, <1>2, <1>3 DEF OwnIsOpen
    <2> QED BY <1>2, <2>1, <2>2, <2>3 DEF OwnIsOpen, Open
  <1>8. \A v \in Webhooks : Visible(v)' <=> Visible(v) \/ v = own
    BY <1>3 DEF Visible
  <1>9. OneWebhookPerPayment'
    <2>1. \A v \in Webhooks : Visible(v) => origin[v] # at
      BY <1>1, <1>4, <1>5 DEF OneWebhookPerPayment
    <2> QED BY <1>1, <1>2, <1>4, <1>8, <2>1 DEF OneWebhookPerPayment, Announces
  <1>10. ChainOrderUpToPage'
    <2>1. ASSUME NEW v \in Webhooks, Visible(v), origin[v] # Elsewhere
          PROVE  origin[v] < at + Limit
      <3>1. origin[v] \in processed /\ origin[v] \in Nat /\ origin[v] < lo + Limit
        BY <1>1, <1>4, <2>1 DEF OneWebhookPerPayment, Context, DaemonFacts
      <3> QED BY <3>1, <1>4, ComponentAssumption DEF Context, DaemonFacts
    <2>2. \A v \in Webhooks : v > own => origin[v] = Elsewhere
      BY <1>1, <1>4 DEF AccountIsSequential
    <2>3. ASSUME NEW w \in Webhooks, NEW v \in 1..(w - 1), Visible(v)', Visible(w)',
                 origin'[v] # Elsewhere, origin'[w] # Elsewhere
          PROVE  origin'[v] < origin'[w] + Limit
      <3>1. v \in Webhooks /\ v < w
        BY Names
      <3>2. v # own
        BY <3>1, <2>2, <2>3, <1>2
      <3>3. Visible(v) /\ (Visible(w) \/ w = own)
        BY <3>1, <3>2, <2>3, <1>8
      <3>4. CASE w = own
        BY <3>1, <3>3, <3>4, <2>1, <2>3, <1>2, <1>4
      <3>5. CASE Visible(w)
        BY <3>1, <3>3, <3>5, <2>3, <1>1, <1>2 DEF ChainOrderUpToPage
      <3> QED BY <3>3, <3>4, <3>5
    <2> QED BY <2>3 DEF ChainOrderUpToPage
  <1>11. AccountIsSequential'
    <2>1. ASSUME NEW v \in Webhooks, NEW u \in overlap'[v] PROVE row'[u] # "unborn"
      BY <1>1, <1>2, <1>3 DEF AccountIsSequential, Context, OutboxFacts
    <2>2. ASSUME NEW v \in Webhooks, origin'[v] # Elsewhere, posts'[v] > 0,
                 NEW u \in 1..(v - 1), origin'[u] # Elsewhere
          PROVE  Settled(u)'
      <3>1. u \in Webhooks
        BY Names
      <3>2. Settled(u)
        BY <2>2, <1>1, <1>2, <1>3 DEF AccountIsSequential
      <3>3. u # own
        BY <3>2, <1>4 DEF Settled
      <3> QED BY <3>1, <3>2, <3>3, <1>2, <1>3 DEF Settled
    <2> QED BY <1>1, <1>2, <1>3, <2>1, <2>2 DEF AccountIsSequential
  <1> QED BY <1>6, <1>7, <1>9, <1>10, <1>11 DEF GatewayInv

\* The webhook the pass is at has no older one of its account before it that the
\* merchant could still hear of.
LEMMA OldersSettled ==
  ASSUME Context, NEW w \in Webhooks, w \in batch, \A v \in batch : w <= v,
         origin[w] # Elsewhere, NEW v \in 1..(w - 1), origin[v] # Elsewhere
  PROVE  Settled(v)
  <1>1. OwnIsOpen /\ AccountIsSequential
    BY DEF Context, GatewayInv
  <1>2. v \in Webhooks /\ v < w /\ v \in Nat /\ w \in Nat
    BY Names
  <1>3. row[v] # "unborn"
    BY <1>1, <1>2 DEF OwnIsOpen
  <1>4. row[v] = "open" => v \in lost
    BY <1>1, <1>2 DEF OwnIsOpen, Open, AccountIsSequential, None, Webhooks
  <1>5. row[v] # "unsent"
    <2>1. SUFFICES ASSUME row[v] = "unsent" PROVE FALSE
      OBVIOUS
    <2>2. v \notin batch
      BY <1>2
    <2>3. v \in overlap[w]
      BY <2>1, <2>2 DEF Context, OutboxFacts
    <2>4. v \in lost
      BY <2>3, <1>1 DEF AccountIsSequential
    <2> QED BY <2>1, <2>4, <1>1 DEF OwnIsOpen
  <1> QED BY <1>2, <1>3, <1>4, <1>5 DEF Settled, Context, OutboxFacts

LEMMA DeliveryInv ==
  ASSUME Context, Deliver \/ \E w \in Webhooks : DeliveryFails(w)
  PROVE  GatewayInv'
  <1>1. UNCHANGED <<own, origin, lost, pc, at, lo, processed>>
    BY DEF Deliver, DeliveryFails, daemonVars, linkVars
  <1>2. /\ UNCHANGED overlap
        /\ \A w \in Webhooks :
             row'[w] = row[w] \/ (row[w] = "unsent" /\ row'[w] = "sent")
        /\ \A w \in Webhooks :
             \/ posts'[w] = posts[w]
             \/ w \in batch /\ \A v \in batch : w <= v
    BY OutboxPass DEF Context, Deliver, DeliveryFails
  <1>3. TypeOK /\ OwnIsOpen /\ OneWebhookPerPayment /\ AccountIsSequential
          /\ ChainOrderUpToPage
    BY DEF Context, GatewayInv
  <1>4. TypeOK'
    BY <1>1, <1>3 DEF TypeOK
  <1>5. OwnIsOpen'
    <2>1. own' # None => OwnInHand'
      BY <1>1, <1>2, <1>3 DEF OwnIsOpen, OwnInHand, TypeOK, IsPayment
    <2>2. ASSUME NEW v \in Webhooks, row'[v] = "open", origin'[v] # Elsewhere
          PROVE  v = own' \/ v \in lost'
      BY <2>2, <1>1, <1>2, <1>3 DEF OwnIsOpen, Open
    <2>3. \A v \in lost' : row'[v] \in {"open", "dropped"}
      BY <1>1, <1>2, <1>3 DEF OwnIsOpen, TypeOK
    <2>4. \A v \in Webhooks : row'[v] = "unborn" => origin'[v] = Elsewhere
      BY <1>1, <1>2, <1>3 DEF OwnIsOpen
    <2> QED BY <2>1, <2>2, <2>3, <2>4 DEF OwnIsOpen, Open
  <1>6. \A v \in Webhooks : Visible(v)' <=> Visible(v)
    BY <1>2 DEF Visible
  <1>7. OneWebhookPerPayment'
    BY <1>1, <1>3, <1>6 DEF OneWebhookPerPayment, Announces
  <1>8. ChainOrderUpToPage'
    BY <1>1, <1>3, <1>6, Names DEF ChainOrderUpToPage
  <1>9. \A v \in Webhooks : Settled(v) => Settled(v)'
    BY <1>1, <1>2 DEF Settled
  <1>10. AccountIsSequential'
    <2>1. ASSUME NEW v \in Webhooks, NEW u \in overlap'[v] PROVE row'[u] # "unborn"
      BY <1>2, <1>3 DEF AccountIsSequential, Context, OutboxFacts
    <2>2. ASSUME NEW w \in Webhooks, origin'[w] # Elsewhere, posts'[w] > 0,
                 NEW v \in 1..(w - 1), origin'[v] # Elsewhere
          PROVE  Settled(v)'
      <3>1. CASE posts'[w] = posts[w]
        BY <3>1, <2>2, <1>1, <1>3, <1>9, Names DEF AccountIsSequential
      <3>2. CASE w \in batch /\ \A u \in batch : w <= u
        <4>1. origin[w] # Elsewhere /\ origin[v] # Elsewhere
          BY <2>2, <1>1
        <4>2. Settled(v)
          BY <3>2, <4>1, OldersSettled
        <4> QED BY <4>2, <1>9, Names
      <3> QED BY <3>1, <3>2, <1>2
    <2> QED BY <1>1, <1>2, <1>3, <2>1, <2>2 DEF AccountIsSequential
  <1> QED BY <1>4, <1>5, <1>7, <1>8, <1>10 DEF GatewayInv

LEMMA CrashInv == ASSUME Context, Crash PROVE GatewayInv'
  <1>1. /\ UNCHANGED <<row, overlap, posts, origin, processed>>
        /\ own' = None /\ lost' = lost \cup Open
    BY DEF Crash, daemonVars, outboxVars, Daemon!Abort, Outbox!Crash
  <1>2. TypeOK /\ OwnIsOpen /\ OneWebhookPerPayment /\ AccountIsSequential
          /\ ChainOrderUpToPage
    BY DEF Context, GatewayInv
  <1>3. TypeOK' /\ OwnIsOpen'
    BY <1>1, <1>2 DEF TypeOK, OwnIsOpen, Open
  <1>4. OneWebhookPerPayment' /\ ChainOrderUpToPage'
    BY <1>1, <1>2 DEF OneWebhookPerPayment, Announces, Visible, ChainOrderUpToPage
  <1>5. AccountIsSequential'
    BY <1>1, <1>2 DEF AccountIsSequential, Settled
  <1> QED BY <1>3, <1>4, <1>5 DEF GatewayInv

LEMMA NextInv == ASSUME Context, [Next]_vars PROVE GatewayInv'
  <1>1. TypeOK /\ OwnIsOpen
    BY DEF Context, GatewayInv
  <1>2. CASE UNCHANGED vars
    BY <1>2 DEF Context, GatewayInv, TypeOK, OwnIsOpen, OwnInHand, Open, IsPayment,
       OneWebhookPerPayment, Announces, Visible, AccountIsSequential, Settled,
       ChainOrderUpToPage, vars, daemonVars, outboxVars, linkVars
  <1>3. CASE Arrive \/ Discover \/ Note \/ (Abort /\ own = None)
    BY <1>3, DaemonOnlyInv
  <1>4. CASE \E w \in Webhooks : Begin(w)
    BY <1>4, BeginInv
  <1>5. CASE Credit
    BY <1>5, CreditInv
  <1>6. CASE GiveUp \/ (Abort /\ own # None)
    <2>1. /\ own \in Webhooks /\ Outbox!RollBack(own)
          /\ own' = None /\ UNCHANGED <<origin, lost>>
          /\ processed \subseteq processed'
      BY <1>1, <1>6 DEF GiveUp, Abort, Daemon!HandleTx, Daemon!Abort, TypeOK
    <2> QED BY <2>1, RollBackInv
  <1>7. ASSUME NEW w \in Webhooks, BeginElsewhere(w) PROVE GatewayInv'
    BY <1>7, BeginElsewhereInv
  <1>8. ASSUME NEW w \in Webhooks, RollBackLost(w) PROVE GatewayInv'
    <2>1. w # own
      BY <1>1, <1>8, Names DEF RollBackLost, OwnIsOpen, OwnInHand
    <2> QED BY <1>8, <2>1, RollBackInv DEF RollBackLost, daemonVars, linkVars
  <1>9. ASSUME NEW w \in Webhooks, EndElsewhere(w) PROVE GatewayInv'
    <2>1. w # own
      BY <1>1, <1>9, Names, PaymentsAssumption
         DEF EndElsewhere, OwnIsOpen, OwnInHand, IsPayment, Elsewhere
    <2>2. CASE Outbox!Commit(w)
      BY <1>9, <2>2, CommitElsewhereInv DEF EndElsewhere
    <2>3. CASE Outbox!RollBack(w)
      BY <1>9, <2>1, <2>3, RollBackInv DEF EndElsewhere, daemonVars, linkVars
    <2> QED BY <1>9, <2>2, <2>3 DEF EndElsewhere
  <1>10. CASE Deliver \/ \E w \in Webhooks : DeliveryFails(w)
    BY <1>10, DeliveryInv
  <1>11. CASE Crash
    BY <1>11, CrashInv
  <1> QED BY <1>2, <1>3, <1>4, <1>5, <1>6, <1>7, <1>8, <1>9, <1>10, <1>11
       DEF Next, Advance, RollBackAnyLost

-----------------------------------------------------------------------------
\* The theorems

LEMMA AlwaysContext == Spec => []Context
  <1>1. Init => GatewayInv
    <2>1. Init => row = [w \in Webhooks |-> "unborn"] /\ posts = [w \in Webhooks |-> 0]
                    /\ overlap = [w \in Webhooks |-> {}]
      BY DEF Init, Outbox!Init, Outbox!Webhooks, Webhooks
    <2> QED BY <2>1, ComponentAssumption DEF Init, GatewayInv, TypeOK, OwnIsOpen, Open,
         OneWebhookPerPayment, Visible, AccountIsSequential, ChainOrderUpToPage,
         Webhooks
  <1>2. GatewayInv /\ DaemonFacts /\ OutboxFacts /\ [Next]_vars => GatewayInv'
    BY NextInv DEF Context
  <1>3. DaemonTheorems!PassInv /\ DaemonTheorems!NewerUntouched
          /\ OutboxTheorems!OutboxInv => DaemonFacts /\ OutboxFacts
    BY FactsHold
  <1>4. GatewayInv /\ DaemonFacts /\ OutboxFacts => Context
    BY DEF Context
  <1> QED BY <1>1, <1>2, <1>3, <1>4, ComponentsAreSound, PTL DEF Spec

\* The invariant that ties the account, the transactions and the webhooks
\* together, for every page size, history, set of payments and number of
\* failures.
THEOREM Safety == Spec => []GatewayInv
  <1>1. Context => GatewayInv
    BY DEF Context
  <1> QED BY <1>1, AlwaysContext, PTL

\* Failing passes, restarts and the transactions of a dead backend never let a
\* payment be announced twice, or one whose row is missing be announced.
THEOREM AnnouncedOnce == Spec => []OneWebhookPerPayment
  <1>1. GatewayInv => OneWebhookPerPayment
    BY DEF GatewayInv
  <1> QED BY <1>1, Safety, PTL

\* The webhooks of one account are out of the chain's order by less than a page.
THEOREM OrderOfChain == Spec => []ChainOrderUpToPage
  <1>1. GatewayInv => ChainOrderUpToPage
    BY DEF GatewayInv
  <1> QED BY <1>1, Safety, PTL

LEMMA WhoPosts ==
  ASSUME Context, [Next]_vars, NEW w \in Webhooks, Posted(w)
  PROVE  w \in batch /\ \A v \in batch : w <= v
  <1>1. posts[w] \in Nat /\ posts' # posts
    BY DEF Posted, Context, OutboxFacts
  <1>2. CASE Deliver \/ \E v \in Webhooks : DeliveryFails(v)
    <2>1. posts'[w] = posts[w] \/ (w \in batch /\ \A v \in batch : w <= v)
      BY <1>2, OutboxPass DEF Context, Deliver, DeliveryFails
    <2> QED BY <1>1, <2>1 DEF Posted
  <1>3. CASE UNCHANGED posts
    BY <1>1, <1>3
  <1> QED BY <1>2, <1>3 DEF Next, Advance, Arrive, Discover, Note, Credit, GiveUp,
       Abort, Begin, BeginElsewhere, EndElsewhere, Crash, RollBackAnyLost,
       RollBackLost, outboxVars, vars, Outbox!Begin, Outbox!Commit,
       Outbox!RollBack, Outbox!Crash

\* Posts about the payments of one account never overtake each other.
THEOREM OrderOfAccount == Spec => AccountInOrder
  <1>1. Context /\ [Next]_vars =>
          [\A w \in Webhooks : Posted(w) /\ origin[w] # Elsewhere =>
             \A v \in Webhooks \ {w} : origin[v] # Elsewhere =>
               \/ v > w /\ posts[v] = 0
               \/ v < w /\ row[v] \in {"dropped", "sent"}
               \/ v < w /\ row[v] = "open" /\ v \in lost]_vars
    <2> SUFFICES ASSUME Context, [Next]_vars,
                        NEW w \in Webhooks, Posted(w), origin[w] # Elsewhere,
                        NEW v \in Webhooks \ {w}, origin[v] # Elsewhere
                 PROVE  \/ v > w /\ posts[v] = 0
                        \/ v < w /\ row[v] \in {"dropped", "sent"}
                        \/ v < w /\ row[v] = "open" /\ v \in lost
      OBVIOUS
    <2>1. w \in batch /\ \A u \in batch : w <= u
      BY WhoPosts
    <2>2. row[w] = "unsent"
      BY <2>1 DEF Context, OutboxFacts
    <2>3. v \in Nat /\ w \in Nat /\ posts[v] \in Nat
      BY Names DEF Context, OutboxFacts
    <2>4. CASE v < w
      <3>1. v \in 1..(w - 1)
        BY <2>4, Names
      <3> QED BY <2>1, <2>4, <3>1, OldersSettled DEF Settled
    <2>5. CASE v > w
      <3>1. w \in 1..(v - 1)
        BY <2>5, Names
      <3>2. ~Settled(w)
        BY <2>2 DEF Settled
      <3>3. ~(posts[v] > 0)
        BY <3>1, <3>2 DEF Context, GatewayInv, AccountIsSequential
      <3> QED BY <2>3, <2>5, <3>3
    <2> QED BY <2>3, <2>4, <2>5
  <1> QED BY <1>1, AlwaysContext, PTL DEF Spec, AccountInOrder

-----------------------------------------------------------------------------
\* The gateway implements the ledger: a step credits the payment the pass is at,
\* gives it up, or leaves what the tables say of every payment as it is.

LEMMA SameNews ==
  ASSUME NEW t \in Payments, t \in processed' <=> t \in processed,
         \A w \in Webhooks : Announces(w, t)' <=> Announces(w, t)
  PROVE  News(t)' = News(t) /\ Verdict(t)' = Verdict(t)
  BY DEF News, Verdict, GivenUp

LEMMA LedgerStutters ==
  ASSUME processed' \cap Payments = processed \cap Payments,
         \A w \in Webhooks : \A t \in Payments : Announces(w, t)' <=> Announces(w, t)
  PROVE  UNCHANGED Ledger!ledgerVars
  <1>1. \A t \in Payments : News(t)' = News(t) /\ Verdict(t)' = Verdict(t)
    BY SameNews
  <1>2. \A t \in Payments : Announced(t)' = Announced(t)
    BY <1>1 DEF Announced
  <1> QED BY <1>1, <1>2 DEF Ledger!ledgerVars

LEMMA PaymentsAreHere == \A t \in Payments : t # Elsewhere
  BY PaymentsAssumption DEF Elsewhere

\* A transaction of the account is only ever committed by Credit, so all other
\* steps leave the webhooks of the payments as visible as they were.
LEMMA NewsStay ==
  ASSUME Context, [Next]_vars, ~Credit
  PROVE  \A w \in Webhooks : \A t \in Payments : Announces(w, t)' <=> Announces(w, t)
  <1> USE DEF Announces, Visible
  <1>0. /\ row \in [Webhooks -> {"unborn", "open", "dropped", "unsent", "sent"}]
        /\ TypeOK /\ OwnIsOpen
    BY DEF Context, GatewayInv, OutboxFacts
  <1>1. ASSUME NEW v \in Webhooks, Outbox!RollBack(v), UNCHANGED origin
        PROVE  \A w \in Webhooks : \A t \in Payments : Announces(w, t)' <=> Announces(w, t)
    BY <1>0, <1>1 DEF Outbox!RollBack
  <1>2. ASSUME NEW v \in Webhooks, Outbox!Begin(v),
               UNCHANGED origin \/ origin' = [origin EXCEPT ![v] = at]
        PROVE  \A w \in Webhooks : \A t \in Payments : Announces(w, t)' <=> Announces(w, t)
    BY <1>0, <1>2 DEF Outbox!Begin, TypeOK
  <1>3. ASSUME NEW v \in Webhooks, Outbox!Commit(v), origin[v] = Elsewhere,
               UNCHANGED origin
        PROVE  \A w \in Webhooks : \A t \in Payments : Announces(w, t)' <=> Announces(w, t)
    BY <1>0, <1>3, PaymentsAreHere DEF Outbox!Commit
  <1>4. CASE UNCHANGED <<row, origin>>
    BY <1>4
  <1>5. CASE Deliver \/ \E w \in Webhooks : DeliveryFails(w)
    <2>1. UNCHANGED origin
      BY <1>5 DEF Deliver, DeliveryFails, linkVars
    <2>2. \A w \in Webhooks :
            row'[w] = row[w] \/ (row[w] = "unsent" /\ row'[w] = "sent")
      BY <1>5, OutboxPass DEF Context, Deliver, DeliveryFails
    <2> QED BY <2>1, <2>2
  <1>6. CASE \E w \in Webhooks : Begin(w) \/ BeginElsewhere(w)
    BY <1>2, <1>6 DEF Begin, BeginElsewhere, linkVars
  <1>7. CASE \E w \in Webhooks : EndElsewhere(w) \/ RollBackLost(w)
    BY <1>1, <1>3, <1>7 DEF EndElsewhere, RollBackLost, linkVars
  <1>8. CASE GiveUp \/ (Abort /\ own # None)
    <2>1. own \in Webhooks /\ Outbox!RollBack(own) /\ UNCHANGED origin
      BY <1>0, <1>8 DEF GiveUp, Abort, TypeOK
    <2> QED BY <1>1, <2>1
  <1>9. CASE Crash
    BY <1>4, <1>9 DEF Crash, outboxVars, Outbox!Crash
  <1> QED BY <1>4, <1>5, <1>6, <1>7, <1>8, <1>9 DEF Next, Advance, Arrive, Discover,
       Note, Abort, RollBackAnyLost, outboxVars, linkVars, vars

\* Only the end of a transaction notes a payment.
LEMMA NotedAtTheEnd ==
  ASSUME Context, [Next]_vars, ~Credit, ~GiveUp
  PROVE  processed' \cap Payments = processed \cap Payments
  <1>1. CASE Note
    <2>1. processed' = processed \cup {at} /\ ~(at \in Payments \ processed)
      BY <1>1 DEF Note, Daemon!HandleTx, IsPayment
    <2> QED BY <2>1
  <1>2. CASE UNCHANGED processed
    BY <1>2
  <1> QED BY <1>1, <1>2 DEF Next, Advance, Arrive, Discover, Begin, Abort,
       BeginElsewhere, EndElsewhere, Deliver, DeliveryFails, Crash,
       RollBackAnyLost, RollBackLost, daemonVars, vars, Daemon!Arrive, Daemon!pass,
       Daemon!Start, Daemon!NextPage, Daemon!CheckPage, Daemon!Back,
       Daemon!PageDone, Daemon!Abort

\* The payment in hand is open: not noted, and announced by no webhook.
LEMMA InHandIsOpen ==
  ASSUME Context, own # None
  PROVE  /\ own \in Webhooks /\ origin[own] = at /\ row[own] = "open"
         /\ at \in Payments /\ at \notin processed
         /\ News(at) = {} /\ Verdict(at) = "open"
  <1>1. OwnInHand /\ own \in Webhooks
    BY DEF Context, GatewayInv, TypeOK, OwnIsOpen
  <1>2. at \in Payments /\ at \notin processed
    BY <1>1 DEF OwnInHand, IsPayment
  <1>3. News(at) = {}
    BY <1>2, PaymentsAreHere
       DEF News, Announces, Context, GatewayInv, OneWebhookPerPayment
  <1> QED BY <1>1, <1>2, <1>3 DEF OwnInHand, Verdict, GivenUp

\* t stands for the payment the pass was at, which is another after the step.
LEMMA CreditCredits ==
  ASSUME Context, Credit, NEW t, t = at PROVE Ledger!Credit(t)
  <1>1. /\ own \in Webhooks /\ origin[own] = t /\ row[own] = "open"
        /\ t \in Payments /\ t \notin processed
        /\ News(t) = {} /\ Verdict(t) = "open"
    BY InHandIsOpen DEF Credit
  <1>2. processed' = processed \cup {t} /\ UNCHANGED origin
    BY DEF Credit, Daemon!HandleTx
  <1>3. \A w \in Webhooks : row'[w] = IF w = own THEN "unsent" ELSE row[w]
    BY <1>1 DEF Credit, Outbox!Commit, Context, OutboxFacts
  <1>4. News(t)' = {own}
    BY <1>1, <1>2, <1>3 DEF News, Announces, Visible
  <1>5. Announced(t) = 0 /\ Announced(t)' = 1
    BY <1>1, <1>4, FS_EmptySet, FS_Singleton DEF Announced
  <1>6. Verdict(t)' = "credited"
    BY <1>1, <1>4 DEF Verdict, GivenUp
  <1>7. ASSUME NEW u \in Payments, u # t
        PROVE  News(u)' = News(u) /\ Verdict(u)' = Verdict(u)
    BY <1>1, <1>2, <1>3, <1>7, SameNews DEF Announces, Visible
  <1>8. [u \in Payments |-> Verdict(u)]'
          = [[u \in Payments |-> Verdict(u)] EXCEPT ![t] = "credited"]
    BY <1>1, <1>6, <1>7
  <1>9. [u \in Payments |-> Announced(u)]'
          = [[u \in Payments |-> Announced(u)] EXCEPT ![t] = @ + 1]
    <2>1. \A u \in Payments \ {t} : Announced(u)' = Announced(u)
      BY <1>7 DEF Announced
    <2>2. [u \in Payments |-> Announced(u)]'
            = [[u \in Payments |-> Announced(u)] EXCEPT ![t] = 1]
      BY <1>1, <1>5, <2>1
    <2>3. [u \in Payments |-> Announced(u)][t] + 1 = 1
      BY <1>1, <1>5
    <2> QED BY <2>2, <2>3
  <1> QED BY <1>1, <1>8, <1>9 DEF Ledger!Credit

LEMMA GiveUpRejects ==
  ASSUME Context, GiveUp, ~Credit, NEW t, t = at PROVE Ledger!Reject(t)
  <1>1. t \in Payments /\ News(t) = {} /\ Verdict(t) = "open"
    BY InHandIsOpen DEF GiveUp
  <1>2. processed' = processed \cup {t}
    BY DEF GiveUp, Daemon!HandleTx
  <1>3. \A w \in Webhooks : \A u \in Payments : Announces(w, u)' <=> Announces(w, u)
    BY NewsStay DEF Next
  <1>4. \A u \in Payments : News(u)' = News(u)
    BY <1>3 DEF News
  <1>5. Verdict(t)' = "rejected"
    BY <1>1, <1>2, <1>4 DEF Verdict, GivenUp
  <1>6. \A u \in Payments \ {t} : Verdict(u)' = Verdict(u)
    BY <1>2, <1>4 DEF Verdict, GivenUp
  <1>7. [u \in Payments |-> Verdict(u)]'
          = [[u \in Payments |-> Verdict(u)] EXCEPT ![t] = "rejected"]
    BY <1>1, <1>5, <1>6
  <1>8. [u \in Payments |-> Announced(u)]'
          = [u \in Payments |-> Announced(u)]
    <2>1. \A u \in Payments : Announced(u)' = Announced(u)
      BY <1>4 DEF Announced
    <2> QED BY <2>1
  <1> QED BY <1>1, <1>7, <1>8 DEF Ledger!Reject

\* From the chain to the merchant, with every failure on the way, the gateway is
\* the ledger: a payment is decided once, for good, and announced in that step.
THEOREM Refinement == Spec => ImplementsLedger
  <1>1. Init => Ledger!Init
    <2> SUFFICES ASSUME Init PROVE Ledger!Init
      OBVIOUS
    <2>1. \A w \in Webhooks : row[w] = "unborn"
      BY DEF Init, Outbox!Init, Outbox!Webhooks, Webhooks
    <2>2. processed = {}
      BY DEF Init, Daemon!Init
    <2>3. \A t \in Payments : News(t) = {} /\ Verdict(t) = "open"
      BY <2>1, <2>2 DEF News, Announces, Visible, Verdict, GivenUp
    <2>4. \A t \in Payments : Announced(t) = 0
      BY <2>3, FS_EmptySet DEF Announced
    <2> QED BY <2>3, <2>4 DEF Ledger!Init
  <1>2. Context /\ [Next]_vars => [Ledger!Next]_(Ledger!ledgerVars)
    <2> SUFFICES ASSUME Context, [Next]_vars
                 PROVE  Ledger!Next \/ UNCHANGED Ledger!ledgerVars
      OBVIOUS
    <2>1. CASE Credit
      <3>1. PICK t \in Payments : t = at
        BY <2>1, InHandIsOpen DEF Credit
      <3> QED BY <2>1, <3>1, CreditCredits DEF Ledger!Next
    <2>2. CASE GiveUp /\ ~Credit
      <3>1. PICK t \in Payments : t = at
        BY <2>2, InHandIsOpen DEF GiveUp
      <3> QED BY <2>2, <3>1, GiveUpRejects DEF Ledger!Next
    <2>3. CASE ~GiveUp /\ ~Credit
      BY <2>3, NewsStay, NotedAtTheEnd, LedgerStutters
    <2> QED BY <2>1, <2>2, <2>3
  <1> QED BY <1>1, <1>2, AlwaysContext, PTL DEF Spec, ImplementsLedger, Ledger!Spec
==============================================================================

------------------------------- MODULE Gateway -------------------------------
(***************************************************************************)
(* The backend from the chain to the merchant: the daemon of one account   *)
(* (module TONDaemon), the rows of the webhook table it and the other      *)
(* daemons insert, and the outbox that posts them (module WebhookService). *)
(* The components share the tables only.  What handlePage does to one      *)
(* payment is two steps here, the BEGIN of ChargeService.process and its   *)
(* end, so that the other daemons, the outbox, new transactions and the    *)
(* death of the process come between them.                                 *)
(***************************************************************************)
EXTENDS Integers, FiniteSets, Sequences

CONSTANTS
  Limit, MaxTx, MaxFaults,   \* as in TONDaemon
  MaxWebhooks, MaxFailures,  \* as in WebhookService
  Payments,       \* transactions of the account that pay a charge
  MaxElsewhere,   \* bound: webhooks of the other daemons
  MaxTroubles     \* bound: how often something fails, in either pass or both

ASSUME ComponentAssumption ==
  /\ Limit \in Nat \ {0} /\ MaxTx \in Nat /\ MaxFaults \in Nat
  /\ MaxWebhooks \in Nat /\ MaxFailures \in Nat
ASSUME PaymentsAssumption == Payments \subseteq 1..MaxTx
ASSUME BoundsAssumption == MaxElsewhere \in Nat /\ MaxTroubles \in Nat

VARIABLES
  \* As in TONDaemon.
  head, processed, faults, pc, cursor, stack, canNext, lo, hi, at, seen, bottom,
  \* As in WebhookService, whose pc is outPc.
  row, outPc, batch, failures, posts, answered, overlap,
  \* The transaction of process() that is under way, and what it left.
  own,            \* the webhook to come of the daemon's transaction, or None
  origin,         \* [Webhooks -> the account's payment, or Elsewhere]
  lost            \* webhooks whose transaction was open when the backend died

daemonVars == <<head, processed, faults, pc,
                cursor, stack, canNext, lo, hi, at, seen, bottom>>
outboxVars == <<row, outPc, batch, failures, posts, answered, overlap>>
linkVars == <<own, origin, lost>>
vars == <<daemonVars, outboxVars, linkVars>>

Daemon == INSTANCE TONDaemon WITH Poison <- {}
Outbox == INSTANCE WebhookService WITH pc <- outPc, Daemons <- MaxWebhooks + 1

Webhooks == 1..MaxWebhooks
None == 0
Elsewhere == 0

Open == {w \in Webhooks : row[w] = "open"}
Visible(w) == row[w] \in {"unsent", "sent"}

\* The bound is not reached, and something may fail.
MayFail == faults + failures < MaxTroubles

Init ==
  /\ Daemon!Init
  /\ Outbox!Init
  /\ own = None
  /\ origin = [w \in Webhooks |-> Elsewhere]
  /\ lost = {}

-----------------------------------------------------------------------------
\* The daemon of the account

Arrive == Daemon!Arrive /\ UNCHANGED <<outboxVars, linkVars>>

\* The steps of a pass between two calls of handlePage.
Discover ==
  /\ \/ Daemon!Start \/ Daemon!NextPage \/ Daemon!CheckPage \/ Daemon!Back
     \/ Daemon!PageDone
  /\ UNCHANGED <<outboxVars, linkVars>>

\* Mutant of IsPayment: isProcessed is not asked, and the insert of the row that
\* is there already is ignored.
IsPaymentAgain(t) == t \in Payments

\* A transaction handlePage has not handled yet and passes on to process().
IsPayment(t) == t \in Payments \ processed

\* handlePage skips a transaction it has handled and notes one that pays nothing.
Note ==
  /\ ~IsPayment(at)
  /\ Daemon!HandleTx
  /\ UNCHANGED <<outboxVars, linkVars>>

\* Mutant of Begin: a payment that was begun once is not begun again.
BeginOnce(w) ==
  /\ pc = "handle" /\ at >= lo /\ own = None
  /\ IsPayment(at)
  /\ \A v \in Webhooks : origin[v] # at
  /\ Outbox!Begin(w)
  /\ own' = w
  /\ origin' = [origin EXCEPT ![w] = at]
  /\ UNCHANGED <<daemonVars, lost>>

\* manager.transaction begins.
Begin(w) ==
  /\ pc = "handle" /\ at >= lo /\ own = None
  /\ IsPayment(at)
  /\ Outbox!Begin(w)
  /\ own' = w
  /\ origin' = [origin EXCEPT ![w] = at]
  /\ UNCHANGED <<daemonVars, lost>>

\* The unique index makes an insert wait for a transaction of the dead backend
\* that holds an uncommitted row of the same payment.
MustWait == \E w \in Open \ {own} : origin[w] = at

\* COMMIT: the row of the payment and its webhook become visible at once.
Credit ==
  /\ own # None
  /\ ~MustWait
  /\ Outbox!Commit(own)
  /\ Daemon!HandleTx
  /\ own' = None
  /\ UNCHANGED <<origin, lost>>

\* process() throws, and the catch block notes the payment as something else.
GiveUp ==
  /\ own # None
  /\ ~MustWait
  /\ Outbox!RollBack(own)
  /\ Daemon!HandleTx
  /\ own' = None
  /\ UNCHANGED <<origin, lost>>

\* Mutant of Abort: the pass fails and leaves its transaction open.
AbortLeavesOpen ==
  /\ MayFail
  /\ Daemon!Abort
  /\ own' = None
  /\ UNCHANGED <<outboxVars, origin, lost>>

\* An await of the pass rejects, in process() and again in its catch block if a
\* transaction is open.
Abort ==
  /\ MayFail
  /\ Daemon!Abort
  /\ \/ own = None /\ UNCHANGED outboxVars
     \/ own # None /\ Outbox!RollBack(own)
  /\ own' = None
  /\ UNCHANGED <<origin, lost>>

-----------------------------------------------------------------------------
\* The other daemons

BeginElsewhere(w) ==
  /\ Cardinality({v \in Webhooks : row[v] # "unborn" /\ origin[v] = Elsewhere})
       < MaxElsewhere
  /\ Outbox!Begin(w)
  /\ UNCHANGED <<daemonVars, linkVars>>

EndElsewhere(w) ==
  /\ origin[w] = Elsewhere
  /\ w \notin lost
  /\ Outbox!Commit(w) \/ Outbox!RollBack(w)
  /\ UNCHANGED <<daemonVars, linkVars>>

-----------------------------------------------------------------------------
\* The outbox

Deliver ==
  /\ Outbox!Advance
  /\ UNCHANGED <<daemonVars, linkVars>>

DeliveryFails(w) ==
  /\ MayFail
  /\ Outbox!PostFails(w) \/ Outbox!MarkFails(w)
  /\ UNCHANGED <<daemonVars, linkVars>>

-----------------------------------------------------------------------------
\* The process dies, and another one starts: both passes are gone, and nobody
\* will ever commit the transactions that were open.  One whose COMMIT Postgres
\* is at when the process dies is done before the next process makes its first
\* pass, 15 s after its start: for it, this is the step after Credit.
Crash ==
  /\ MayFail
  /\ \/ pc = "idle" /\ UNCHANGED daemonVars
     \/ Daemon!Abort
  /\ \/ outPc = "idle" /\ UNCHANGED outboxVars
     \/ Outbox!Crash
  /\ own' = None
  /\ lost' = lost \cup Open
  /\ UNCHANGED origin

\* Mutant of RollBackLost: the COMMIT was under way and is done late.
CommitLost(w) ==
  /\ w \in lost
  /\ Outbox!Commit(w)
  /\ UNCHANGED <<daemonVars, linkVars>>

\* Postgres notices that the connection is dead.
RollBackLost(w) ==
  /\ w \in lost
  /\ Outbox!RollBack(w)
  /\ UNCHANGED <<daemonVars, linkVars>>

\* Every step of the pass but its failures.
Advance == Discover \/ Note \/ Credit \/ \E w \in Webhooks : Begin(w)

RollBackAnyLost == \E w \in Webhooks : RollBackLost(w)

Next ==
  \/ Arrive \/ Advance \/ GiveUp \/ Abort
  \/ \E w \in Webhooks : BeginElsewhere(w) \/ EndElsewhere(w)
  \/ Deliver
  \/ \E w \in Webhooks : DeliveryFails(w)
  \/ Crash
  \/ RollBackAnyLost

Spec == Init /\ [][Next]_vars

\* Both timers keep firing, every await settles, and Postgres notices every dead
\* connection.
FairSpec ==
  Spec /\ WF_vars(Advance \/ RollBackAnyLost) /\ WF_vars(Deliver)

-----------------------------------------------------------------------------
\* Properties

Announces(w, t) == origin[w] = t /\ Visible(w)

\* A payment has at most one webhook, and one only if its row says it is handled:
\* failing passes, restarts and transactions of a dead backend, which come back
\* to a payment that may or may not have been credited, never announce it twice.
OneWebhookPerPayment ==
  \A w \in Webhooks : Visible(w) /\ origin[w] # Elsewhere =>
    /\ origin[w] \in Payments \cap processed
    /\ \A v \in Webhooks : Announces(v, origin[w]) => v = w

Posted(w) == posts'[w] > posts[w]

\* Posts about the payments of one account never overtake each other, though
\* those of different accounts do: whatever the other daemons, failures and
\* restarts do, when a webhook of the account is posted every older one of it is
\* answered and marked, or will never be visible, and no newer one was posted.
AccountInOrder ==
  [][\A w \in Webhooks : Posted(w) /\ origin[w] # Elsewhere =>
       \A v \in Webhooks \ {w} : origin[v] # Elsewhere =>
         \/ v > w /\ posts[v] = 0
         \/ v < w /\ row[v] \in {"dropped", "sent"}
         \/ v < w /\ row[v] = "open" /\ v \in lost]_vars

\* The merchant hears of a payment after a newer one of the account only if the
\* two are so close that one page holds both.
ChainOrderUpToPage ==
  \A w \in Webhooks : \A v \in 1..(w - 1) :
    Visible(v) /\ Visible(w) /\ origin[v] # Elsewhere /\ origin[w] # Elsewhere =>
      origin[v] < origin[w] + Limit

Told(t) == \E w \in Webhooks : origin[w] = t /\ row[w] = "sent"
News(t) == {w \in Webhooks : Announces(w, t)}
GivenUp(t) == t \in processed /\ News(t) = {}

\* A payment is told to the merchant or noted as something else, whatever fails
\* on the way, unless Limit newer transactions push it off the first page.
PaymentTold ==
  \A t \in Payments :
    t <= head ~> Told(t) \/ GivenUp(t) \/ ~Daemon!OnFirstPage(t)

\* What the tables say of a payment.
Verdict(t) ==
  CASE News(t) # {} -> "credited"
    [] GivenUp(t)   -> "rejected"
    [] OTHER        -> "open"

Announced(t) == Cardinality(News(t))

Ledger == INSTANCE PaymentLedger
            WITH TxIds <- Payments,
                 verdict <- [t \in Payments |-> Verdict(t)],
                 announced <- [t \in Payments |-> Announced(t)]

\* The whole gateway keeps the promise of the ledger to the payments of the
\* account: a pass that comes back to one, another daemon, the outbox, a restart
\* and the end of a dead backend's transaction never change what was decided,
\* and a payment is announced once, in the step that decides it is credited.
ImplementsLedger == Ledger!Spec

-----------------------------------------------------------------------------
\* The inductive invariant

TypeOK ==
  /\ own \in Webhooks \cup {None}
  /\ origin \in [Webhooks -> Payments \cup {Elsewhere}]
  /\ lost \subseteq Webhooks

OwnInHand ==
  /\ row[own] = "open" /\ own \notin lost
  /\ pc = "handle" /\ at >= lo
  /\ origin[own] = at /\ IsPayment(at)

\* The open transaction of the daemon is that of the payment it is at; any other
\* open one of the account was lost with a backend, and a lost one never commits.
OwnIsOpen ==
  /\ own # None => OwnInHand
  /\ \A w \in Open : origin[w] # Elsewhere => w = own \/ w \in lost
  /\ \A w \in lost : row[w] \in {"open", "dropped"}
  /\ \A w \in Webhooks : row[w] = "unborn" => origin[w] = Elsewhere

Settled(w) ==
  row[w] \in {"dropped", "sent"} \/ (row[w] = "open" /\ w \in lost)

\* The transactions of the account begin one after the other: only lost ones
\* overlap, and before one is posted the older ones are settled.
AccountIsSequential ==
  /\ own # None => \A w \in Webhooks : w > own => origin[w] = Elsewhere
  /\ \A w \in Webhooks : \A v \in overlap[w] : row[v] # "unborn"
  /\ \A w \in Webhooks : origin[w] # Elsewhere =>
       /\ \A v \in overlap[w] : origin[v] # Elsewhere => v \in lost
       /\ posts[w] > 0 =>
            \A v \in 1..(w - 1) : origin[v] # Elsewhere => Settled(v)

\* Why the gateway is right, given that its components are.
GatewayInv ==
  /\ TypeOK
  /\ OwnIsOpen
  /\ OneWebhookPerPayment
  /\ AccountIsSequential
  /\ ChainOrderUpToPage
=============================================================================

---------------------------- MODULE WebhookService ----------------------------
(***************************************************************************)
(* src/gateway/webhook/webhook.service.ts: the webhook table as an outbox. *)
(* The daemons insert rows inside the transactions that credit payments;   *)
(* every five seconds one pass reads the rows that are not sent, in the    *)
(* order of createdAt, and for each posts it to the merchant and, after a  *)
(* 2XX answer, marks it; anything else ends the pass.                      *)
(*                                                                         *)
(* A webhook is named by its place in the order of createdAt: the column's *)
(* default, now(), is the time its transaction began, so webhooks may      *)
(* become visible in another order.                                        *)
(***************************************************************************)
EXTENDS Integers, FiniteSets, FiniteSetsExt

CONSTANTS
  MaxWebhooks,  \* bound: transactions that insert a webhook
  Daemons,      \* how many of them are open at a time: one per daemon
  MaxFailures   \* bound: posts, updates and passes that fail

ASSUME BoundAssumption ==
  MaxWebhooks \in Nat /\ Daemons \in Nat \ {0} /\ MaxFailures \in Nat

Webhooks == 1..MaxWebhooks

VARIABLES
  row,       \* [Webhooks -> RowStates]
  \* The pass under way, in memory.
  pc,        \* what the pass does next
  batch,     \* the rows it has read and not dealt with
  failures,  \* how often something failed
  \* History.
  posts,     \* [Webhooks -> how often the merchant was sent it]
  answered,  \* webhooks whose post got a 2XX answer
  overlap    \* [Webhooks -> transactions open when its transaction began]

vars == <<row, pc, batch, failures, posts, answered, overlap>>

\* unborn: not begun; open: begun, the row not visible; dropped: rolled back;
\* then the column sent of the row.
RowStates == {"unborn", "open", "dropped", "unsent", "sent"}

InState(s) == {w \in Webhooks : row[w] = s}

TypeOK ==
  /\ row \in [Webhooks -> RowStates]
  /\ pc \in {"idle", "post", "update"}
  /\ batch \subseteq Webhooks
  /\ failures \in 0..MaxFailures
  /\ posts \in [Webhooks -> Nat]
  /\ answered \subseteq Webhooks
  /\ overlap \in [Webhooks -> SUBSET Webhooks]
  /\ pc # "idle" => batch # {}

Init ==
  /\ row = [w \in Webhooks |-> "unborn"]
  /\ pc = "idle"
  /\ batch = {}
  /\ failures = 0
  /\ posts = [w \in Webhooks |-> 0]
  /\ answered = {}
  /\ overlap = [w \in Webhooks |-> {}]

-----------------------------------------------------------------------------
\* ChargeService.process, as far as the webhook table sees it

\* BEGIN: createdAt of the webhook to come.
Begin(w) ==
  /\ row[w] = "unborn"
  /\ \A v \in Webhooks : v < w => row[v] # "unborn"
  /\ Cardinality(InState("open")) < Daemons
  /\ row' = [row EXCEPT ![w] = "open"]
  /\ overlap' = [overlap EXCEPT ![w] = InState("open")]
  /\ UNCHANGED <<pc, batch, failures, posts, answered>>

\* COMMIT makes the row that create() inserted visible, with sent = false.
Commit(w) ==
  /\ row[w] = "open"
  /\ row' = [row EXCEPT ![w] = "unsent"]
  /\ UNCHANGED <<pc, batch, failures, posts, answered, overlap>>

RollBack(w) ==
  /\ row[w] = "open"
  /\ row' = [row EXCEPT ![w] = "dropped"]
  /\ UNCHANGED <<pc, batch, failures, posts, answered, overlap>>

-----------------------------------------------------------------------------
\* WebhookService.process

\* The pass goes on with the rows it has read, or is over.
GoOn(rows) ==
  /\ batch' = rows
  /\ pc' = IF rows = {} THEN "idle" ELSE "post"

\* Mutant of Find: rows already sent are read too.
FindAll ==
  /\ pc = "idle"
  /\ GoOn(InState("unsent") \cup InState("sent"))
  /\ UNCHANGED <<row, failures, posts, answered, overlap>>

\* The timer fires, and concatMap starts no pass while one is under way.
Find ==
  /\ pc = "idle"
  /\ GoOn(InState("unsent"))
  /\ UNCHANGED <<row, failures, posts, answered, overlap>>

\* Mutant of Current: the rows are read newest first.
NewestOf(w) == w \in batch /\ \A v \in batch : v <= w

\* The loop is at w: order by createdAt, ascending.
Current(w) == w \in batch /\ \A v \in batch : w <= v

\* What could fail has failed so far this often, and once more.
OneMoreFailure ==
  /\ failures < MaxFailures
  /\ failures' = failures + 1

\* Mutant of EndPass: a webhook that failed is skipped for now.
SkipToNext ==
  /\ batch' = batch \ {Min(batch)}
  /\ pc' = IF batch' = {} THEN "idle" ELSE "post"

\* Mutant of EndPass: a failed pass never completes, and concatMap waits for it.
StayInPass ==
  /\ UNCHANGED pc
  /\ batch' = {}

\* The catch block logs and returns: the rest of the batch is not posted.
EndPass ==
  /\ pc' = "idle"
  /\ batch' = {}

PostAnswered(w) ==
  /\ pc = "post"
  /\ Current(w)
  /\ posts' = [posts EXCEPT ![w] = @ + 1]
  /\ answered' = answered \cup {w}
  /\ pc' = "update"
  /\ UNCHANGED <<row, batch, failures, overlap>>

\* Mutant of PostFails: any answer of the merchant is taken for a 2XX.
PostTakenForAnswer(w) ==
  /\ pc = "post"
  /\ Current(w)
  /\ OneMoreFailure
  /\ posts' = [posts EXCEPT ![w] = @ + 1]
  /\ pc' = "update"
  /\ UNCHANGED <<row, batch, answered, overlap>>

\* Not reached; or reached, and the answer is no 2XX or comes after ten seconds.
PostFails(w) ==
  /\ pc = "post"
  /\ Current(w)
  /\ OneMoreFailure
  /\ \/ posts' = [posts EXCEPT ![w] = @ + 1]
     \/ UNCHANGED posts
  /\ EndPass
  /\ UNCHANGED <<row, answered, overlap>>

\* Mutant of MarkSent: the row is never updated.
MarkNothing(w) ==
  /\ pc = "update"
  /\ Current(w)
  /\ GoOn(batch \ {w})
  /\ UNCHANGED <<row, failures, posts, answered, overlap>>

MarkSent(w) ==
  /\ pc = "update"
  /\ Current(w)
  /\ row' = [row EXCEPT ![w] = "sent"]
  /\ GoOn(batch \ {w})
  /\ UNCHANGED <<failures, posts, answered, overlap>>

\* The UPDATE throws, done or not: the same catch block as for a failed post.
MarkFails(w) ==
  /\ pc = "update"
  /\ Current(w)
  /\ OneMoreFailure
  /\ \/ row' = [row EXCEPT ![w] = "sent"]
     \/ UNCHANGED row
  /\ EndPass
  /\ UNCHANGED <<posts, answered, overlap>>

\* The backend dies; what the pass had in memory is gone.
Crash ==
  /\ pc # "idle"
  /\ OneMoreFailure
  /\ EndPass
  /\ UNCHANGED <<row, posts, answered, overlap>>

Advance == Find \/ \E w \in Webhooks : PostAnswered(w) \/ MarkSent(w)

Next ==
  \/ \E w \in Webhooks : Begin(w) \/ Commit(w) \/ RollBack(w)
  \/ \E w \in Webhooks : PostFails(w) \/ MarkFails(w)
  \/ Advance
  \/ Crash

Spec == Init /\ [][Next]_vars

\* The timer keeps firing, and after the last failure every post is answered and
\* every update done.
FairSpec == Spec /\ WF_vars(Advance)

-----------------------------------------------------------------------------
\* Properties

\* A webhook is marked only once the merchant has answered it with a 2XX, and
\* only a webhook that exists is posted: no failure, at any step, loses one.
SentMeansAnswered ==
  \A w \in Webhooks :
    /\ row[w] = "sent" => w \in answered
    /\ posts[w] > 0 => row[w] \in {"unsent", "sent"}

Posted(w) == posts'[w] > posts[w]

\* A webhook overtakes an older one that exists and is not marked only if their
\* two transactions overlapped: the older one may then commit after the pass has
\* read its rows.  Nothing else, no failure and no restart, changes the order.
OvertakesOnlyOverlapping ==
  [][\A w \in Webhooks : Posted(w) =>
       \A v \in 1..(w - 1) :
         row[v] \in {"open", "unsent"} => v \in overlap[w]]_vars

\* Once the row says sent the webhook is not posted again.
NoPostAfterMark ==
  [][\A w \in Webhooks : Posted(w) => row[w] # "sent"]_vars

\* The posts of a webhook after its first one.
Repeats == UNION {{w} \X (2..posts[w]) : w \in Webhooks}

\* The merchant is sent a webhook twice only because of a failure, and a failure
\* repeats at most one webhook: the price of marking after the answer.
OneRepeatPerFailure == Cardinality(Repeats) <= failures

\* Every webhook is delivered and marked some day, whatever fails on the way.
EveryWebhookSent ==
  \A w \in Webhooks : row[w] = "unsent" ~> row[w] = "sent"

\* README.md:13: "sequentially, from oldest to newest, and proceed to the next
\* only after receiving a 2XX response": a webhook goes out once every older one
\* that exists has been answered and marked.
ProceedOnlyAfterAnswer ==
  [][\A w \in Webhooks : Posted(w) =>
       \A v \in 1..(w - 1) : row[v] # "unsent"]_vars

-----------------------------------------------------------------------------
\* The inductive invariant

\* Transactions begin in the order of their names, and one that began before
\* another and is still open overlaps it.
BeginInOrder ==
  \A w \in Webhooks : \A v \in 1..(w - 1) :
    /\ row[v] = "unborn" => row[w] = "unborn"
    /\ row[v] = "open" /\ row[w] # "unborn" => v \in overlap[w]

\* The batch holds unsent rows only, and with a row every older one that can
\* still be posted, but for those that overlapped it.
BatchIsComplete ==
  \A w \in batch :
    /\ row[w] = "unsent"
    /\ \A v \in 1..(w - 1) :
         row[v] \in {"open", "unsent"} => v \in batch \/ v \in overlap[w]

\* What the merchant has and will be sent again, because its post or the update
\* of its row failed: not the webhook whose row the pass is about to mark.
Owed ==
  {w \in Webhooks :
     /\ posts[w] > 0
     /\ row[w] = "unsent"
     /\ ~(pc = "update" /\ Current(w))}

\* A failure pays for the repeat it has caused or is going to cause.
RepeatsAreOwed == Cardinality(Repeats) + Cardinality(Owed) <= failures

Consistent ==
  /\ TypeOK
  /\ SentMeansAnswered
  /\ BeginInOrder
  /\ BatchIsComplete
  /\ pc = "update" => \A w \in batch : Current(w) => w \in answered

\* Why the outbox is right.
OutboxInv == Consistent /\ RepeatsAreOwed
=============================================================================

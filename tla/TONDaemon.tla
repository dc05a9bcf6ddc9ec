------------------------------ MODULE TONDaemon ------------------------------
(***************************************************************************)
(* src/gateway/ton/ton.daemon.ts with ton-transaction.iterator.ts: how a   *)
(* daemon finds the transactions of its account it has not handled yet.    *)
(*                                                                         *)
(* The account's transactions are numbered 1..head in the order of the     *)
(* chain.  A pass asks the API for pages of Limit transactions, newest     *)
(* first, until a page holds a transaction it has handled, and then goes   *)
(* back over the same pages to the newest.  A cursor is the number of the  *)
(* transaction a page ends at, exclusively, and 0 is the undefined cursor  *)
(* of the first page: that page is wherever head is when it is fetched.    *)
(* New transactions arrive at any time.                                    *)
(***************************************************************************)
EXTENDS Integers, Sequences

CONSTANTS
  Limit,      \* transactions in a full page
  MaxTx,      \* bound: transactions the account ever gets
  MaxFaults,  \* bound: passes that fail, or die with the backend
  Poison      \* transactions whose handling always throws: a jetton transfer
              \* from a contract without get_wallet_data, the jetton's own
              \* master when it mints

ASSUME LimitAssumption == Limit \in Nat \ {0}
ASSUME BoundAssumption == MaxTx \in Nat /\ MaxFaults \in Nat
ASSUME PoisonAssumption == Poison \subseteq Nat

VARIABLES
  head,       \* the newest transaction of the account
  processed,  \* transactions with a processed_transaction row
  faults,     \* passes that failed
  \* The pass under way, in memory.
  pc,         \* what the pass does next
  cursor,     \* iterator.cursor
  stack,      \* iterator.stack
  canNext,    \* iterator._canNext
  lo, hi,     \* the page in hand is lo..hi, and empty when lo > hi
  at,         \* handlePage goes from hi down to lo: the next one
  \* History of the pass, for the properties.
  seen,       \* head when the first page was fetched
  bottom      \* the oldest transaction of the oldest page fetched

pass == <<cursor, stack, canNext, lo, hi, at, seen, bottom>>
vars == <<head, processed, faults, pc,
          cursor, stack, canNext, lo, hi, at, seen, bottom>>

NoCursor == 0

Pcs == {"idle", "next", "check", "handle", "back"}

TypeOK ==
  /\ head \in 0..MaxTx
  /\ processed \subseteq 1..head
  /\ faults \in 0..MaxFaults
  /\ pc \in Pcs
  /\ cursor \in 0..head
  /\ stack \in Seq(0..head)
  /\ canNext \in BOOLEAN
  /\ lo \in 1..(head + 1) /\ hi \in 0..head /\ at \in 0..head
  /\ seen \in 0..head /\ bottom \in 1..(head + 1)

NoPass ==
  /\ cursor = NoCursor
  /\ stack = <<>>
  /\ canNext = TRUE
  /\ lo = 1 /\ hi = 0 /\ at = 0
  /\ seen = 0 /\ bottom = 1

\* An account may have any history before the daemon first looks at it.
Init ==
  /\ head \in 0..MaxTx
  /\ processed = {}
  /\ faults = 0
  /\ pc = "idle"
  /\ NoPass

-----------------------------------------------------------------------------
\* TonClient.getTransactions

PageTop(c) == IF c = NoCursor THEN head ELSE c - 1

PageEnd(c) == IF PageTop(c) >= Limit THEN PageTop(c) - Limit + 1 ELSE 1

\* The Limit transactions before the cursor, or what there is of them.
FetchPage(c) == hi' = PageTop(c) /\ lo' = PageEnd(c)

PageIsFull(c) == PageTop(c) >= Limit

Arrive ==
  /\ head < MaxTx
  /\ head' = head + 1
  /\ UNCHANGED <<processed, faults, pc, pass>>

-----------------------------------------------------------------------------
\* TONDaemon.process

\* The timer fires: concatMap starts no pass before the last one has ended.
Start ==
  /\ pc = "idle"
  /\ pc' = "next"
  /\ UNCHANGED <<head, processed, faults, pass>>

\* Mutant of NextPage: the cursor is one transaction too old.
NextSkipsOne ==
  /\ pc = "next"
  /\ FetchPage(cursor)
  /\ stack' = Append(stack, cursor)
  /\ \/ /\ PageIsFull(cursor)
        /\ cursor' = IF lo' > 1 THEN lo' - 1 ELSE lo'
        /\ UNCHANGED canNext
     \/ /\ ~PageIsFull(cursor)
        /\ canNext' = FALSE
        /\ UNCHANGED cursor
  /\ seen' = IF stack = <<>> THEN head ELSE seen
  /\ bottom' = lo'
  /\ pc' = "check"
  /\ UNCHANGED <<head, processed, faults, at>>

\* Mutant of NextPage: a short page is not taken for the last one.
NextNeverLast ==
  /\ pc = "next"
  /\ FetchPage(cursor)
  /\ stack' = Append(stack, cursor)
  /\ cursor' = lo'
  /\ seen' = IF stack = <<>> THEN head ELSE seen
  /\ bottom' = lo'
  /\ pc' = "check"
  /\ UNCHANGED <<head, processed, faults, canNext, at>>

\* iterator.next(): a page shorter than the limit is the last one.
NextPage ==
  /\ pc = "next"
  /\ FetchPage(cursor)
  /\ stack' = Append(stack, cursor)
  /\ \/ /\ PageIsFull(cursor)
        /\ cursor' = lo'
        /\ UNCHANGED canNext
     \/ /\ ~PageIsFull(cursor)
        /\ canNext' = FALSE
        /\ UNCHANGED cursor
  /\ seen' = IF stack = <<>> THEN head ELSE seen
  /\ bottom' = lo'
  /\ pc' = "check"
  /\ UNCHANGED <<head, processed, faults, at>>

HasProcessed == lo..hi \cap processed # {}

\* checkPage, and where the loop goes: on to the next page, or, at a page with
\* a handled transaction, to handling that page, or, at the account's first
\* transaction, straight back.
CheckPage ==
  /\ pc = "check"
  /\ \/ HasProcessed /\ pc' = "handle" /\ at' = hi
     \/ ~HasProcessed /\ canNext /\ pc' = "next" /\ UNCHANGED at
     \/ ~HasProcessed /\ ~canNext /\ pc' = "back" /\ UNCHANGED at
  /\ UNCHANGED <<head, processed, faults, cursor, stack, canNext, lo, hi,
                 seen, bottom>>

\* Mutant of Back: the pages are fetched first in, first out.
BackInQueueOrder ==
  /\ pc = "back"
  /\ cursor' = Head(stack)
  /\ stack' = Tail(stack)
  /\ FetchPage(cursor')
  /\ at' = hi'
  /\ pc' = "handle"
  /\ UNCHANGED <<head, processed, faults, canNext, seen, bottom>>

\* Mutant of Back: the page is read from the stack and left there.
BackWithoutPop ==
  /\ pc = "back"
  /\ cursor' = stack[Len(stack)]
  /\ FetchPage(cursor')
  /\ at' = hi'
  /\ pc' = "handle"
  /\ UNCHANGED <<head, processed, faults, stack, canNext, seen, bottom>>

\* iterator.back(): the page is fetched again, the first one at today's head.
Back ==
  /\ pc = "back"
  /\ cursor' = stack[Len(stack)]
  /\ stack' = SubSeq(stack, 1, Len(stack) - 1)
  /\ FetchPage(cursor')
  /\ at' = hi'
  /\ pc' = "handle"
  /\ UNCHANGED <<head, processed, faults, canNext, seen, bottom>>

EndPass ==
  /\ pc' = "idle"
  /\ cursor' = NoCursor
  /\ stack' = <<>>
  /\ canNext' = TRUE
  /\ lo' = 1 /\ hi' = 0 /\ at' = 0
  /\ seen' = 0 /\ bottom' = 1

\* Mutant of HandleTx: at a handled transaction the rest of the page is taken
\* for handled too.
HandleUntilProcessed ==
  /\ pc = "handle"
  /\ at >= lo
  /\ at \in processed \/ at \notin Poison
  /\ processed' = processed \cup {at}
  /\ at' = IF at \in processed THEN lo - 1 ELSE at - 1
  /\ UNCHANGED <<head, faults, pc, cursor, stack, canNext, lo, hi,
                 seen, bottom>>

\* One round of handlePage: a transaction with a row is skipped, another gets
\* its row, from ChargeService.process or from markAsProcessed.
HandleTx ==
  /\ pc = "handle"
  /\ at >= lo
  /\ at \in processed \/ at \notin Poison
  /\ processed' = processed \cup {at}
  /\ at' = at - 1
  /\ UNCHANGED <<head, faults, pc, cursor, stack, canNext, lo, hi,
                 seen, bottom>>

\* handlePage throws; the rest of the page and of the pass is given up.
HandlePoison ==
  /\ pc = "handle"
  /\ at >= lo
  /\ at \in Poison \ processed
  /\ EndPass
  /\ UNCHANGED <<head, processed, faults>>

\* handleBackward goes on while there is a page on the stack.
PageDone ==
  /\ pc = "handle"
  /\ at < lo
  /\ \/ stack # <<>> /\ pc' = "back" /\ UNCHANGED pass
     \/ stack = <<>> /\ EndPass
  /\ UNCHANGED <<head, processed, faults>>

\* An await rejects, in the API or the database, and catchError drops the pass;
\* or the backend dies, and the pass was in its memory.
Abort ==
  /\ pc # "idle"
  /\ faults < MaxFaults
  /\ faults' = faults + 1
  /\ EndPass
  /\ UNCHANGED <<head, processed>>

Advance ==
  Start \/ NextPage \/ CheckPage \/ Back \/ HandleTx \/ HandlePoison \/ PageDone

Next == Arrive \/ Abort \/ Advance

Spec == Init /\ [][Next]_vars

\* The timer keeps firing and every await settles.
FairSpec == Spec /\ WF_vars(Advance)

-----------------------------------------------------------------------------
\* Properties

\* The pass is about to return: its last page, the newest, is handled.
PassEnds == pc = "handle" /\ at < lo /\ stack = <<>>

\* A pass that ends has handled every transaction of the pages it fetched, from
\* the oldest page to the newest transaction, but those that arrivals pushed off
\* the first page between its two fetches.  What lies below the oldest page is
\* not its concern: an earlier pass handled that, or left it there for good.
SkipsOnlyPushedOut ==
  PassEnds => (bottom..hi) \ processed \subseteq
                (seen - Limit + 1)..(hi - Limit)

\* The pages of a pass are handled from the oldest to the newest: while one is,
\* the older ones the pass has fetched are done, again but for what arrivals
\* pushed off the first page.
OlderPagesFirst ==
  pc = "handle" =>
    (bottom..(lo - 1)) \ processed \subseteq
      IF cursor = NoCursor THEN (seen - Limit + 1)..(hi - Limit) ELSE {}

\* A transaction is handled after a newer one only if the two are so close that
\* one page holds both: neither a pass that fails halfway, nor arrivals that shift
\* the pages, nor the page fetched twice lets more than a page go wrong way round.
HandledWithinPage ==
  [][\A t \in processed' \ processed : \A s \in processed : s < t + Limit]_vars

\* A transaction without a row that a newer one with a row stands before: where
\* a pass stops at that newer one, it is never looked at again.
Behind(t) == t \notin processed /\ \E s \in processed : t < s

\* A transaction falls behind in two ways only: while handlePage has the page
\* that holds it in hand and has not come to it, so that it is lost if the pass
\* fails there and the next pass stops before that page; or pushed off the first
\* page between its two fetches.  No failure anywhere else, no page fetched at
\* shifted boundaries and no handled transaction in the midst of others, left by
\* an earlier pass, ever puts one behind.
LeftBehindInHand ==
  [][\A t \in 1..head :
       ~Behind(t) /\ Behind(t)' =>
         \/ t \in lo..(at - 1)
         \/ cursor = NoCursor /\ t \in (seen - Limit + 1)..(hi - Limit)]_vars

\* What a pass has left to do, as three numbers of which the first that differs
\* decides: its first page; then, going forward, the transactions older than the
\* page in hand and the page's check; going back, the pages on the stack and the
\* transactions of the page in hand.
Rest ==
  CASE pc = "next" /\ stack = <<>> -> <<2, 0, 0>>
    [] pc = "next" /\ stack # <<>> -> <<1, lo, 0>>
    [] pc = "check"                -> <<1, IF canNext THEN lo ELSE 0, 1>>
    [] pc = "handle"               -> <<0, Len(stack), at - lo + 2>>
    [] OTHER                       -> <<0, Len(stack), 0>>

Less(x, y) ==
  \/ x[1] < y[1]
  \/ x[1] = y[1] /\ x[2] < y[2]
  \/ x[1] = y[1] /\ x[2] = y[2] /\ x[3] < y[3]

\* A pass cannot go on for ever: each of its steps leaves less to do, also at the
\* last page, at an empty one, and where it turns round, and the transactions
\* that arrive meanwhile give it no more.
PassDescends ==
  [][pc # "idle" /\ pc' # "idle" =>
       /\ Rest' \in Nat \X Nat \X Nat
       /\ IF head' = head THEN Less(Rest', Rest) ELSE Rest' = Rest]_vars

\* Every pass ends, also while transactions keep arriving: the iterator runs
\* out of pages in both directions.
EveryPassEnds == (pc # "idle") ~> (pc = "idle")

\* A transaction whose handling throws stands in the way of t, one of the newest:
\* it is newer, so that it is on the first page too and comes before t, or it is
\* older and passes still reach it before they go back to t.  They no longer do
\* once a transaction is handled that is a page newer than it: then every pass
\* stops at a page above it.
Blocked(t) ==
  \E p \in Poison :
    p <= head /\ (t < p \/ \A s \in processed : s < p + Limit)

OnFirstPage(t) == t <= head => head - t < Limit

\* A transaction that always stays among the newest Limit, and that none whose
\* handling throws blocks for ever, is handled: every pass that ends has dealt
\* with it, and a pass that fails is repeated.
HandledUnlessPushedOutOrBlocked ==
  \A t \in (1..MaxTx) \ Poison :
    []OnFirstPage(t) /\ <>[]~Blocked(t) => (t <= head ~> t \in processed)

\* README.md:13: a webhook "for each payment".  So a transaction that stays among
\* the newest Limit is handled, whatever else the account gets.
HandledUnlessPushedOut ==
  \A t \in (1..MaxTx) \ Poison :
    []OnFirstPage(t) => (t <= head ~> t \in processed)

\* At most one transaction has arrived since the pass fetched its first page.
CalmPass ==
  (pc \in {"check", "back", "handle"} \/ stack # <<>>) => head - seen <= 1

\* README.md:13: a webhook "for each payment".  So each transaction is handled
\* some day, at least on an account where at most one arrives during a pass.
EveryTransactionHandled ==
  []CalmPass => \A t \in (1..MaxTx) \ Poison : t <= head ~> t \in processed

\* No transaction has arrived since the pass fetched its first page.
QuietPass ==
  (pc \in {"check", "back", "handle"} \/ stack # <<>>) => head = seen

\* README.md:13: a webhook "for each payment".  So each transaction is handled
\* some day on an account where none arrives during a pass, also when a pass
\* fails: the next one finds what that one left.
EveryTransactionHandledOnQuietAccount ==
  []QuietPass => \A t \in (1..MaxTx) \ Poison : t <= head ~> t \in processed

-----------------------------------------------------------------------------
\* The inductive invariant

\* The i-th page next() fetched was TopOf(i) down to EndOf(i).
TopOf(i) == IF i = 1 THEN seen ELSE stack[i] - 1
EndOf(i) == IF TopOf(i) >= Limit THEN TopOf(i) - Limit + 1 ELSE 1

\* The pages on the stack are full, adjacent, and start at the head then seen.
StackIsContiguous ==
  /\ Len(stack) >= 1 => stack[1] = NoCursor
  /\ \A i \in 2..Len(stack) :
       TopOf(i - 1) >= Limit /\ stack[i] = TopOf(i - 1) - Limit + 1

\* next(): the page in hand is the last one on the stack.
Forward ==
  /\ pc = "next" => canNext
  /\ pc = "next" /\ stack = <<>> => cursor = NoCursor
  /\ pc = "check" => stack # <<>>
  /\ pc \in {"next", "check"} /\ stack # <<>> =>
       /\ hi = TopOf(Len(stack)) /\ lo = EndOf(Len(stack)) /\ bottom = lo
       /\ canNext => hi >= Limit /\ cursor = lo

\* back(): everything older than the page on the top of the stack is done.
Backward ==
  pc = "back" =>
    /\ stack # <<>>
    /\ bottom..(EndOf(Len(stack)) - 1) \subseteq processed

\* handlePage of the page with a handled transaction, still on the stack.
HandlesFoundPage ==
  stack # <<>> /\ lo = bottom /\ lo = EndOf(Len(stack))

\* handlePage of a page popped from the stack, but not the first one.
HandlesOlderPage ==
  /\ stack # <<>>
  /\ hi + 1 = EndOf(Len(stack))
  /\ bottom..(lo - 1) \subseteq processed
  /\ (at + 1)..hi \subseteq processed

\* handlePage of the first page, fetched again.
HandlesNewestPage ==
  /\ stack = <<>> /\ cursor = NoCursor
  /\ seen <= hi
  /\ lo = IF hi >= Limit THEN hi - Limit + 1 ELSE 1
  /\ bottom..(seen - Limit) \subseteq processed
  /\ (at + 1)..hi \subseteq processed

\* Why a pass skips nothing but what was pushed out.
PassInv ==
  /\ TypeOK
  /\ pc = "idle" => NoPass
  /\ StackIsContiguous
  /\ Forward
  /\ Backward
  /\ pc = "handle" =>
       /\ lo <= at + 1 /\ at <= hi
       /\ HandlesFoundPage \/ HandlesOlderPage \/ HandlesNewestPage

\* A pass starts to handle at the account's first transaction, or at a page that
\* holds a handled one: why nothing below that page is put behind by it.
StartsAtHandled ==
  /\ pc = "check" => canNext \/ lo = 1
  /\ pc \in {"back", "handle"} =>
       bottom = 1 \/ \E r \in processed : bottom <= r

\* The pages newer than the one in hand hold nothing handled, and no page is
\* longer than Limit: why a pass turns the order round within a page only.
NewerUntouched ==
  /\ pc = "next" /\ stack # <<>> => processed \subseteq 1..(lo - 1)
  /\ pc \in {"check", "handle"} => processed \subseteq 1..hi /\ hi < lo + Limit
  /\ pc = "handle" /\ stack # <<>> => hi <= TopOf(Len(stack))
  /\ pc = "back" => processed \subseteq 1..TopOf(Len(stack))
=============================================================================

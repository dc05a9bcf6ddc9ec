------------------------------- MODULE Backend -------------------------------
(***************************************************************************)
(* The backend as a process and as an HTTP service: main.ts, which every   *)
(* start runs, with the schema it finds or drops (database.config.ts), and *)
(* charge/create and charge/list, behind the key check of app.middleware   *)
(* and the schemas of the validation pipe.  The other requests only read.  *)
(*                                                                         *)
(* A charge is created by one INSERT, which commits by itself: it draws    *)
(* the memo from a sequence, and is visible some time later.  id and       *)
(* createdAt are not kept: they order charges as memo does here, while     *)
(* charges become visible in any order.                                    *)
(***************************************************************************)
EXTENDS Integers, FiniteSets

CONSTANTS
  Clients,      \* connections that send requests
  Payloads,     \* what they have to say
  LongPayloads, \* those of more than 255 characters
  Limit,        \* charges on a full page
  MaxRequests,  \* bound: requests for a charge
  MaxFailures,  \* bound: requests whose statement fails
  MaxDeaths     \* bound: deaths of the process

Boot == "boot"

ASSUME NamesAssumption ==
  Boot \notin Clients /\ IsFiniteSet(Clients) /\ LongPayloads \subseteq Payloads
ASSUME LimitAssumption == Limit \in 1..150
ASSUME BoundAssumption == {MaxRequests, MaxFailures, MaxDeaths} \subseteq Nat

VARIABLES
  \* The process.
  env,        \* NODE_ENV
  phase,      \* of main.ts
  seeds,      \* how many of its charges main.ts has created since the start
  calls,      \* [Callers -> the ChargeService.create under way, or NoCall]
  \* The database.
  charges,    \* visible rows of the charge table
  nextMemo,   \* its sequence
  orphans,    \* inserts of a dead process that are neither done nor undone
  \* Counters, and what the clients know.
  asked, failures, deaths,
  told,       \* charges a client has got in a reply
  \* A client that reads the list page by page; page 0: it does not.
  page, newestFirst, byTotal, items, total, got, there

process == <<env, phase, seeds, calls>>
database == <<charges, nextMemo, orphans>>
history == <<asked, failures, deaths, told>>
reader == <<page, newestFirst, byTotal, items, total, got, there>>
vars == <<process, database, history, reader>>

Callers == Clients \cup {Boot}
SeedPayloads == <<"123", "122", "121">>
AllPayloads == Payloads \cup {"123", "122", "121"}
NoCall == [memo |-> 0, payload |-> "none", done |-> FALSE]

Charge(memo, payload, by) == [memo |-> memo, payload |-> payload, by |-> by]

\* For the items of a page that has not been read.
Unread == {Charge(0, "none", Boot)}

\* The row of a call under way.
RowOf(c) == Charge(calls[c].memo, calls[c].payload, c)

\* Callers whose INSERT Postgres is at.
Running == {c \in Callers : calls[c] # NoCall /\ ~calls[c].done}

Memos == 1..(nextMemo - 1)
Rows == [memo : Memos, payload : AllPayloads, by : Callers]

TypeOK ==
  /\ env \in {"production", "development"}
  /\ phase \in {"down", "booting", "listening"}
  /\ seeds \in 0..3
  /\ nextMemo \in Nat \ {0}
  /\ calls \in [Callers -> {NoCall} \cup
                  [memo : Memos, payload : AllPayloads, done : BOOLEAN]]
  /\ charges \subseteq Rows /\ orphans \subseteq Rows
  /\ IsFiniteSet(charges) /\ IsFiniteSet(orphans)
  /\ asked \in 0..MaxRequests
  /\ failures \in 0..MaxFailures /\ deaths \in 0..MaxDeaths
  /\ page \in Nat /\ newestFirst \in BOOLEAN /\ byTotal \in BOOLEAN
  /\ items \in {Unread} \cup SUBSET charges
  /\ total \in Nat \cup {-1}
  /\ got \subseteq charges /\ there \subseteq charges

NotReading ==
  /\ page = 0 /\ newestFirst = FALSE /\ byTotal = FALSE
  /\ items = Unread /\ total = -1 /\ got = {} /\ there = {}

StopReading ==
  /\ page' = 0 /\ newestFirst' = FALSE /\ byTotal' = FALSE
  /\ items' = Unread /\ total' = -1 /\ got' = {} /\ there' = {}

Init ==
  /\ env \in {"production", "development"}
  /\ phase = "down"
  /\ seeds = 0
  /\ calls = [c \in Callers |-> NoCall]
  /\ charges = {} /\ nextMemo = 1 /\ orphans = {}
  /\ asked = 0 /\ failures = 0 /\ deaths = 0 /\ told = {}
  /\ NotReading

-----------------------------------------------------------------------------
\* Starting

\* Mutants of DropsSchema: the branches of database.config.ts got mixed up.
DropsAlways == TRUE
DropsNever == FALSE

\* dropSchema, and synchronize instead of migrations.
DropsSchema == env = "development"

\* TypeORM connects.  DROP TABLE waits for the inserts of a dead process; the
\* migrations of a production database are only run once.
Start ==
  /\ phase = "down"
  /\ phase' = "booting"
  /\ seeds' = 0
  /\ \/ DropsSchema /\ orphans = {} /\ charges' = {} /\ nextMemo' = 1
     \/ ~DropsSchema /\ UNCHANGED <<charges, nextMemo>>
  /\ UNCHANGED <<env, calls, orphans, history, reader>>

\* The INSERT of create() runs, and has drawn its memo.
Draw(c, payload) ==
  /\ calls' = [calls EXCEPT ![c] =
                 [memo |-> nextMemo, payload |-> payload, done |-> FALSE]]
  /\ nextMemo' = nextMemo + 1

\* Nothing of the process is left but the inserts that Postgres is at.
ProcessEnds ==
  /\ phase' = "down"
  /\ seeds' = 0
  /\ orphans' = orphans \cup {RowOf(c) : c \in Running}
  /\ calls' = [c \in Callers |-> NoCall]
  /\ StopReading

\* Mutant of Seed: the index on payload is unique, so that bootstrap() rejects
\* when the last start has got this far.
SeedUnique ==
  /\ phase = "booting" /\ seeds < 3
  /\ calls[Boot] = NoCall
  /\ IF \E ch \in charges : ch.payload = SeedPayloads[seeds + 1]
       THEN ProcessEnds /\ UNCHANGED nextMemo
       ELSE Draw(Boot, SeedPayloads[seeds + 1]) /\ UNCHANGED <<phase, seeds, orphans, reader>>
  /\ UNCHANGED <<env, charges, history>>

\* One of the three awaits of main.ts after the other.
Seed ==
  /\ phase = "booting" /\ seeds < 3
  /\ calls[Boot] = NoCall
  /\ Draw(Boot, SeedPayloads[seeds + 1])
  /\ UNCHANGED <<env, phase, seeds, charges, orphans, history, reader>>

\* app.listen: from now on the daemons, the outbox and the API work.
Listen ==
  /\ phase = "booting" /\ seeds = 3
  /\ phase' = "listening"
  /\ UNCHANGED <<env, seeds, calls, database, history, reader>>

-----------------------------------------------------------------------------
\* charge/create

\* AppMiddleware lets a request through that has the secret, ValidationPipe one
\* whose body has a payload, a string or null.
Admitted(token, payload) == token = "apiSecret" /\ payload \in Payloads

\* A request that is not let through changes nothing.
Request(c) ==
  /\ phase = "listening"
  /\ asked < MaxRequests
  /\ calls[c] = NoCall
  /\ asked' = asked + 1
  /\ \E token \in {"apiSecret", "other"}, payload \in Payloads \cup {"no payload"} :
       /\ Admitted(token, payload)
       /\ Draw(c, payload)
  /\ UNCHANGED <<env, phase, seeds, charges, orphans, failures, deaths, told, reader>>

Fits(payload) == payload \notin LongPayloads

\* The row becomes visible.
Insert(c) ==
  /\ c \in Running
  /\ Fits(calls[c].payload)
  /\ charges' = charges \cup {RowOf(c)}
  /\ calls' = [calls EXCEPT ![c].done = TRUE]
  /\ UNCHANGED <<env, phase, seeds, nextMemo, orphans, history, reader>>

\* create() returns: the client has its answer, or main.ts goes on.
Return(c) ==
  /\ calls[c].done
  /\ calls' = [calls EXCEPT ![c] = NoCall]
  /\ \/ c = Boot /\ seeds' = seeds + 1 /\ UNCHANGED told
     \/ c # Boot /\ told' = told \cup {RowOf(c)} /\ UNCHANGED seeds
  /\ UNCHANGED <<env, phase, database, asked, failures, deaths, reader>>

\* The column takes 255 characters, the schema of the request any number.
TooLong(c) ==
  /\ calls[c] # NoCall
  /\ ~Fits(calls[c].payload)
  /\ calls' = [calls EXCEPT ![c] = NoCall]
  /\ UNCHANGED <<env, phase, seeds, database, history, reader>>

\* The INSERT throws, done or not, or still to be done by Postgres: the client
\* gets status 500.
RequestFails(c) ==
  /\ calls[c] # NoCall
  /\ failures < MaxFailures
  /\ failures' = failures + 1
  /\ calls' = [calls EXCEPT ![c] = NoCall]
  /\ orphans' \in {orphans, orphans \cup {RowOf(b) : b \in {c} \cap Running}}
  /\ UNCHANGED <<env, phase, seeds, charges, nextMemo, asked, deaths, told, reader>>

\* The process is killed, or bootstrap() rejects and nobody catches it.
Die ==
  /\ phase # "down"
  /\ deaths < MaxDeaths
  /\ deaths' = deaths + 1
  /\ ProcessEnds
  /\ UNCHANGED <<env, charges, nextMemo, asked, failures, told>>

\* Postgres ends a statement whose client is gone, one way or the other.
OrphanEnds ==
  /\ \E o \in orphans :
       /\ orphans' = orphans \ {o}
       /\ \/ Fits(o.payload) /\ charges' = charges \cup {o}
          \/ UNCHANGED charges
  /\ UNCHANGED <<process, nextMemo, history, reader>>

-----------------------------------------------------------------------------
\* charge/list, again and again with the next page

\* Where a charge stands among those of S.
Rank(S, descending, ch) ==
  Cardinality({d \in S : IF descending THEN d.memo >= ch.memo ELSE d.memo <= ch.memo})

\* Those of S that stand at first to last.
Slice(S, descending, first, last) ==
  {ch \in S : Rank(S, descending, ch) \in first..last}

\* Mutant of PageOf: pages are counted from 0.
PageFromZero(p) == Slice(charges, newestFirst, Limit * p + 1, Limit * (p + 1))

\* order by createdAt, ascending unless the request says otherwise, skip
\* Limit * (p - 1), take Limit.
PageOf(p) == Slice(charges, newestFirst, Limit * (p - 1) + 1, Limit * p)

OpenList ==
  /\ phase = "listening" /\ page = 0
  /\ page' = 1
  /\ newestFirst' \in BOOLEAN /\ byTotal' \in BOOLEAN
  /\ there' = charges
  /\ UNCHANGED <<process, database, history, items, total, got>>

\* paginate() runs the query of the items and that of the count side by side.
ReadItems ==
  /\ page > 0 /\ items = Unread
  /\ items' = PageOf(page)
  /\ UNCHANGED <<process, database, history, page, newestFirst, byTotal, total,
                 got, there>>

ReadTotal ==
  /\ page > 0 /\ total = -1
  /\ total' = Cardinality(charges)
  /\ UNCHANGED <<process, database, history, page, newestFirst, byTotal, items,
                 got, there>>

Answered == page > 0 /\ items # Unread /\ total # -1

\* meta.totalPages is total / Limit, rounded up.
LastPage ==
  IF byTotal THEN page * Limit >= total ELSE Cardinality(items) < Limit

TurnPage ==
  /\ Answered /\ ~LastPage
  /\ got' = got \cup items
  /\ page' = page + 1
  /\ items' = Unread /\ total' = -1
  /\ UNCHANGED <<process, database, history, newestFirst, byTotal, there>>

CloseList ==
  /\ Answered /\ LastPage
  /\ StopReading
  /\ UNCHANGED <<process, database, history>>

-----------------------------------------------------------------------------
List == OpenList \/ ReadItems \/ ReadTotal \/ TurnPage \/ CloseList

\* What a start consists of.
Bring == Start \/ Seed \/ Insert(Boot) \/ Return(Boot) \/ Listen \/ OrphanEnds

Next ==
  \/ Bring
  \/ \E c \in Clients : Request(c) \/ Insert(c) \/ Return(c) \/ TooLong(c)
                          \/ RequestFails(c)
  \/ Die
  \/ List

Spec == Init /\ [][Next]_vars

\* Docker starts the process whenever it is down; every await settles.
FairSpec == Spec /\ WF_vars(Bring)

-----------------------------------------------------------------------------
\* The invariant

\* All rows that are visible or may still become so.
Drawn == charges \cup orphans \cup {RowOf(c) : c \in Running}

MemosApart == \A ch, d \in Drawn : ch.memo = d.memo => ch = d

\* A call knows a row that is visible or one nobody else can write.
CallsInStep ==
  /\ phase = "down" => NotReading /\ \A c \in Callers : calls[c] = NoCall
  /\ \A c \in Callers : calls[c].done => RowOf(c) \in charges
  /\ \A c \in Running : RowOf(c) \notin charges \cup orphans

ByBoot(S) == {ch \in S : ch.by = Boot}

\* How far main.ts is, and what earlier starts have left.
SeedsDrawn ==
  seeds + (IF calls[Boot] = NoCall THEN 0 ELSE 1)
        + (IF env = "production" THEN 3 * deaths ELSE IF phase = "down" THEN 3 ELSE 0)

SeedsInStep ==
  /\ Cardinality(ByBoot(Drawn)) <= SeedsDrawn
  /\ Cardinality(ByBoot(charges)) >= seeds + (IF calls[Boot].done THEN 1 ELSE 0)
  /\ seeds = 3 => calls[Boot] = NoCall
  /\ phase = "down" => seeds = 0
  /\ phase = "listening" => seeds = 3

\* What the reader has not got yet stands on later pages, and the page it has
\* is full unless there is none.
ListInStep ==
  /\ page = 0 => NotReading
  /\ page > 0 => \A ch \in there \ got :
                    Rank(charges, newestFirst, ch) > Limit * (page - 1)
  /\ items # Unread => \A ch \in there \ (got \cup items) :
       Rank(charges, newestFirst, ch) > Limit * page /\ Cardinality(items) = Limit
  /\ total # -1 => total >= Cardinality(there)

\* Inductive: what the properties below rest on.
BackendInv ==
  /\ TypeOK /\ MemosApart /\ CallsInStep /\ SeedsInStep /\ ListInStep
  /\ env = "production" => told \subseteq charges

-----------------------------------------------------------------------------
\* Properties

\* In production a memo once given to a client names the same charge for ever:
\* neither restarts, nor statements of a dead process that finish late, nor the
\* charges each start adds, let a payment with that memo go to another charge.
MemoIsKept ==
  env = "production" =>
    /\ told \subseteq charges
    /\ \A ch, d \in charges : ch.memo = d.memo => ch = d

\* Each start adds three charges nobody asked for, also after a crash in the
\* middle of them: in production they pile up, three a start at most; a
\* development database, which is dropped, has exactly those of the last start.
SeedsPileUp ==
  /\ Cardinality(ByBoot(charges)) <= 3 * (IF env = "production" THEN deaths + 1 ELSE 1)
  /\ phase = "listening" => Cardinality(ByBoot(charges)) >= 3

\* A client that turns the pages until one is not full misses no charge that was
\* there when it began, in either order, though charges become visible anywhere
\* in the list meanwhile.  One that goes by totalPages misses no more than became
\* visible since: the count may be older than the items.
ListMissesNothing ==
  Answered /\ LastPage =>
    IF byTotal
      THEN Cardinality(there \ (got \cup items)) <= Cardinality(charges \ there)
      ELSE there \subseteq got \cup items

\* The process is brought up again whatever fails, however many calls of the
\* start have been made before.
AlwaysListensAgain == []<>(phase = "listening")
=============================================================================

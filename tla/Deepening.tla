------------------------------ MODULE Deepening ------------------------------
(***************************************************************************)
(* Paid news searches of an intelligence slot: services/intel_deepen.py    *)
(* decides which instruments and themes are worth a paid look and calls    *)
(* three providers through services/paid_search.py and exa_search.py;      *)
(* services/paid_usage.py reserves every call against the caps of the run  *)
(* and of the month before it is sent, and keeps the ledger.               *)
(*                                                                         *)
(* Three kinds of threads meet at the meter: the slot task, which collects *)
(* news meanwhile, one coordinator, which searches and plans a wave, and   *)
(* the pool, which extracts articles.  What one thread does under the lock *)
(* of the meter is one step.  What the articles say is left out.           *)
(*                                                                         *)
(* This is one worker, with one run of the slot after another; SlotRuns    *)
(* puts two of them beside each other.                                     *)
(***************************************************************************)
EXTENDS Integers, Sequences

LOCAL INSTANCE SequencesExt
LOCAL INSTANCE FiniteSetsExt

CONSTANTS
    Threads,        \* the pool: INTEL_PAID_WORKERS of them
    MoverUnits,     \* the units of the first wave, in order, and of the second
    OtherUnits,
    Themes,         \* the units that are no instrument: never searched
    Links,          \* how many direct links each unit has
    Titles,         \* how many headlines of each unit may be searched
    Configured,     \* the providers with a key
    RunCap, MonthLimit,
    Before,         \* what earlier runs of the month have spent
    DualTop,        \* ab_dual_top: the movers that go to both providers
    SearchCap,
    Bundle,         \* the links that one Tavily credit pays (5)
    BatchUrls,      \* tavily_batch_max_urls
    SearchPrice, ExaPrice, ExaCosts,
    Over,           \* bound: what Tavily reports above an estimate
    Allowed         \* bound: how often the slot is triggered, and how often a
                    \* call fails or the worker dies

Searchers == {"tavily", "parallel"}
Providers == Searchers \cup {"exa"}
Amounts == [Providers -> Nat]
Units == {MoverUnits[i] : i \in DOMAIN MoverUnits} \cup {OtherUnits[i] : i \in DOMAIN OtherUnits}

ASSUME DeepeningAssumption ==
    /\ Configured \subseteq Providers /\ RunCap \in Amounts /\ MonthLimit \in Amounts
    /\ Before \in Amounts /\ \A p \in Providers : Before[p] <= MonthLimit[p]
    /\ Links \in [Units -> Nat] /\ Titles \in [Units -> Nat]
    /\ Bundle \in Nat \ {0} /\ BatchUrls \in Nat \ {0} /\ SearchPrice \in [Searchers -> Nat]
    /\ ExaPrice \in Nat /\ ExaCosts \subseteq Nat /\ Over \in Nat
    /\ DualTop \in Nat /\ SearchCap \in Nat /\ Allowed \subseteq Nat \X Nat

VARIABLES
    status,     \* of the intel_slot_runs row
    slotTask,   \* how far the slot task is, and whether the movers went out
    queue,      \* what the coordinator has still to do, its current work first
    coord,      \* the coordinator's search or Exa query
    groups,     \* the links found so far in this wave, by provider
    jobs,       \* the batches that wait for a thread
    thread,     \* the batches of each thread, and its call
    meter,      \* PaidUsage
    spent,      \* what paid_api_usage shows for this slot
    unseen,     \* of that, what carries a later clock than that of this task:
                \* rows of another run (SlotRuns)
    billed,     \* history: what the providers have charged
    over,       \* history: what was reported above the estimates
    lost,       \* history: charges that the code cannot record
    searches,   \* DeepenRun.searches
    triggers,   \* how often the slot may still be triggered
    troubles    \* how much may still go wrong

deepenVars == <<status, slotTask, queue, coord, groups, jobs, thread, meter, spent, unseen, billed,
                over, lost, searches, triggers, troubles>>
\* What all runs of a slot share.
shared == <<status, spent, billed, over, lost, triggers, troubles>>

None3 == [p \in Providers |-> 0]
NoCall == [prov |-> "none", amount |-> 0]
IdleCoord == [at |-> "idle", todo |-> <<>>, titles |-> 0, wanted |-> "none", retried |-> FALSE,
              left |-> 0, call |-> NoCall]
IdleThread == [at |-> "idle", stack |-> <<>>, prov |-> "none", call |-> NoCall]
NoGroups == [p \in Searchers |-> <<>>]

-----------------------------------------------------------------------------
(* PaidUsage: each operator is a section under its lock.                   *)

EmptyMeter == [run |-> None3, month |-> Before, reserved |-> None3, disabled |-> {}]

\* Mutant: a run that starts does not read what the slot has spent.
ForgetfulMeter == EmptyMeter

\* The rows of the ledger, as the meter of a new run reads them.  The month's
\* are those with a clock no later than that of the task.
LoadedMeter == [EmptyMeter EXCEPT !.run = spent,
                                  !.month = [p \in Providers |-> Before[p] + spent[p] - unseen[p]]]

Available == {p \in Configured \ meter.disabled :
                /\ meter.month[p] + meter.reserved[p] < MonthLimit[p]
                /\ meter.run[p] + meter.reserved[p] < RunCap[p]}

\* Mutant: what other threads have reserved is not counted.
GrantsUnreserved(p, amount) ==
    /\ meter.month[p] + amount <= MonthLimit[p]
    /\ p \in Configured \ meter.disabled
    /\ meter.run[p] + amount <= RunCap[p]

Grants(p, amount) ==
    /\ meter.month[p] + meter.reserved[p] + amount <= MonthLimit[p]
    /\ p \in Configured \ meter.disabled
    /\ meter.run[p] + meter.reserved[p] + amount <= RunCap[p]

Reserve(p, amount) == meter' = [meter EXCEPT !.reserved[p] = @ + amount]

Least(a, b) == IF a < b THEN a ELSE b
Most(a, b) == IF a < b THEN b ELSE a

\* extract_size: how many of the links the budget of the provider still pays.
Affordable(p, count) ==
    LET left == Least(RunCap[p] - meter.run[p] - meter.reserved[p],
                      MonthLimit[p] - meter.month[p] - meter.reserved[p])
    IN Most(0, Least(count, IF p = "tavily" THEN left * Bundle ELSE left))

Disabled(m, p) == [m EXCEPT !.disabled = @ \cup {p}]

-----------------------------------------------------------------------------
(* Calls: how they end, and what is written down.                          *)

Estimate(p, links) == IF p = "tavily" THEN (links + Bundle - 1) \div Bundle ELSE links

Answer(kind, charge, row) == [kind |-> kind, charge |-> charge, row |-> row]

\* charge: what the provider charges; row: what the code takes it to be.  An
\* unsent call is one whose connection broke, perhaps after it was received.
Answers(p, amount) ==
    (CASE p = "tavily" -> {Answer("success", r, Most(r, amount)) : r \in {0, amount, amount + Over}}
       [] p = "parallel" -> {Answer("success", amount, amount)}
       [] OTHER -> {Answer(kind, c, c) : kind \in {"success", "error"}, c \in ExaCosts})
    \cup {Answer(kind, 0, 0) : kind \in {"refused", "quota", "error"}}
    \cup {Answer("unsent", c, 0) : c \in {0, amount}}
    \cup {Answer("timeout", c, IF p = "exa" THEN 0 ELSE amount) : c \in {0, amount}}
    \cup {Answer("uncommitted", amount, 0)}

\* The answers that have a row, and those that disable the provider.
Counted == {"success", "quota", "error", "timeout"}
Disabling == {"refused", "quota"}

\* Mutant: a call that timed out is taken for one that was not sent.
CountsAnswered(kind) == kind \in Counted \ {"timeout"}

Counts(kind) == kind \in Counted

\* complete or release, and disable.  (For a thread, disable comes later.)
Released(call) == [meter EXCEPT !.reserved[call.prov] = @ - call.amount]
Settled(call, a) ==
    IF Counts(a.kind)
    THEN [Released(call) EXCEPT !.run[call.prov] = @ + a.row, !.month[call.prov] = @ + a.row]
    ELSE Released(call)

\* A charge is beyond the code when the connection broke, the row did not
\* commit, or Exa, which names its price in the answer, never answered.
Unrecordable(call, a) == a.kind \in {"unsent", "uncommitted"} \/ call.prov = "exa"

Ends(call, a) ==
    LET p == call.prov
        row == IF Counts(a.kind) THEN a.row ELSE 0
    IN /\ spent' = [spent EXCEPT ![p] = @ + row]
       /\ billed' = [billed EXCEPT ![p] = @ + a.charge]
       /\ over' = [over EXCEPT ![p] = @ + Most(0, row - call.amount)]
       /\ lost' = [lost EXCEPT ![p] =
                      @ + IF Unrecordable(call, a) THEN Most(0, a.charge - row) ELSE 0]
       /\ IF a.kind = "success" THEN UNCHANGED troubles
                                ELSE troubles > 0 /\ troubles' = troubles - 1
       /\ UNCHANGED <<status, triggers>>

Other(p) == IF p = "tavily" THEN "parallel" ELSE "tavily"

\* _provider, and the fallback of assign_providers: "none" if there is none.
Provider(wanted) ==
    IF wanted \in Available THEN wanted
    ELSE IF Other(wanted) \in Available THEN Other(wanted) ELSE "none"

-----------------------------------------------------------------------------
(* The slot task.                                                          *)

TaskAt(to) == slotTask' = [slotTask EXCEPT !.main = to]
Alone == UNCHANGED <<queue, coord, groups, jobs, thread, searches>>

\* The task reads the clock before it looks at the row.
Trigger ==
    /\ slotTask.main = "idle" /\ triggers > 0
    /\ TaskAt("triggered")
    /\ triggers' = triggers - 1
    /\ Alone /\ UNCHANGED <<status, meter, spent, billed, over, lost, troubles>>

\* A row that was inserted blocks every other trigger until its status is
\* committed; one that was there is read without a lock.
Check ==
    /\ slotTask.main = "triggered"
    /\ CASE status = "none" ->
              \/ status' = "failed" /\ TaskAt("idle")      \* too late
              \/ status' = "running" /\ TaskAt("starting")
         [] status = "failed" -> TaskAt("checked") /\ UNCHANGED status
         [] OTHER -> TaskAt("idle") /\ UNCHANGED status
    /\ Alone /\ UNCHANGED <<meter, spent, billed, over, lost, triggers, troubles>>

\* Whatever the row says by now.  A trigger that is too late writes the status
\* it has read, which leaves the column alone.
Begin ==
    /\ slotTask.main = "checked"
    /\ \/ TaskAt("idle") /\ UNCHANGED status
       \/ TaskAt("starting") /\ status' = "running"
    /\ Alone /\ UNCHANGED <<meter, spent, billed, over, lost, triggers, troubles>>

\* DeepenRun: nothing of an earlier run is left in memory.
Load ==
    /\ slotTask.main = "starting"
    /\ slotTask' = [main |-> "collecting", movers |-> FALSE]
    /\ meter' = LoadedMeter
    /\ searches' = 0
    /\ UNCHANGED <<queue, coord, groups, jobs, thread, shared>>

MoversWave == IF slotTask.movers \/ MoverUnits = <<>> THEN <<>> ELSE <<"movers">>

\* collected, of the last mover: the first wave starts while others collect.
MoversCollected ==
    /\ slotTask.main = "collecting" /\ MoversWave # <<>>
    /\ queue' = queue \o MoversWave
    /\ slotTask' = [slotTask EXCEPT !.movers = TRUE]
    /\ UNCHANGED <<coord, groups, jobs, thread, meter, searches, shared>>

\* finish; an error in it may come before anything was submitted.
Finish ==
    /\ slotTask.main = "collecting"
    /\ \E more \in {<<>>, MoversWave, MoversWave \o <<"exa", "others">>} : queue' = queue \o more
    /\ slotTask' = [main |-> "closing", movers |-> TRUE]
    /\ UNCHANGED <<coord, groups, jobs, thread, meter, searches, shared>>

CollectionFails ==
    /\ slotTask.main \in {"starting", "collecting"}
    /\ TaskAt("failing")
    /\ UNCHANGED <<queue, coord, groups, jobs, thread, meter, searches, shared>>

AllQuiet == queue = <<>> /\ jobs = <<>> /\ \A t \in Threads : thread[t].at = "idle"

\* close waits for the coordinator and the pool, also when the run has failed.
Close ==
    /\ slotTask.main \in {"closing", "failing"}
    /\ AllQuiet
    /\ TaskAt("idle")
    /\ status' = IF slotTask.main = "closing" THEN "ok" ELSE "failed"
    /\ Alone /\ UNCHANGED <<meter, spent, billed, over, lost, triggers, troubles>>

\* The row stays as it is; if it is at running, a message that is delivered
\* again finds that the slot has already run.  Calls under way may have been
\* charged.
Dies ==
    /\ slotTask.main # "idle"
    /\ troubles > 0
    /\ troubles' = troubles - 1
    /\ TaskAt("idle")
    /\ queue' = <<>> /\ coord' = IdleCoord /\ groups' = NoGroups /\ jobs' = <<>>
    /\ thread' = [t \in Threads |-> IdleThread]
    /\ \E ps \in SUBSET Providers :
        LET charged(f) == [p \in Providers |-> IF p \in ps THEN f[p] + meter.reserved[p] ELSE f[p]]
        IN billed' = charged(billed) /\ lost' = charged(lost)
    /\ meter' = [meter EXCEPT !.reserved = None3]
    /\ UNCHANGED <<status, searches, spent, over, triggers>>

-----------------------------------------------------------------------------
(* The coordinator: waves and Exa queries, one after the other.            *)

\* assign_providers, of the i-th unit of a wave: the first movers go to both
\* providers, the others alternate, and each falls back on the other.
Assigned(wave, i) ==
    LET dual == IF wave = "movers" THEN DualTop ELSE 0
        first == Provider("tavily")
        both == IF first = "tavily" /\ "parallel" \in Available
                THEN <<"tavily", "parallel">> ELSE <<first>>
    IN IF i <= dual THEN both
       ELSE <<Provider(IF (i - dual) % 2 = 1 THEN "tavily" ELSE "parallel")>>

\* The units and providers of a wave, in order; a unit that nobody serves is out.
Plan(wave) ==
    LET us == IF wave = "movers" THEN MoverUnits ELSE OtherUnits
        part(i) == [j \in DOMAIN Assigned(wave, i) |->
                       [unit |-> us[i], prov |-> Assigned(wave, i)[j]]]
    IN SelectSeq(FlattenSeq([i \in DOMAIN us |-> part(i)]), LAMBDA w : w.prov # "none")

\* What the coordinator does next in its wave.
Facing(todo) ==
    IF todo = <<>> THEN [IdleCoord EXCEPT !.at = "wave"]
    ELSE [IdleCoord EXCEPT !.at = "wave", !.todo = todo, !.titles = Titles[todo[1].unit],
                           !.wanted = todo[1].prov]

StartWave ==
    /\ coord.at = "idle" /\ queue # <<>> /\ queue[1] # "exa"
    /\ coord' = Facing(Plan(queue[1]))
    /\ UNCHANGED <<slotTask, queue, groups, jobs, thread, meter, searches, shared>>

TheUnit == coord.todo[1].unit
Working == coord.at = "wave" /\ coord.todo # <<>>
Searching == Working /\ Links[TheUnit] = 0 /\ TheUnit \notin Themes
Grouped(p, links) == groups' = [groups EXCEPT ![p] = Append(@, links)]

\* Direct links are grouped; a theme without links is passed over.
TakeLinks ==
    /\ Working /\ ~Searching
    /\ IF Links[TheUnit] = 0 THEN UNCHANGED groups
       ELSE Grouped(coord.todo[1].prov, [i \in 1..Links[TheUnit] |-> TheUnit])
    /\ coord' = Facing(Tail(coord.todo))
    /\ UNCHANGED <<slotTask, queue, jobs, thread, meter, searches, shared>>

GivesUp == coord' = Facing(Tail(coord.todo))

\* Mutant: the title is not taken off the list.
NextTitleAgain(p) == coord' = [coord EXCEPT !.at = "wave", !.call = NoCall, !.wanted = p,
                                            !.retried = FALSE]

NextTitle(p) == coord' = [coord EXCEPT !.at = "wave", !.call = NoCall, !.wanted = p,
                                       !.titles = @ - 1, !.retried = FALSE]

SearchEnds ==
    /\ Searching
    /\ coord.titles = 0 \/ searches >= SearchCap
    /\ GivesUp
    /\ UNCHANGED <<slotTask, queue, groups, jobs, thread, meter, searches, shared>>

\* Nobody to ask, or the budget does not pay the search: the title is given up.
SearchIsDenied ==
    LET p == Provider(coord.wanted)
    IN /\ Searching /\ coord.titles > 0 /\ searches < SearchCap
       /\ IF p = "none" THEN NextTitle(coord.wanted)
          ELSE ~Grants(p, SearchPrice[p]) /\ NextTitle(p)
       /\ UNCHANGED <<slotTask, queue, groups, jobs, thread, meter, searches, shared>>

Search ==
    LET p == Provider(coord.wanted)
    IN /\ Searching /\ coord.titles > 0 /\ searches < SearchCap
       /\ p # "none" /\ Grants(p, SearchPrice[p])
       /\ Reserve(p, SearchPrice[p])
       /\ coord' = [coord EXCEPT !.at = "asked", !.wanted = p,
                                 !.call = [prov |-> p, amount |-> SearchPrice[p]]]
       /\ UNCHANGED <<slotTask, queue, groups, jobs, thread, searches, shared>>

\* One other provider is asked after a refusal.  A row that cannot be written
\* raises: the wave is over, and what it had grouped is gone.
SearchAnswered ==
    LET p == coord.call.prov
    IN /\ coord.at = "asked"
       /\ \E a \in Answers(p, coord.call.amount) :
           /\ Ends(coord.call, a)
           /\ meter' = IF a.kind \in Disabling THEN Disabled(Settled(coord.call, a), p)
                                               ELSE Settled(coord.call, a)
           /\ searches' = IF a.kind \in {"unsent", "uncommitted"} THEN searches ELSE searches + 1
           /\ CASE a.kind = "success" ->
                     /\ \/ Grouped(p, <<TheUnit>>) /\ GivesUp
                        \/ UNCHANGED groups /\ NextTitle(p)
                     /\ UNCHANGED queue
                [] a.kind = "uncommitted" ->
                     coord' = IdleCoord /\ groups' = NoGroups /\ queue' = Tail(queue)
                [] a.kind \in Disabling /\ ~coord.retried ->
                     /\ coord' = [coord EXCEPT !.at = "wave", !.call = NoCall,
                                               !.wanted = Other(p), !.retried = TRUE]
                     /\ UNCHANGED <<groups, queue>>
                [] OTHER -> NextTitle(p) /\ UNCHANGED <<groups, queue>>
       /\ UNCHANGED <<slotTask, jobs, thread>>

\* extract_batches: a large group is cut, small ones share a Tavily credit.
Cut(group) ==
    [k \in 1..((Len(group) + BatchUrls - 1) \div BatchUrls) |->
        SubSeq(group, (k - 1) * BatchUrls + 1, Least(k * BatchUrls, Len(group)))]
Packed(batches, small) == IF small = <<>> THEN batches ELSE Append(batches, small)
Bundled(acc, group) ==
    IF Len(group) >= Bundle
    THEN [batches |-> Packed(acc.batches, acc.small) \o Cut(group), small |-> <<>>]
    ELSE IF Len(acc.small) + Len(group) > Bundle
    THEN [batches |-> Packed(acc.batches, acc.small), small |-> group]
    ELSE [acc EXCEPT !.small = @ \o group]
TavilyBatches ==
    LET all == FoldLeft(Bundled, [batches |-> <<>>, small |-> <<>>], groups["tavily"])
    IN Packed(all.batches, all.small)

Batch(p, links, retried) == [wanted |-> p, links |-> links, retried |-> retried]

SubmitBatches ==
    /\ coord.at = "wave" /\ coord.todo = <<>>
    /\ jobs' = [i \in DOMAIN TavilyBatches |-> Batch("tavily", TavilyBatches[i], FALSE)]
               \o [i \in DOMAIN groups["parallel"] |->
                      Batch("parallel", groups["parallel"][i], FALSE)]
    /\ groups' = NoGroups
    /\ coord' = [IdleCoord EXCEPT !.at = "extracting"]
    /\ UNCHANGED <<slotTask, queue, thread, meter, searches, shared>>

WaveEnds ==
    /\ coord.at = "extracting" /\ jobs = <<>> /\ \A t \in Threads : thread[t].at = "idle"
    /\ coord' = IdleCoord /\ queue' = Tail(queue)
    /\ UNCHANGED <<slotTask, groups, jobs, thread, meter, searches, shared>>

\* run_exa: two queries.
StartExa ==
    /\ coord.at = "idle" /\ queue # <<>> /\ queue[1] = "exa"
    /\ coord' = [IdleCoord EXCEPT !.at = "exa", !.left = 2]
    /\ UNCHANGED <<slotTask, queue, groups, jobs, thread, meter, searches, shared>>

ExaQuery ==
    /\ coord.at = "exa" /\ coord.left > 0
    /\ IF Grants("exa", ExaPrice)
       THEN /\ Reserve("exa", ExaPrice)
            /\ coord' = [coord EXCEPT !.at = "exaAsked",
                                      !.call = [prov |-> "exa", amount |-> ExaPrice]]
       ELSE coord' = [coord EXCEPT !.left = @ - 1] /\ UNCHANGED meter
    /\ UNCHANGED <<slotTask, queue, groups, jobs, thread, searches, shared>>

ExaAnswered ==
    /\ coord.at = "exaAsked"
    /\ \E a \in Answers("exa", coord.call.amount) :
        /\ Ends(coord.call, a)
        /\ meter' = IF a.kind \in Disabling THEN Disabled(Settled(coord.call, a), "exa")
                                            ELSE Settled(coord.call, a)
        /\ coord' = [coord EXCEPT !.at = "exa", !.call = NoCall,
                                  !.left = IF a.kind = "uncommitted" THEN 0 ELSE @ - 1]
    /\ UNCHANGED <<slotTask, queue, groups, jobs, thread, searches>>

ExaEnds ==
    /\ coord.at = "exa" /\ coord.left = 0
    /\ coord' = IdleCoord /\ queue' = Tail(queue)
    /\ UNCHANGED <<slotTask, groups, jobs, thread, meter, searches, shared>>

-----------------------------------------------------------------------------
(* The pool: _extract_batch, which calls itself for the parts of a batch   *)
(* and once more for the other provider.  A thread's stack holds what the  *)
(* calls of one job still have to do.                                      *)

Moves(t, at, stack) == thread' = [thread EXCEPT ![t].at = at, ![t].stack = stack]
\* The job is over when nothing is left on the stack.
Continues(t, stack) ==
    thread' = [thread EXCEPT ![t] =
                  IF stack = <<>> THEN IdleThread
                  ELSE [IdleThread EXCEPT !.at = "choose", !.stack = stack]]

Top(t) == thread[t].stack[1]
Rest(t) == Tail(thread[t].stack)

TakeJob(t) ==
    /\ thread[t].at = "idle" /\ jobs # <<>>
    /\ Continues(t, <<jobs[1]>>)
    /\ jobs' = Tail(jobs)
    /\ UNCHANGED <<slotTask, queue, coord, groups, meter, searches, shared>>

\* The units of a batch in the order they come in.
UnitsOf(links) ==
    FoldLeft(LAMBDA us, u : IF \E i \in DOMAIN us : us[i] = u THEN us ELSE Append(us, u),
             <<>>, links)

\* Parallel takes one unit at a time; without a provider the batch is skipped.
Choose(t) ==
    LET p == Provider(Top(t).wanted)
        us == UnitsOf(Top(t).links)
    IN /\ thread[t].at = "choose"
       /\ CASE p = "none" -> Continues(t, Rest(t))
            [] p = "parallel" /\ Len(us) > 1 ->
                 Continues(t, [i \in DOMAIN us |->
                                  Batch(p, SelectSeq(Top(t).links, LAMBDA u : u = us[i]),
                                        Top(t).retried)] \o Rest(t))
            [] OTHER -> thread' = [thread EXCEPT ![t].at = "size", ![t].prov = p]
       /\ UNCHANGED <<slotTask, queue, coord, groups, jobs, meter, searches, shared>>

\* The links that the budget does not pay are dropped.
Size(t) ==
    LET count == Affordable(thread[t].prov, Len(Top(t).links))
    IN /\ thread[t].at = "size"
       /\ IF count = 0 THEN Continues(t, Rest(t))
          ELSE Moves(t, "reserve", <<[Top(t) EXCEPT !.links = SubSeq(@, 1, count)]>> \o Rest(t))
       /\ UNCHANGED <<slotTask, queue, coord, groups, jobs, meter, searches, shared>>

\* Once more with the other provider.
Retried(t) ==
    IF Top(t).retried THEN Rest(t)
    ELSE <<Batch(Other(thread[t].prov), Top(t).links, TRUE)>> \o Rest(t)

Extract(t) ==
    LET p == thread[t].prov
        price == Estimate(p, Len(Top(t).links))
    IN /\ thread[t].at = "reserve"
       /\ IF Grants(p, price)
          THEN /\ Reserve(p, price)
               /\ thread' = [thread EXCEPT ![t].at = "asked",
                                           ![t].call = [prov |-> p, amount |-> price]]
          ELSE Continues(t, Retried(t)) /\ UNCHANGED meter
       /\ UNCHANGED <<slotTask, queue, coord, groups, jobs, searches, shared>>

\* A row that cannot be written raises, and the job is over.
ExtractAnswered(t) ==
    /\ thread[t].at = "asked"
    /\ \E a \in Answers(thread[t].prov, thread[t].call.amount) :
        /\ Ends(thread[t].call, a)
        /\ meter' = Settled(thread[t].call, a)
        /\ CASE a.kind = "uncommitted" -> Continues(t, <<>>)
             [] a.kind \in Disabling ->
                  thread' = [thread EXCEPT ![t].at = "disable", ![t].call = NoCall]
             [] OTHER -> Continues(t, Rest(t))
    /\ UNCHANGED <<slotTask, queue, coord, groups, jobs, searches>>

Disable(t) ==
    /\ thread[t].at = "disable"
    /\ meter' = Disabled(meter, thread[t].prov)
    /\ Continues(t, Retried(t))
    /\ UNCHANGED <<slotTask, queue, coord, groups, jobs, searches, shared>>

-----------------------------------------------------------------------------
DeepenInit ==
    /\ status = "none" /\ slotTask = [main |-> "idle", movers |-> FALSE]
    /\ queue = <<>> /\ coord = IdleCoord /\ groups = NoGroups /\ jobs = <<>>
    /\ thread = [t \in Threads |-> IdleThread]
    /\ spent = None3 /\ billed = None3 /\ over = None3 /\ lost = None3 /\ unseen = None3
    /\ meter = EmptyMeter
    /\ searches = 0 /\ \E a \in Allowed : triggers = a[1] /\ troubles = a[2]

TaskStep == Check \/ Begin \/ Load \/ MoversCollected \/ Finish \/ CollectionFails \/ Close
CoordStep ==
    \/ StartWave \/ TakeLinks \/ SearchEnds \/ SearchIsDenied \/ Search \/ SearchAnswered
    \/ SubmitBatches \/ WaveEnds \/ StartExa \/ ExaQuery \/ ExaAnswered \/ ExaEnds
ThreadStep(t) ==
    TakeJob(t) \/ Choose(t) \/ Size(t) \/ Extract(t) \/ ExtractAnswered(t) \/ Disable(t)

RunStep == Trigger \/ TaskStep \/ Dies \/ CoordStep \/ \E t \in Threads : ThreadStep(t)

DeepenNext == RunStep /\ UNCHANGED unseen

DeepenSpec == DeepenInit /\ [][DeepenNext]_deepenVars

\* Collection has a budget of time, calls time out and threads are scheduled.
\* Nobody has to trigger the slot, and no worker has to die.
DeepenFairness ==
    /\ WF_deepenVars(TaskStep /\ UNCHANGED unseen)
    /\ WF_deepenVars(CoordStep /\ UNCHANGED unseen)
    /\ \A t \in Threads : WF_deepenVars(ThreadStep(t) /\ UNCHANGED unseen)

-----------------------------------------------------------------------------
Call == [prov : Providers \cup {"none"}, amount : Nat]
Chosen == Searchers \cup {"none"}
Batches == [wanted : Searchers, links : Seq(Units), retried : BOOLEAN]

\* Every variable holds values of its kind.
DeepenTypeOK ==
    /\ status \in {"none", "running", "ok", "failed"}
    /\ slotTask \in [main : {"idle", "triggered", "checked", "starting", "collecting", "closing",
                          "failing"},
                 movers : BOOLEAN]
    /\ queue \in Seq({"movers", "exa", "others"})
    /\ coord \in [at : {"idle", "wave", "asked", "extracting", "exa", "exaAsked"},
                  todo : Seq([unit : Units, prov : Searchers]), titles : Nat,
                  wanted : Chosen, retried : BOOLEAN, left : 0..2, call : Call]
    /\ groups \in [Searchers -> Seq(Seq(Units))]
    /\ jobs \in Seq(Batches)
    /\ thread \in [Threads -> [at : {"idle", "choose", "size", "reserve", "asked", "disable"},
                               stack : Seq(Batches), prov : Chosen, call : Call]]
    /\ meter \in [run : Amounts, month : Amounts, reserved : Amounts,
                  disabled : SUBSET Providers]
    /\ {spent, unseen, billed, over, lost} \subseteq Amounts
    /\ {searches, triggers, troubles} \subseteq Nat

\* The calls under way cost what they were estimated at.
UnderWay(p) ==
    (IF coord.call.prov = p THEN coord.call.amount ELSE 0)
    + MapThenSumSet(LAMBDA t : IF thread[t].call.prov = p THEN thread[t].call.amount ELSE 0,
                    Threads)

\* Whatever threads are paying at once, and however often the slot is run, one
\* run after the other: the rows of a slot and the calls under way stay within
\* the caps of the run and of the month, but for what a provider reported above
\* an estimate; and the meter holds back exactly the calls under way, so that
\* nothing is held when the run is over (PaidUsage).  Two runs at once may pay
\* more: SlotRuns.
SpendWithinCaps ==
    \A p \in Providers :
        LET waiting == UnderWay(p)
        IN /\ spent[p] + waiting <= RunCap[p] + over[p]
           /\ Before[p] + spent[p] + waiting <= MonthLimit[p] + over[p]
           /\ meter.reserved[p] = waiting

\* What a provider charges is on the ledger, unless the connection broke, the
\* row did not commit, the worker died, or an Exa query was never answered:
\* a slow answer and one that a later thread overtakes are paid for (_call).
ChargesRecorded == \A p \in Providers : billed[p] <= spent[p] + lost[p]

\* A run that has begun comes to its end, whatever the providers answer and
\* however little the budget pays: no title and no batch goes back and forth
\* between two providers (_search_links, _extract_batch).
DeepeningEnds == []<>(slotTask.main = "idle")

=============================================================================

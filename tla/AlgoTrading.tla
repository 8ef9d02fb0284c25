----------------------------- MODULE AlgoTrading -----------------------------
(***************************************************************************)
(* The algorithmic trading service (AlgorithmsService): algorithms, their  *)
(* status, and backtests that run in the background of the process.        *)
(*                                                                         *)
(* A Handler is one request in progress and jobs[b] the background call of *)
(* executeBacktest for the backtest b.  An action is the code up to and    *)
(* including its next call of the database.  All of them share one thread: *)
(* none moves while a job is in a loop that does not end.                  *)
(*                                                                         *)
(* Abstractions: an algorithm's name, conditions and settings are its      *)
(* terms; of its backtestResults only whether there is such an object and  *)
(* whether it is empty; of a backtest's dates, the whole days between      *)
(* them.  A request finds the algorithms of its own user only: another     *)
(* user's are further instances of this module.                            *)
(***************************************************************************)
EXTENDS Integers

CONSTANTS
    AlgorithmId,   \* the ids of the algorithms collection (a bound)
    BacktestId,    \* the ids of the backtests collection (a bound)
    Handler,       \* the requests that may be in progress at the same time
    Terms,         \* the terms an algorithm may have
    GivenStatus,   \* the status and the backtestResults that the body of an
    GivenResults,  \*   update may give
    Days,          \* the lengths of the backtests asked for, in days
    Deleted,       \* a deleted document, whose id is not used again
    None           \* no document, no algorithm, no status

\* "other": any string that the schema does not list.  An update writes by id,
\* which runs none of the schema's validators.
Status == {"Draft", "Testing", "Live", "Paused", "Stopped", "other"}

\* "empty" is the schema's default, {}; "given" came with an update.
Results == {"none", "empty", "given"}

\* validTransitions
Transitions ==
    [Draft   |-> {"Testing", "Live"},
     Testing |-> {"Draft", "Live", "Paused"},
     Live    |-> {"Paused", "Stopped"},
     Paused  |-> {"Live", "Stopped"},
     Stopped |-> {"Draft"}]

\* livePerformance: whether the algorithm has one.
AlgorithmDoc ==
    [status : Status, terms : Terms, backtestResults : Results,
     livePerformance : BOOLEAN]

BacktestDoc ==
    [algorithmId : AlgorithmId, days : Days,
     status : {"Pending", "Running", "Completed", "Failed"}]

ASSUME AlgoTradingAssumption ==
    /\ Days \subseteq Int
    /\ GivenStatus \subseteq Status /\ GivenResults \subseteq Results
    /\ Deleted \notin AlgorithmDoc \cup {None}
    /\ None \notin AlgorithmDoc \cup BacktestDoc

VARIABLES
    algorithms,   \* the algorithms collection
    backtests,    \* the backtests collection
    handlers,     \* where each request in progress is and what it has read
    jobs          \* where each background backtest is

vars == <<algorithms, backtests, handlers, jobs>>

HandlerState ==
    [at : {"idle", "update", "saveStatus", "delete", "saveBacktest"},
     algorithm : AlgorithmId \cup {None},    \* the algorithm it has found
     found : Status \cup {None},             \* the status it has found there
     status : Status \cup {None},            \* the status it is to save
     days : Days \cup {None},                \* the backtest asked for
     starts : BOOLEAN]                       \* whether it sets livePerformance

Idle == [at |-> "idle", algorithm |-> None, found |-> None, status |-> None,
         days |-> None, starts |-> FALSE]

\* A request that goes on to write the algorithm a it has just found.
Found(at, a) ==
    [Idle EXCEPT !.at = at, !.algorithm = a, !.found = algorithms[a].status]

JobStage == {"none", "setRunning", "simulate", "saveResults", "looping"}

TypeOK ==
    /\ algorithms \in [AlgorithmId -> AlgorithmDoc \cup {None, Deleted}]
    /\ backtests \in [BacktestId -> BacktestDoc \cup {None}]
    /\ handlers \in [Handler -> HandlerState]
    /\ jobs \in [BacktestId -> JobStage]

Init ==
    /\ algorithms = [a \in AlgorithmId |-> None]
    /\ backtests = [b \in BacktestId |-> None]
    /\ handlers = [h \in Handler |-> Idle]
    /\ jobs = [b \in BacktestId |-> "none"]

Exists(a) == algorithms[a] \notin {None, Deleted}

\* The process is in a loop that does not end.
Hung == \E b \in BacktestId : jobs[b] = "looping"

Goto(h, state) == handlers' = [handlers EXCEPT ![h] = state]

GotoJob(b, stage) == jobs' = [jobs EXCEPT ![b] = stage]

-----------------------------------------------------------------------------
(* Algorithms                                                              *)

\* create: a draft, with the defaults of the schema.
Create(a, terms) ==
    /\ algorithms[a] = None
    /\ algorithms' = [algorithms EXCEPT ![a] =
          [status |-> "Draft", terms |-> terms, backtestResults |-> "empty",
           livePerformance |-> FALSE]]
    /\ UNCHANGED <<backtests, handlers, jobs>>

\* Slip: the algorithm's status is not looked at.
ReadToUpdateAny(h, a) ==
    /\ handlers[h].at = "idle"
    /\ Exists(a)
    /\ Goto(h, Found("update", a))
    /\ UNCHANGED <<algorithms, backtests, jobs>>

\* update finds the algorithm: 'Cannot update live algorithm' ...
ReadToUpdate(h, a) ==
    /\ handlers[h].at = "idle"
    /\ Exists(a)
    /\ algorithms[a].status # "Live"
    /\ Goto(h, Found("update", a))
    /\ UNCHANGED <<algorithms, backtests, jobs>>

\* What a body may make of an algorithm.  Its type, a Partial of the DTO, is
\* gone at run time: any field of the document may be in it.
Edits(doc) ==
    [status : {doc.status} \cup GivenStatus, terms : Terms,
     backtestResults : {doc.backtestResults} \cup GivenResults,
     livePerformance : BOOLEAN]

\* ... and writes the body by id.
Update(h) ==
    LET a == handlers[h].algorithm
    IN  /\ handlers[h].at = "update"
        /\ \/ /\ Exists(a)
              /\ \E doc \in Edits(algorithms[a]) :
                    algorithms' = [algorithms EXCEPT ![a] = doc]
           \/ ~Exists(a) /\ UNCHANGED algorithms
        /\ Goto(h, Idle)
        /\ UNCHANGED <<backtests, jobs>>

\* updateStatus: a legal transition, and 'Must backtest algorithm before going
\* live' if there is no backtestResults object ...
ReadToSetStatus(h, a, status) ==
    /\ handlers[h].at = "idle"
    /\ Exists(a)
    /\ algorithms[a].status \in DOMAIN Transitions
    /\ status \in Transitions[algorithms[a].status]
    /\ status = "Live" => algorithms[a].backtestResults # "none"
    /\ Goto(h, [Found("saveStatus", a) EXCEPT
                  !.status = status,
                  !.starts = status = "Live" /\ ~algorithms[a].livePerformance])
    /\ UNCHANGED <<algorithms, backtests, jobs>>

\* ... and save(), which rejects if the document is gone.
SaveStatus(h) ==
    LET a == handlers[h].algorithm
    IN  /\ handlers[h].at = "saveStatus"
        /\ algorithms' = IF Exists(a)
              THEN [algorithms EXCEPT
                      ![a].status = handlers[h].status,
                      ![a].livePerformance = @ \/ handlers[h].starts]
              ELSE algorithms
        /\ Goto(h, Idle)
        /\ UNCHANGED <<backtests, jobs>>

\* delete finds the algorithm: 'Cannot delete live algorithm' ...
ReadToDelete(h, a) ==
    /\ handlers[h].at = "idle"
    /\ Exists(a)
    /\ algorithms[a].status # "Live"
    /\ Goto(h, Found("delete", a))
    /\ UNCHANGED <<algorithms, backtests, jobs>>

\* ... and deletes by id.
Delete(h) ==
    /\ handlers[h].at = "delete"
    /\ algorithms' = [algorithms EXCEPT ![handlers[h].algorithm] = Deleted]
    /\ Goto(h, Idle)
    /\ UNCHANGED <<backtests, jobs>>

-----------------------------------------------------------------------------
(* Backtests                                                               *)

\* runBacktest finds the algorithm ...
ReadToBacktest(h, a, days) ==
    /\ handlers[h].at = "idle"
    /\ Exists(a)
    /\ Goto(h, [Idle EXCEPT !.at = "saveBacktest", !.algorithm = a, !.days = days])
    /\ UNCHANGED <<algorithms, backtests, jobs>>

\* ... saves the backtest and starts executeBacktest, without awaiting it.
SaveBacktest(h) ==
    /\ handlers[h].at = "saveBacktest"
    /\ \E b \in BacktestId :
          /\ backtests[b] = None
          /\ backtests' = [backtests EXCEPT ![b] =
                [algorithmId |-> handlers[h].algorithm, days |-> handlers[h].days,
                 status |-> "Pending"]]
          /\ GotoJob(b, "setRunning")
    /\ Goto(h, Idle)
    /\ UNCHANGED algorithms

\* Slip: a status that the schema does not list; nothing validates it.
SetRunningStarted(b) ==
    /\ jobs[b] = "setRunning"
    /\ backtests' = [backtests EXCEPT ![b].status = "Started"]
    /\ GotoJob(b, "simulate")
    /\ UNCHANGED <<algorithms, handlers>>

SetRunning(b) ==
    /\ jobs[b] = "setRunning"
    /\ backtests' = [backtests EXCEPT ![b].status = "Running"]
    /\ GotoJob(b, "simulate")
    /\ UNCHANGED <<algorithms, handlers>>

\* The loop over the equity curve starts at day 0 and steps by a fiftieth of
\* the days, rounded down.
CurveEnds(days) == days < 0 \/ days \div 50 > 0

\* The backtest is found and simulated, with no call of the database.
Simulate(b) ==
    /\ jobs[b] = "simulate"
    /\ GotoJob(b, IF CurveEnds(backtests[b].days) THEN "saveResults" ELSE "looping")
    /\ UNCHANGED <<algorithms, backtests, handlers>>

\* save() rejects whatever the simulation found: the schema's trades, an array
\* of { ..., type: String, ... }, is one of strings to mongoose, and the trades
\* are objects, fifty or more.  The algorithm is not reached; the update to
\* Failed is built and not executed.
SaveResults(b) ==
    /\ jobs[b] = "saveResults"
    /\ GotoJob(b, "none")
    /\ UNCHANGED <<algorithms, backtests, handlers>>

\* Another call of the job rejects, with the same end.
JobFails(b) ==
    /\ jobs[b] \notin {"none", "looping"}
    /\ GotoJob(b, "none")
    /\ UNCHANGED <<algorithms, backtests, handlers>>

-----------------------------------------------------------------------------
(* Failures                                                                *)

\* A call of a request rejects.
Abort(h) ==
    /\ handlers[h].at # "idle"
    /\ Goto(h, Idle)
    /\ UNCHANGED <<algorithms, backtests, jobs>>

\* The process dies, hung or not, and is started again.
Restart ==
    /\ handlers' = [h \in Handler |-> Idle]
    /\ jobs' = [b \in BacktestId |-> "none"]
    /\ UNCHANGED <<algorithms, backtests>>

-----------------------------------------------------------------------------
Request(h) ==
    \E a \in AlgorithmId :
        \/ ReadToUpdate(h, a)
        \/ \E status \in Status : ReadToSetStatus(h, a, status)
        \/ ReadToDelete(h, a)
        \/ \E days \in Days : ReadToBacktest(h, a, days)

Continue(h) ==
    \/ Update(h) \/ SaveStatus(h) \/ Delete(h) \/ SaveBacktest(h)

Job(b) == SetRunning(b) \/ Simulate(b) \/ SaveResults(b)

Run ==
    /\ ~Hung
    /\ \/ \E a \in AlgorithmId, terms \in Terms : Create(a, terms)
       \/ \E h \in Handler : Request(h) \/ Continue(h)
       \/ \E b \in BacktestId : Job(b)

Fault ==
    \/ ~Hung /\ \E h \in Handler : Abort(h)
    \/ ~Hung /\ \E b \in BacktestId : JobFails(b)
    \/ Restart

Next == Run \/ Fault

Spec == Init /\ [][Next]_vars

\* Nothing fails, and the thread serves every request and job in the end.
FaultFreeFairSpec ==
    /\ Init /\ [][Run]_vars
    /\ \A h \in Handler : WF_vars(~Hung /\ Continue(h))
    /\ \A b \in BacktestId : WF_vars(~Hung /\ Job(b))

-----------------------------------------------------------------------------
(* Properties under any interleaving and any failure                       *)

Stored == {a \in AlgorithmId : Exists(a)}

\* The step leaves the algorithm in place, doing what it did, and live or paused
\* or stopped.
Kept(a) ==
    /\ Exists(a)'
    /\ algorithms'[a].terms = algorithms[a].terms
    /\ algorithms'[a].status \in {"Live"} \cup Transitions.Live

\* Neither an update, whatever its body may hold, nor a delete nor a change of
\* status other than a pause or a stop reaches a live algorithm (update, delete
\* and updateStatus check it), unless the request found the algorithm before it
\* went live and another one made it live since: the checks and the writes are
\* separate calls.
LiveAlgorithmKept ==
    [][\A a \in Stored :
          algorithms[a].status = "Live" =>
             \/ Kept(a)
             \/ \E h, g \in Handler :
                   /\ g # h
                   /\ handlers[h].algorithm = a /\ handlers[h].found # "Live"
                   /\ handlers'[h] = Idle]_vars

-----------------------------------------------------------------------------
(* What the code's messages and comments say                               *)

\* 'Must backtest algorithm before going live': a live algorithm has at least
\* been given to a backtest.
LiveWasBacktested ==
    \A a \in Stored :
        algorithms[a].status = "Live" =>
            \E b \in BacktestId : backtests[b] # None /\ backtests[b].algorithmId = a

\* 'Update backtest with results': every backtest that is run ends, completed
\* or failed.
BacktestEnds ==
    \A b \in BacktestId :
        backtests[b] # None ~>
            (backtests[b] # None /\ backtests[b].status \in {"Completed", "Failed"})
=============================================================================

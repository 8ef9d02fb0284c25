------------------------- MODULE AlgoTrading_proofs --------------------------
(***************************************************************************)
(* Proofs about AlgoTrading, for any ids, requests in progress, terms,     *)
(* bodies of updates and lengths of backtests.                             *)
(***************************************************************************)
EXTENDS AlgoTrading, TLAPS

(***************************************************************************)
(* The inductive invariant: what a request and a job may rely on between   *)
(* two calls.                                                              *)
(***************************************************************************)

Writes == {"update", "saveStatus", "delete"}

\* What a request does is what it may do to an algorithm of the status it found.
Held(h) ==
    LET at == handlers[h].at
    IN  /\ at # "idle" => handlers[h].algorithm \in AlgorithmId
        /\ at = "saveBacktest" => handlers[h].days \in Days
        /\ at \in {"update", "delete"} => handlers[h].found # "Live"
        /\ at = "saveStatus" =>
              /\ handlers[h].found \in DOMAIN Transitions
              /\ handlers[h].status \in Transitions[handlers[h].found]

\* A job's backtest is stored.
JobHeld(b) == jobs[b] # "none" => backtests[b] # None

\* There is room for one request only.
OneHandler == \A g, h \in Handler : g = h

\* What the one request has found is so until it writes.
UpToDate(h) ==
    handlers[h].at \in Writes =>
        /\ Exists(handlers[h].algorithm)
        /\ algorithms[handlers[h].algorithm].status = handlers[h].found

IInv == /\ TypeOK
        /\ \A h \in Handler : Held(h)
        /\ \A b \in BacktestId : JobHeld(b)
        /\ OneHandler => \A h \in Handler : UpToDate(h)

LEMMA IdleType ==
    Idle \in HandlerState /\ Idle.at = "idle"
  BY DEF Idle, HandlerState

LEMMA ConstantsDiffer ==
    /\ \A d \in AlgorithmDoc : d # None /\ d # Deleted
    /\ \A d \in BacktestDoc : d # None
  BY AlgoTradingAssumption

LEMMA TransitionsTyped ==
    /\ DOMAIN Transitions \subseteq Status
    /\ \A s \in DOMAIN Transitions : Transitions[s] \subseteq Status
  BY DEF Transitions, Status

LEMMA InitIInv == Init => IInv
<1> SUFFICES ASSUME Init PROVE IInv
  OBVIOUS
<1>1. TypeOK
  BY IdleType DEF Init, TypeOK, JobStage
<1>2. \A h \in Handler : handlers[h].at = "idle"
  BY DEF Init, Idle
<1>3. \A b \in BacktestId : jobs[b] = "none"
  BY DEF Init
<1>4. QED
  BY <1>1, <1>2, <1>3 DEF IInv, Held, JobHeld, UpToDate, Writes

-----------------------------------------------------------------------------
(* What a request does                                                     *)

AlgorithmsTyped == algorithms' \in [AlgorithmId -> AlgorithmDoc \cup {None, Deleted}]

\* A request moves; it is the only one, or the others' knowledge may be stale.
LEMMA HandlerStep ==
    ASSUME IInv, NEW h \in Handler, NEW state \in HandlerState, Goto(h, state),
           UNCHANGED <<backtests, jobs>>, AlgorithmsTyped, Held(h)', UpToDate(h)'
    PROVE  IInv'
<1>1. \A g \in Handler : g # h => handlers'[g] = handlers[g]
  BY DEF Goto, IInv, TypeOK
<1>2. \A g \in Handler : Held(g)'
  BY <1>1 DEF IInv, Held
<1>3. TypeOK'
  BY DEF Goto, IInv, TypeOK, AlgorithmsTyped
<1>4. \A b \in BacktestId : JobHeld(b)'
  BY DEF IInv, JobHeld
<1>5. OneHandler => \A g \in Handler : UpToDate(g)'
  BY DEF OneHandler
<1>6. QED
  BY <1>2, <1>3, <1>4, <1>5 DEF IInv, OneHandler

LEMMA Ended ==
    ASSUME IInv, NEW h \in Handler, Goto(h, Idle)
    PROVE  handlers'[h] = Idle /\ Held(h)' /\ UpToDate(h)'
<1>1. handlers'[h] = Idle
  BY DEF Goto, IInv, TypeOK
<1>2. QED
  BY <1>1, IdleType DEF Held, UpToDate, Writes

LEMMA SameAlgorithms == ASSUME IInv, UNCHANGED algorithms PROVE AlgorithmsTyped
  BY DEF IInv, TypeOK, AlgorithmsTyped

LEMMA RequestIInv ==
    ASSUME IInv, NEW h \in Handler, Request(h) PROVE IInv'
<1>1. PICK a \in AlgorithmId :
          \/ ReadToUpdate(h, a)
          \/ \E status \in Status : ReadToSetStatus(h, a, status)
          \/ ReadToDelete(h, a)
          \/ \E days \in Days : ReadToBacktest(h, a, days)
  BY DEF Request
<1>2. Exists(a) /\ UNCHANGED <<algorithms, backtests, jobs>> /\ AlgorithmsTyped
  BY <1>1, SameAlgorithms
     DEF ReadToUpdate, ReadToSetStatus, ReadToDelete, ReadToBacktest
<1> DEFINE status0 == algorithms[a].status
<1>3. status0 \in Status
  BY <1>2 DEF IInv, TypeOK, Exists, AlgorithmDoc
<1> HIDE DEF status0
<1>4. ASSUME NEW at \in {"update", "delete"}, Goto(h, Found(at, a)), status0 # "Live"
      PROVE  IInv'
  <2>1. /\ Found(at, a) \in HandlerState /\ Found(at, a).at = at
        /\ Found(at, a).algorithm = a /\ Found(at, a).found = status0
    BY <1>3 DEF Found, Idle, HandlerState, status0
  <2>2. handlers'[h] = Found(at, a)
    BY <1>4 DEF Goto, IInv, TypeOK
  <2>3. Held(h)' /\ UpToDate(h)'
    BY <1>2, <1>4, <2>1, <2>2 DEF Held, UpToDate, Exists, status0
  <2>4. QED
    BY <1>2, <1>4, <2>1, <2>3, HandlerStep
<1>5. ASSUME NEW status \in Status, ReadToSetStatus(h, a, status) PROVE IInv'
  <2> DEFINE starts == status = "Live" /\ ~algorithms[a].livePerformance
             state == [Found("saveStatus", a) EXCEPT !.status = status, !.starts = starts]
  <2>1. /\ Goto(h, state) /\ status0 \in DOMAIN Transitions
        /\ status \in Transitions[status0]
    BY <1>5 DEF ReadToSetStatus, status0
  <2>2. starts \in BOOLEAN
    OBVIOUS
  <2> HIDE DEF starts
  <2>3. /\ state \in HandlerState /\ state.at = "saveStatus"
        /\ state.algorithm = a /\ state.found = status0 /\ state.status = status
    BY <1>3, <2>2 DEF Found, Idle, HandlerState, status0
  <2> HIDE DEF state
  <2>4. handlers'[h] = state
    BY <2>1 DEF Goto, IInv, TypeOK
  <2>5. Held(h)' /\ UpToDate(h)'
    BY <1>2, <2>1, <2>3, <2>4 DEF Held, UpToDate, Exists, status0
  <2>6. QED
    BY <1>2, <2>1, <2>3, <2>5, HandlerStep
<1>6. ASSUME NEW days \in Days, ReadToBacktest(h, a, days) PROVE IInv'
  <2> DEFINE state == [Idle EXCEPT !.at = "saveBacktest", !.algorithm = a, !.days = days]
  <2>1. /\ state \in HandlerState /\ state.at = "saveBacktest" /\ state.algorithm = a
        /\ state.days = days
    BY DEF Idle, HandlerState
  <2>2. Goto(h, state)
    BY <1>6 DEF ReadToBacktest
  <2> HIDE DEF state
  <2>3. handlers'[h] = state
    BY <2>2 DEF Goto, IInv, TypeOK
  <2>4. Held(h)' /\ UpToDate(h)'
    BY <2>1, <2>3 DEF Held, UpToDate, Writes
  <2>5. QED
    BY <1>2, <2>1, <2>2, <2>4, HandlerStep
<1>7. QED
  BY <1>1, <1>4, <1>5, <1>6 DEF ReadToUpdate, ReadToDelete, status0

\* What a write leaves of the algorithms.
LEMMA UpdateWrites ==
    ASSUME IInv, NEW h \in Handler, Update(h)
    PROVE  /\ AlgorithmsTyped
           /\ \A s \in AlgorithmId :
                 s # handlers[h].algorithm => algorithms'[s] = algorithms[s]
<1> DEFINE a == handlers[h].algorithm
<1>1. algorithms \in [AlgorithmId -> AlgorithmDoc \cup {None, Deleted}] /\ a \in AlgorithmId
  BY DEF IInv, TypeOK, Held, Update
<1>2. CASE Exists(a)
  <2>1. PICK doc \in Edits(algorithms[a]) : algorithms' = [algorithms EXCEPT ![a] = doc]
    BY <1>2 DEF Update
  <2>2. algorithms[a] \in AlgorithmDoc
    BY <1>1, <1>2 DEF Exists
  <2>3. doc \in AlgorithmDoc
    BY <2>1, <2>2, AlgoTradingAssumption DEF Edits, AlgorithmDoc
  <2>4. QED
    BY <1>1, <2>1, <2>3 DEF AlgorithmsTyped
<1>3. CASE ~Exists(a)
  BY <1>1, <1>3 DEF Update, AlgorithmsTyped
<1>4. QED
  BY <1>2, <1>3

LEMMA SaveStatusWrites ==
    ASSUME IInv, NEW h \in Handler, SaveStatus(h)
    PROVE  /\ AlgorithmsTyped
           /\ \A s \in AlgorithmId :
                 s # handlers[h].algorithm => algorithms'[s] = algorithms[s]
           /\ Exists(handlers[h].algorithm) =>
                 LET a == handlers[h].algorithm
                 IN  /\ algorithms'[a] \notin {None, Deleted}
                     /\ algorithms'[a].terms = algorithms[a].terms
                     /\ algorithms'[a].status = handlers[h].status
<1> DEFINE a == handlers[h].algorithm
<1>1. algorithms \in [AlgorithmId -> AlgorithmDoc \cup {None, Deleted}] /\ a \in AlgorithmId
  BY DEF IInv, TypeOK, Held, SaveStatus
<1>2. handlers[h].status \in Status
  BY TransitionsTyped DEF IInv, Held, SaveStatus
<1>3. CASE Exists(a)
  <2>1. PICK live \in BOOLEAN : live = (algorithms[a].livePerformance \/ handlers[h].starts)
    OBVIOUS
  <2> DEFINE doc == [algorithms[a] EXCEPT !.status = handlers[h].status,
                                          !.livePerformance = live]
  <2>2. algorithms[a] \in AlgorithmDoc
    BY <1>1, <1>3 DEF Exists
  <2>3. algorithms' = [algorithms EXCEPT ![a] = doc]
    BY <1>1, <1>3, <2>1, <2>2 DEF SaveStatus, AlgorithmDoc
  <2>4. /\ doc \in AlgorithmDoc /\ doc.terms = algorithms[a].terms
        /\ doc.status = handlers[h].status
    BY <1>2, <2>1, <2>2 DEF AlgorithmDoc
  <2> HIDE DEF doc
  <2>5. algorithms'[a] = doc
    BY <1>1, <2>3
  <2>6. AlgorithmsTyped
    BY <1>1, <2>3, <2>4 DEF AlgorithmsTyped
  <2>7. algorithms'[a] \notin {None, Deleted}
    BY <2>4, <2>5, ConstantsDiffer
  <2>8. QED
    BY <1>1, <2>3, <2>4, <2>5, <2>6, <2>7
<1>4. CASE ~Exists(a)
  BY <1>1, <1>4 DEF SaveStatus, AlgorithmsTyped
<1>5. QED
  BY <1>3, <1>4

LEMMA SaveBacktestIInv ==
    ASSUME IInv, NEW h \in Handler, SaveBacktest(h) PROVE IInv'
<1> DEFINE doc == [algorithmId |-> handlers[h].algorithm, days |-> handlers[h].days,
                   status |-> "Pending"]
<1>1. PICK b \in BacktestId :
          /\ backtests[b] = None /\ backtests' = [backtests EXCEPT ![b] = doc]
          /\ GotoJob(b, "setRunning")
  BY DEF SaveBacktest
<1>2. doc \in BacktestDoc
  BY DEF SaveBacktest, IInv, Held, BacktestDoc
<1> HIDE DEF doc
<1>3. Goto(h, Idle) /\ UNCHANGED algorithms
  BY DEF SaveBacktest
<1>4. TypeOK'
  BY <1>1, <1>2, <1>3, IdleType DEF IInv, TypeOK, Goto, GotoJob, JobStage
<1>5. \A c \in BacktestId : JobHeld(c)'
  BY <1>1, <1>2, ConstantsDiffer DEF IInv, TypeOK, JobHeld, GotoJob
<1>6. Held(h)' /\ UpToDate(h)'
  BY <1>3, Ended
<1>7. \A g \in Handler : g # h => handlers'[g] = handlers[g]
  BY <1>3 DEF Goto, IInv, TypeOK
<1>8. \A g \in Handler : Held(g)'
  BY <1>6, <1>7 DEF IInv, Held
<1>9. QED
  BY <1>4, <1>5, <1>6, <1>8 DEF IInv, OneHandler

LEMMA ContinueIInv ==
    ASSUME IInv, NEW h \in Handler, Continue(h) PROVE IInv'
<1>1. CASE Update(h)
  BY <1>1, UpdateWrites, Ended, IdleType, HandlerStep DEF Update
<1>2. CASE SaveStatus(h)
  BY <1>2, SaveStatusWrites, Ended, IdleType, HandlerStep DEF SaveStatus
<1>3. CASE Delete(h)
  <2>1. AlgorithmsTyped
    BY <1>3 DEF Delete, IInv, TypeOK, AlgorithmsTyped
  <2>2. QED
    BY <1>3, <2>1, Ended, IdleType, HandlerStep DEF Delete
<1>4. CASE SaveBacktest(h)
  BY <1>4, SaveBacktestIInv
<1>5. QED
  BY <1>1, <1>2, <1>3, <1>4 DEF Continue

-----------------------------------------------------------------------------
(* The other steps                                                         *)

LEMMA CreateIInv ==
    ASSUME IInv, NEW a \in AlgorithmId, NEW terms \in Terms, Create(a, terms)
    PROVE  IInv'
<1> DEFINE doc == [status |-> "Draft", terms |-> terms, backtestResults |-> "empty",
                   livePerformance |-> FALSE]
<1>1. doc \in AlgorithmDoc
  BY DEF AlgorithmDoc, Status, Results
<1>2. /\ algorithms[a] = None /\ algorithms' = [algorithms EXCEPT ![a] = doc]
      /\ algorithms \in [AlgorithmId -> AlgorithmDoc \cup {None, Deleted}]
      /\ UNCHANGED <<backtests, handlers, jobs>>
  BY DEF Create, IInv, TypeOK
<1> HIDE DEF doc
<1>3. \A s \in AlgorithmId \ {a} : algorithms'[s] = algorithms[s]
  BY <1>2
<1>4. TypeOK'
  BY <1>1, <1>2 DEF IInv, TypeOK
<1>5. \A h \in Handler : Held(h)'
  BY <1>2 DEF IInv, Held
<1>6. \A h \in Handler : UpToDate(h) => UpToDate(h)'
  BY <1>2, <1>3 DEF UpToDate, Exists, Writes, IInv, Held
<1>7. QED
  BY <1>2, <1>4, <1>5, <1>6 DEF IInv, JobHeld, OneHandler

LEMMA JobIInv ==
    ASSUME IInv, NEW b \in BacktestId, Job(b) \/ JobFails(b) PROVE IInv'
<1>1. UNCHANGED <<algorithms, handlers>>
  BY DEF Job, JobFails, SetRunning, Simulate, SaveResults
<1>2. TypeOK' /\ \A c \in BacktestId : JobHeld(c)'
  <2>1. CASE SetRunning(b)
    <3> DEFINE doc == [backtests[b] EXCEPT !.status = "Running"]
    <3>1. backtests[b] \in BacktestDoc
      BY <2>1 DEF SetRunning, IInv, TypeOK, JobHeld
    <3>2. doc \in BacktestDoc
      BY <3>1 DEF BacktestDoc
    <3>3. backtests' = [backtests EXCEPT ![b] = doc] /\ GotoJob(b, "simulate")
      BY <2>1, <3>1 DEF SetRunning, BacktestDoc
    <3> HIDE DEF doc
    <3>4. QED
      BY <1>1, <3>2, <3>3, ConstantsDiffer DEF IInv, TypeOK, JobHeld, GotoJob, JobStage
  <2>2. CASE Simulate(b)
    <3>1. PICK stage \in {"saveResults", "looping"} :
              jobs' = [jobs EXCEPT ![b] = stage] /\ jobs[b] # "none" /\ UNCHANGED backtests
      BY <2>2 DEF Simulate, GotoJob
    <3>2. QED
      BY <1>1, <3>1 DEF IInv, TypeOK, JobHeld, JobStage
  <2>3. CASE SaveResults(b) \/ JobFails(b)
    BY <1>1, <2>3 DEF SaveResults, JobFails, IInv, TypeOK, JobHeld, GotoJob, JobStage
  <2>4. QED
    BY <2>1, <2>2, <2>3 DEF Job
<1>3. (\A h \in Handler : Held(h)') /\ \A h \in Handler : UpToDate(h) => UpToDate(h)'
  BY <1>1 DEF IInv, Held, UpToDate, Exists
<1>4. QED
  BY <1>2, <1>3 DEF IInv, OneHandler

LEMMA RestartIInv == ASSUME IInv, Restart PROVE IInv'
<1>1. \A h \in Handler : handlers'[h] = Idle
  BY DEF Restart
<1>2. \A b \in BacktestId : jobs'[b] = "none"
  BY DEF Restart
<1>3. TypeOK'
  BY IdleType DEF Restart, IInv, TypeOK, JobStage
<1>4. \A h \in Handler : Held(h)' /\ UpToDate(h)'
  BY <1>1, IdleType DEF Held, UpToDate, Writes
<1>5. \A b \in BacktestId : JobHeld(b)'
  BY <1>2 DEF JobHeld
<1>6. QED
  BY <1>3, <1>4, <1>5 DEF IInv

LEMMA NextIInv == IInv /\ [Next]_vars => IInv'
<1> SUFFICES ASSUME IInv, [Next]_vars PROVE IInv'
  OBVIOUS
<1>1. CASE Run
  BY <1>1, CreateIInv, RequestIInv, ContinueIInv, JobIInv DEF Run
<1>2. ASSUME NEW h \in Handler, Abort(h) PROVE IInv'
  BY <1>2, Ended, IdleType, SameAlgorithms, HandlerStep DEF Abort
<1>3. CASE Fault
  BY <1>2, <1>3, JobIInv, RestartIInv DEF Fault
<1>4. CASE UNCHANGED vars
  BY <1>4 DEF vars, IInv, TypeOK, Held, JobHeld, UpToDate, OneHandler, Exists
<1>5. QED
  BY <1>1, <1>3, <1>4 DEF Next

LEMMA Invariance == Spec => []IInv
  BY InitIInv, NextIInv, PTL DEF Spec

\* Documents, requests and jobs keep their types whatever overlaps, fails or
\* hangs and whatever the bodies of updates hold.
THEOREM TypeCorrect == Spec => []TypeOK
  BY Invariance, PTL DEF IInv

-----------------------------------------------------------------------------
(* Live algorithms                                                         *)

\* What LiveAlgorithmKept says of a step.
LiveKept ==
    \A a \in Stored :
        algorithms[a].status = "Live" =>
           \/ Kept(a)
           \/ \E h, g \in Handler :
                 /\ g # h
                 /\ handlers[h].algorithm = a /\ handlers[h].found # "Live"
                 /\ handlers'[h] = Idle

LEMMA SameAlgorithmsKept == ASSUME UNCHANGED algorithms PROVE LiveKept
  BY DEF LiveKept, Kept, Stored, Exists

\* A write reaches the algorithm the request has found, and if that was live,
\* pauses or stops it.
LEMMA ContinueKeeps ==
    ASSUME IInv, NEW h \in Handler, Continue(h) PROVE LiveKept
<1> SUFFICES ASSUME NEW a \in Stored, algorithms[a].status = "Live", ~Kept(a)
             PROVE  \E f, g \in Handler :
                       /\ g # f
                       /\ handlers[f].algorithm = a /\ handlers[f].found # "Live"
                       /\ handlers'[f] = Idle
  BY DEF LiveKept
<1>1. a \in AlgorithmId /\ Exists(a) /\ algorithms[a] \in AlgorithmDoc
  BY DEF Stored, IInv, TypeOK, Exists
<1>2. algorithms'[a] # algorithms[a]
  BY <1>1 DEF Kept, Exists
<1>3. handlers'[h] = Idle
  BY Ended DEF Continue, Update, SaveStatus, Delete, SaveBacktest
<1>4. Held(h) /\ (OneHandler => UpToDate(h))
  BY DEF IInv
<1>5. handlers[h].at \in Writes /\ handlers[h].algorithm = a /\ handlers[h].found # "Live"
  <2>1. CASE Update(h)
    BY <1>1, <1>2, <1>4, <2>1, UpdateWrites DEF Update, Held, Writes
  <2>2. CASE SaveStatus(h)
    <3>1. handlers[h].algorithm = a
      BY <1>1, <1>2, <2>2, SaveStatusWrites
    <3>2. /\ algorithms'[a] \notin {None, Deleted}
          /\ algorithms'[a].terms = algorithms[a].terms
          /\ algorithms'[a].status = handlers[h].status
      BY <1>1, <2>2, <3>1, SaveStatusWrites
    <3>3. Exists(a)'
      BY <3>2 DEF Exists
    <3>4. handlers[h].found # "Live"
      BY <1>4, <2>2, <3>2, <3>3 DEF SaveStatus, Held, Kept, Transitions
    <3>5. QED
      BY <2>2, <3>1, <3>4 DEF SaveStatus, Writes
  <2>3. CASE Delete(h)
    <3>1. handlers[h].algorithm = a
      BY <1>1, <1>2, <2>3 DEF Delete, IInv, TypeOK
    <3>2. QED
      BY <1>4, <2>3, <3>1 DEF Delete, Held, Writes
  <2>4. CASE SaveBacktest(h)
    BY <1>2, <2>4 DEF SaveBacktest
  <2>5. QED
    BY <2>1, <2>2, <2>3, <2>4 DEF Continue
<1>6. ~OneHandler
  BY <1>4, <1>5 DEF UpToDate
<1>7. PICK g \in Handler : g # h
  BY <1>6 DEF OneHandler
<1>8. QED
  BY <1>3, <1>5, <1>7

LEMMA NextKeeps ==
    ASSUME IInv, [Next]_vars PROVE LiveKept
<1>1. ASSUME NEW a \in AlgorithmId, NEW terms \in Terms, Create(a, terms)
      PROVE  LiveKept
  <2>1. \A s \in Stored : algorithms'[s] = algorithms[s]
    BY <1>1 DEF Create, Stored, Exists, IInv, TypeOK
  <2>2. QED
    BY <2>1 DEF LiveKept, Kept, Stored, Exists
<1>2. ASSUME NEW h \in Handler, Request(h) PROVE LiveKept
  BY <1>2, SameAlgorithmsKept
     DEF Request, ReadToUpdate, ReadToSetStatus, ReadToDelete, ReadToBacktest
<1>3. ASSUME NEW h \in Handler, Continue(h) PROVE LiveKept
  BY <1>3, ContinueKeeps
<1>4. ASSUME NEW b \in BacktestId, Job(b) PROVE LiveKept
  BY <1>4, SameAlgorithmsKept DEF Job, SetRunning, Simulate, SaveResults
<1>5. CASE Fault
  BY <1>5, SameAlgorithmsKept DEF Fault, Abort, JobFails, Restart
<1>6. CASE UNCHANGED vars
  BY <1>6, SameAlgorithmsKept DEF vars
<1>7. QED
  BY <1>1, <1>2, <1>3, <1>4, <1>5, <1>6 DEF Next, Run

\* For any number of requests, whatever they carry, the background jobs do or
\* fails: a live algorithm is updated, deleted or taken out of service otherwise
\* than by a pause or a stop only by a request that found it before it was live,
\* with another request beside it; so never while requests do not overlap.
THEOREM LiveKeptUnlessStale == Spec => LiveAlgorithmKept
<1>1. IInv /\ [Next]_vars => LiveKept
  BY NextKeeps
<1>2. LiveKept =>
        [\A a \in Stored :
           algorithms[a].status = "Live" =>
             \/ Kept(a)
             \/ \E h, g \in Handler :
                   /\ g # h
                   /\ handlers[h].algorithm = a /\ handlers[h].found # "Live"
                   /\ handlers'[h] = Idle]_vars
  BY DEF LiveKept
<1>3. QED
  BY <1>1, <1>2, Invariance, PTL DEF Spec, LiveAlgorithmKept
=============================================================================

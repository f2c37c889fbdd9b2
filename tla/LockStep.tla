------------------------------ MODULE LockStep ------------------------------
(***************************************************************************)
(* The lock-step channel of the multi-threaded circuit resolver            *)
(* (boojum/src/dag/resolvers/mt/resolution_window.rs): one broker thread   *)
(* (ResolutionWindow::process_buffer) hands batches of tasks to a pool of  *)
(* worker threads (Worker::run) through LockStepChannel, a hand-written    *)
(* barrier made of atomics, plain shared memory and park / unpark.         *)
(*                                                                         *)
(* Every read or write of a shared atomic is a step of its own.  Memory is *)
(* sequentially consistent.  A task is its order index; running it is one  *)
(* step that succeeds or panics.                                           *)
(***************************************************************************)
EXTENDS Naturals, Sequences

CONSTANTS
    WorkerCnt,             \* threads of the pool
    LOCK_STEP_ELEM_SIZE,   \* tasks one worker can be given in one batch
    MaxTasks               \* bound: order indices used in a behaviour

ASSUME WorkerCntAssumption == WorkerCnt \in Nat \ {0}
ASSUME ElemSizeAssumption == LOCK_STEP_ELEM_SIZE \in Nat \ {0}
ASSUME MaxTasksAssumption == MaxTasks \in Nat

Workers == 0 .. WorkerCnt - 1
Tasks == 0 .. MaxTasks - 1
NoPanic == WorkerCnt              \* no payload stored; otherwise its worker

VARIABLES
    \* LockStepChannel
    lock_state, lock_correlation, park_workers, die_order,
    items,          \* LockStepElement.items[..count] of every worker
    done,           \* LockStepElement.done of every worker
    panicked, panic,
    token,          \* std::thread: an unpark not yet consumed by a park
    \* the broker thread
    mpc, mi,        \* where it is; the index of its unpark and wait loops
    range_start, count,
    \* the worker threads
    wpc, wcorr,     \* where it is; LockStepWorker.lock_correlation
    tasks,          \* the rest of the slice wait_for_tasks returned
    \* history
    runs            \* how often each task was invoked to completion

chan_vars == <<lock_state, lock_correlation, park_workers, die_order, items,
               done, panicked, panic, token>>
broker_vars == <<mpc, mi, range_start, count>>
worker_vars == <<wpc, wcorr, tasks, runs>>
vars == <<chan_vars, broker_vars, worker_vars>>

BrokerPcs == {"fill", "correlation", "free", "unpark_flag", "unpark", "wait",
              "writing", "clear", "get_panic", "kill_order", "kill_flag",
              "kill_unpark", "join", "end"}
WorkerPcs == {"park_check", "park", "die_check", "corr_check", "state_check",
              "take", "returned", "run", "done", "panic", "panic_flag",
              "panic_done", "exited"}

TypeOK ==
    /\ lock_state \in {"WRITING", "FREE"}
    /\ lock_correlation \in Nat
    /\ park_workers \in BOOLEAN
    /\ die_order \in BOOLEAN
    /\ items \in [Workers -> Seq(Tasks)]
    /\ done \in [Workers -> BOOLEAN]
    /\ panicked \in BOOLEAN
    /\ panic \in Workers \cup {NoPanic}
    /\ token \in [Workers -> BOOLEAN]
    /\ mpc \in BrokerPcs
    /\ mi \in Workers
    /\ range_start \in 0 .. MaxTasks
    /\ count \in 0 .. MaxTasks - range_start
    /\ wpc \in [Workers -> WorkerPcs]
    /\ wcorr \in [Workers -> Nat]
    /\ tasks \in [Workers -> Seq(Tasks)]
    /\ runs \in [Tasks -> Nat]

Init ==
    /\ lock_state = "WRITING"
    /\ lock_correlation = 0
    /\ park_workers = TRUE
    /\ die_order = FALSE
    /\ items = [w \in Workers |-> << >>]
    /\ done = [w \in Workers |-> FALSE]
    /\ panicked = FALSE
    /\ panic = NoPanic
    /\ token = [w \in Workers |-> FALSE]
    /\ mpc = "fill" /\ mi = 0
    /\ range_start = 0 /\ count = 0
    /\ wpc = [w \in Workers |-> "park_check"]
    /\ wcorr = [w \in Workers |-> 0]
    /\ tasks = [w \in Workers |-> << >>]
    /\ runs = [t \in Tasks |-> 0]

-----------------------------------------------------------------------------
(* The broker thread *)

Goto(pc) == mpc' = pc

(* Mutant: the round robin goes one round too far. *)
Share_OneTooMany(w, n) ==
    [j \in 1 .. (n + 2 * WorkerCnt - 1 - w) \div WorkerCnt |->
        range_start + w + WorkerCnt * (j - 1)]

(* The tasks of a batch of n that the round robin gives to worker w. *)
Share(w, n) ==
    [j \in 1 .. (n + WorkerCnt - 1 - w) \div WorkerCnt |->
        range_start + w + WorkerCnt * (j - 1)]

(* process_buffer: the parallelism of the first task, the size of the
   channel and the length of the buffer bound the batch. *)
Fill(n) ==
    /\ mpc = "fill"
    /\ n \in 1 .. WorkerCnt * LOCK_STEP_ELEM_SIZE
    /\ range_start + n <= MaxTasks
    /\ count' = n
    /\ items' = [w \in Workers |-> items[w] \o Share(w, n)]
    /\ Goto("correlation")
    /\ UNCHANGED <<lock_state, lock_correlation, park_workers, die_order, done,
                   panicked, panic, token, mi, range_start, worker_vars>>

(* execute: lock_correlation.fetch_add(1) *)
BumpCorrelation ==
    /\ mpc = "correlation"
    /\ lock_correlation' = lock_correlation + 1
    /\ Goto("free")
    /\ UNCHANGED <<lock_state, park_workers, die_order, items, done, panicked,
                   panic, token, mi, range_start, count, worker_vars>>

FreeLock ==
    /\ mpc = "free"
    /\ lock_state' = "FREE"
    /\ Goto("unpark_flag")
    /\ UNCHANGED <<lock_correlation, park_workers, die_order, items, done,
                   panicked, panic, token, mi, range_start, count, worker_vars>>

(* execute clears park_workers; nothing ever sets it again. *)
ClearParkFlag ==
    /\ mpc = "unpark_flag"
    /\ park_workers' = FALSE
    /\ mi' = 0
    /\ Goto("unpark")
    /\ UNCHANGED <<lock_state, lock_correlation, die_order, items, done,
                   panicked, panic, token, range_start, count, worker_vars>>

(* unpark the pool in order, then wait for its elements in reverse order. *)
Unpark ==
    /\ mpc = "unpark"
    /\ token' = [token EXCEPT ![mi] = TRUE]
    /\ IF mi + 1 < WorkerCnt
       THEN mi' = mi + 1 /\ Goto("unpark")
       ELSE mi' = WorkerCnt - 1 /\ Goto("wait")
    /\ UNCHANGED <<lock_state, lock_correlation, park_workers, die_order, items,
                   done, panicked, panic, range_start, count, worker_vars>>

(* Mutant: the reverse loop stops before element 0. *)
AwaitDone_SkipFirst ==
    /\ mpc = "wait"
    /\ mi > 0 => done[mi]
    /\ IF mi > 0
       THEN mi' = mi - 1 /\ Goto("wait")
       ELSE mi' = mi /\ Goto("writing")
    /\ UNCHANGED <<chan_vars, range_start, count, worker_vars>>

AwaitDone ==
    /\ mpc = "wait"
    /\ done[mi]
    /\ IF mi > 0
       THEN mi' = mi - 1 /\ Goto("wait")
       ELSE mi' = mi /\ Goto("writing")
    /\ UNCHANGED <<chan_vars, range_start, count, worker_vars>>

CloseLock ==
    /\ mpc = "writing"
    /\ lock_state' = "WRITING"
    /\ Goto("clear")
    /\ UNCHANGED <<lock_correlation, park_workers, die_order, items, done,
                   panicked, panic, token, mi, range_start, count, worker_vars>>

(* Mutants: clear resets one of its two fields only. *)
Clear_KeepsDone ==
    /\ mpc = "clear"
    /\ items' = [w \in Workers |-> << >>]
    /\ Goto("get_panic")
    /\ UNCHANGED <<lock_state, lock_correlation, park_workers, die_order, done,
                   panicked, panic, token, mi, range_start, count, worker_vars>>

Clear_KeepsItems ==
    /\ mpc = "clear"
    /\ done' = [w \in Workers |-> FALSE]
    /\ Goto("get_panic")
    /\ UNCHANGED <<lock_state, lock_correlation, park_workers, die_order, items,
                   panicked, panic, token, mi, range_start, count, worker_vars>>

Clear ==
    /\ mpc = "clear"
    /\ items' = [w \in Workers |-> << >>]
    /\ done' = [w \in Workers |-> FALSE]
    /\ Goto("get_panic")
    /\ UNCHANGED <<lock_state, lock_correlation, park_workers, die_order,
                   panicked, panic, token, mi, range_start, count, worker_vars>>

(* get_panic found a payload, takes it, and the broker ends the resolution. *)
TakePanic ==
    /\ mpc = "get_panic"
    /\ panicked /\ panic # NoPanic
    /\ panic' = NoPanic
    /\ Goto("kill_order")
    /\ UNCHANGED <<lock_state, lock_correlation, park_workers, die_order, items,
                   done, panicked, token, mi, range_start, count, worker_vars>>

(* Mutant: the drain does not look at the panic flag. *)
Drain_AfterPanic ==
    /\ mpc = "get_panic"
    /\ range_start' = range_start + count
    /\ count' = 0
    /\ Goto("fill")
    /\ UNCHANGED <<chan_vars, mi, worker_vars>>

(* No panic: the enqueued tasks are marked done and drained. *)
Drain ==
    /\ mpc = "get_panic"
    /\ ~panicked
    /\ range_start' = range_start + count
    /\ count' = 0
    /\ Goto("fill")
    /\ UNCHANGED <<chan_vars, mi, worker_vars>>

(* resolve: registration is complete and the buffer is empty. *)
Finish ==
    /\ mpc = "fill"
    /\ Goto("kill_order")
    /\ UNCHANGED <<chan_vars, mi, range_start, count, worker_vars>>

KillOrder ==
    /\ mpc = "kill_order"
    /\ die_order' = TRUE
    /\ Goto("kill_flag")
    /\ UNCHANGED <<lock_state, lock_correlation, park_workers, items, done,
                   panicked, panic, token, mi, range_start, count, worker_vars>>

(* Mutant: kill leaves park_workers as it is. *)
KillFlag_Forgotten ==
    /\ mpc = "kill_flag"
    /\ mi' = 0
    /\ Goto("kill_unpark")
    /\ UNCHANGED <<chan_vars, range_start, count, worker_vars>>

KillFlag ==
    /\ mpc = "kill_flag"
    /\ park_workers' = FALSE
    /\ mi' = 0
    /\ Goto("kill_unpark")
    /\ UNCHANGED <<lock_state, lock_correlation, die_order, items, done,
                   panicked, panic, token, range_start, count, worker_vars>>

KillUnpark ==
    /\ mpc = "kill_unpark"
    /\ token' = [token EXCEPT ![mi] = TRUE]
    /\ IF mi + 1 < WorkerCnt
       THEN mi' = mi + 1 /\ Goto("kill_unpark")
       ELSE mi' = mi /\ Goto("join")
    /\ UNCHANGED <<lock_state, lock_correlation, park_workers, die_order, items,
                   done, panicked, panic, range_start, count, worker_vars>>

Join ==
    /\ mpc = "join"
    /\ \A w \in Workers : wpc[w] = "exited"
    /\ Goto("end")
    /\ UNCHANGED <<chan_vars, mi, range_start, count, worker_vars>>

Broker ==
    \/ \E n \in 1 .. WorkerCnt * LOCK_STEP_ELEM_SIZE : Fill(n)
    \/ BumpCorrelation \/ FreeLock \/ ClearParkFlag \/ Unpark
    \/ AwaitDone \/ CloseLock \/ Clear \/ TakePanic \/ Drain
    \/ Finish \/ KillOrder \/ KillFlag \/ KillUnpark \/ Join

-----------------------------------------------------------------------------
(* A worker thread *)

Move(w, from, to) ==
    /\ wpc[w] = from
    /\ wpc' = [wpc EXCEPT ![w] = to]

ParkCheck(w) ==
    /\ Move(w, "park_check", IF park_workers THEN "park" ELSE "die_check")
    /\ UNCHANGED <<chan_vars, broker_vars, wcorr, tasks, runs>>

(* park() consumes the token ... *)
Park(w) ==
    /\ Move(w, "park", "park_check")
    /\ token[w]
    /\ token' = [token EXCEPT ![w] = FALSE]
    /\ UNCHANGED <<lock_state, lock_correlation, park_workers, die_order, items,
                   done, panicked, panic, broker_vars, wcorr, tasks, runs>>

(* ... or returns for no reason, as std::thread::park allows. *)
SpuriousWakeup(w) ==
    /\ Move(w, "park", "park_check")
    /\ UNCHANGED <<chan_vars, broker_vars, wcorr, tasks, runs>>

(* On a die order wait_for_tasks returns an empty slice. *)
DieCheck(w) ==
    /\ Move(w, "die_check", IF die_order THEN "returned" ELSE "corr_check")
    /\ UNCHANGED <<chan_vars, broker_vars, wcorr, tasks, runs>>

CorrCheck(w) ==
    /\ Move(w, "corr_check",
            IF wcorr[w] = lock_correlation THEN "park_check" ELSE "state_check")
    /\ UNCHANGED <<chan_vars, broker_vars, wcorr, tasks, runs>>

StateCheck(w) ==
    /\ Move(w, "state_check",
            IF lock_state = "FREE" THEN "take" ELSE "park_check")
    /\ UNCHANGED <<chan_vars, broker_vars, wcorr, tasks, runs>>

(* The end of wait_for_tasks: assert_eq!(old, new - 1), which unwinds into
   LockStepWorker::panic, then the slice of this worker's element. *)
Take(w) ==
    LET matches == wcorr[w] + 1 = lock_correlation
    IN  /\ Move(w, "take", IF matches THEN "returned" ELSE "panic")
        /\ wcorr' = [wcorr EXCEPT ![w] = IF matches THEN @ + 1 ELSE @]
        /\ tasks' = [tasks EXCEPT ![w] = IF matches THEN items[w] ELSE @]
        /\ UNCHANGED <<chan_vars, broker_vars, runs>>

(* Worker::run: if die_order() { break; } *)
Returned(w) ==
    /\ Move(w, "returned", IF die_order THEN "exited" ELSE "run")
    /\ UNCHANGED <<chan_vars, broker_vars, wcorr, tasks, runs>>

Invoke(w) ==
    /\ wpc[w] = "run"
    /\ tasks[w] # << >>
    /\ runs' = [runs EXCEPT ![Head(tasks[w])] = @ + 1]
    /\ tasks' = [tasks EXCEPT ![w] = Tail(@)]
    /\ UNCHANGED <<chan_vars, broker_vars, wpc, wcorr>>

(* The closure or an assertion of invoke unwinds; the rest of the slice is
   abandoned. *)
InvokePanics(w) ==
    /\ Move(w, "run", "panic")
    /\ tasks[w] # << >>
    /\ tasks' = [tasks EXCEPT ![w] = << >>]
    /\ UNCHANGED <<chan_vars, broker_vars, wcorr, runs>>

SliceEnds(w) ==
    /\ Move(w, "run", "done")
    /\ tasks[w] = << >>
    /\ UNCHANGED <<chan_vars, broker_vars, wcorr, tasks, runs>>

(* Mutant: a panicking worker dies without calling done(). *)
Done_NotAfterPanic(w) ==
    /\ \/ Move(w, "done", "park_check") /\ done' = [done EXCEPT ![w] = TRUE]
       \/ Move(w, "panic_done", "exited") /\ UNCHANGED done
    /\ UNCHANGED <<lock_state, lock_correlation, park_workers, die_order, items,
                   panicked, panic, token, broker_vars, wcorr, tasks, runs>>

Done(w) ==
    /\ \/ Move(w, "done", "park_check")
       \/ Move(w, "panic_done", "exited")
    /\ done' = [done EXCEPT ![w] = TRUE]
    /\ UNCHANGED <<lock_state, lock_correlation, park_workers, die_order, items,
                   panicked, panic, token, broker_vars, wcorr, tasks, runs>>

(* LockStepWorker::panic, under the mutex of the payload: the first payload
   is kept, then the flag is raised before the mutex is released. *)
PanicHeld == \E w \in Workers : wpc[w] = "panic_flag"

(* Mutant: the flag is not raised. *)
StorePayload_NoFlag(w) ==
    /\ Move(w, "panic", "panic_done")
    /\ ~PanicHeld
    /\ panic = NoPanic
    /\ panic' = w
    /\ UNCHANGED <<lock_state, lock_correlation, park_workers, die_order, items,
                   done, panicked, token, broker_vars, wcorr, tasks, runs>>

StorePayload(w) ==
    /\ Move(w, "panic", "panic_flag")
    /\ ~PanicHeld
    /\ panic = NoPanic
    /\ panic' = w
    /\ UNCHANGED <<lock_state, lock_correlation, park_workers, die_order, items,
                   done, panicked, token, broker_vars, wcorr, tasks, runs>>

PayloadPresent(w) ==
    /\ Move(w, "panic", "panic_done")
    /\ ~PanicHeld
    /\ panic # NoPanic
    /\ UNCHANGED <<chan_vars, broker_vars, wcorr, tasks, runs>>

RaisePanicked(w) ==
    /\ Move(w, "panic_flag", "panic_done")
    /\ panicked' = TRUE
    /\ UNCHANGED <<lock_state, lock_correlation, park_workers, die_order, items,
                   done, panic, token, broker_vars, wcorr, tasks, runs>>

Worker(w) ==
    \/ ParkCheck(w) \/ Park(w) \/ DieCheck(w) \/ CorrCheck(w) \/ StateCheck(w)
    \/ Take(w) \/ Returned(w)
    \/ Invoke(w) \/ InvokePanics(w) \/ SliceEnds(w) \/ Done(w)
    \/ StorePayload(w) \/ PayloadPresent(w) \/ RaisePanicked(w)

-----------------------------------------------------------------------------
AllEnded == mpc = "end" /\ UNCHANGED vars

Next ==
    \/ Broker
    \/ \E w \in Workers : Worker(w) \/ SpuriousWakeup(w)
    \/ AllEnded

Spec == Init /\ [][Next]_vars

(* Every thread is scheduled; a spurious wake-up is never owed. *)
Fairness == WF_vars(Broker) /\ \A w \in Workers : WF_vars(Worker(w))
FairSpec == Spec /\ Fairness

-----------------------------------------------------------------------------
(* Safety *)

(* Inside its element or about to be: between the last check of
   wait_for_tasks and the end of done(). *)
Touching(w) ==
    \/ wpc[w] \in {"take", "run", "done", "panic", "panic_flag", "panic_done"}
    \/ wpc[w] = "returned" /\ ~die_order

(* The broker writes the elements (pushes of process_buffer, clear of execute)
   only while no worker reads or writes one: the plain, unsynchronised data
   never sees two threads at once. *)
DataExclusion ==
    mpc \in {"fill", "clear"} => \A w \in Workers : ~Touching(w)

(* LockStepElement::push never indexes past its array: the element of every
   worker is empty again when the next batch is pushed, and the round robin of
   process_buffer deals none of them more of a batch than it has room for. *)
ElementsFit == \A w \in Workers : Len(items[w]) <= LOCK_STEP_ELEM_SIZE

(* assert_eq!(self.lock_correlation, new_lock_correlation - 1) of
   wait_for_tasks never fires: no worker misses a batch or takes one twice. *)
CorrelationHolds ==
    \A w \in Workers : wpc[w] = "take" => wcorr[w] + 1 = lock_correlation

(* When the broker drains a batch that did not panic, every task handed out so
   far was run exactly once, whoever got it, and no later one was run. *)
DrainedTasksRan ==
    mpc = "get_panic" /\ ~panicked =>
        \A t \in Tasks : runs[t] = IF t < range_start + count THEN 1 ELSE 0

(* Every worker thread that died is accounted for when the batch closes:
   get_panic sees the flag, and take().unwrap() finds a payload. *)
PanicReported ==
    mpc = "get_panic" =>
        /\ (\E w \in Workers : wpc[w] = "exited") => panicked
        /\ panicked => panic # NoPanic

(* The first payload stored is the one the broker takes: no step replaces it. *)
FirstPanicWins ==
    [][panic # NoPanic => panic' = panic \/ TakePanic]_vars

-----------------------------------------------------------------------------
(* Liveness *)

(* The broker's join of the pool returns: no worker misses its release for good, one
   that panics still lets the batch close, and kill() reaches every worker, parked
   or spinning, after a panic or not. *)
PoolTerminates == <>(mpc = "end")

-----------------------------------------------------------------------------
(* What the channel promises: LockStep implements BatchExecutor. *)

Released == mpc \in {"unpark_flag", "unpark", "wait", "writing"}

BE == INSTANCE BatchExecutor WITH
        batch <- IF Released
                 THEN {t \in Tasks : range_start <= t /\ t < range_start + count}
                 ELSE {},
        ran <- {t \in Tasks : runs[t] > 0},
        failed <- \/ panicked
                  \/ \E w \in Workers :
                       wpc[w] \in {"panic", "panic_flag", "panic_done"},
        stopped <- mpc \in {"kill_flag", "kill_unpark", "join", "end"}

ImplementsBatchExecutor == BE!Spec

=============================================================================

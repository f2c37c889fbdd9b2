--------------------------- MODULE LockStepMemory ---------------------------
(***************************************************************************)
(* The lock-step channel of LockStep on a machine that delays stores.      *)
(* LockStepChannel::execute (resolution_window.rs) publishes a batch with  *)
(* plain and Relaxed stores, one fetch_add and one Release store; here a   *)
(* store of the broker enters a buffer and reaches the workers when it is  *)
(* committed.                                                              *)
(*                                                                         *)
(* The variables of LockStep are what the broker sees: its own stores and  *)
(* what the workers stored.  The mem_ variables are what the workers see.  *)
(* The workers' only delayed store is done, after a Release fence and the  *)
(* last of a batch: its delay is a delay of the worker.                    *)
(***************************************************************************)
EXTENDS LockStep, SequencesExt

CONSTANT
    Reordered   \* FALSE: stores commit in order and fetch_add commits them
                \* all, as on x86; TRUE: stores to different locations commit in
                \* any order, as on ARM and in Rust's memory model

ASSUME ReorderedAssumption == Reordered \in BOOLEAN

VARIABLES
    buffer,     \* stores of the broker not committed: [loc, worker, val, release]
    mem_state, mem_correlation, mem_park, mem_die, mem_items, mem_done

mem_vars == <<mem_state, mem_correlation, mem_park, mem_die, mem_items, mem_done>>
all_vars == <<vars, buffer, mem_vars>>

W == INSTANCE LockStep WITH
        lock_state <- mem_state, lock_correlation <- mem_correlation,
        park_workers <- mem_park, die_order <- mem_die,
        items <- mem_items, done <- mem_done

Locs == {"state", "correlation", "park", "die", "items", "done"}

Entries ==
    [loc : Locs, worker : Workers, release : BOOLEAN,
     val : {"WRITING", "FREE"} \cup Nat \cup BOOLEAN \cup Seq(Tasks)]

MemTypeOK == TypeOK /\ W!TypeOK /\ buffer \in Seq(Entries)

MemInit ==
    /\ Init
    /\ buffer = << >>
    /\ mem_state = lock_state /\ mem_correlation = lock_correlation
    /\ mem_park = park_workers /\ mem_die = die_order
    /\ mem_items = items /\ mem_done = done

-----------------------------------------------------------------------------
(* The stores of a step of the broker: to one field of the channel, to the elements
   the round robin deals a task, or to every element, its two fields in turn. *)
Store(loc, w, val) ==
    [loc |-> loc, worker |-> w, val |-> val, release |-> mpc = "unpark_flag"]

Stores ==
    CASE mpc = "fill" /\ mpc' = "correlation" ->
            [k \in 1 .. IF count' < WorkerCnt THEN count' ELSE WorkerCnt |->
                Store("items", k - 1, items'[k - 1])]
      [] mpc = "correlation" -> << Store("correlation", 0, lock_correlation') >>
      [] mpc \in {"free", "writing"} -> << Store("state", 0, lock_state') >>
      [] mpc \in {"unpark_flag", "kill_flag"} -> << Store("park", 0, park_workers') >>
      [] mpc = "kill_order" -> << Store("die", 0, die_order') >>
      [] mpc = "clear" ->
            [k \in 1 .. 2 * WorkerCnt |->
                LET w == (k - 1) \div 2
                IN  IF k = 2 * w + 1 THEN Store("items", w, items'[w])
                                     ELSE Store("done", w, done'[w])]
      [] OTHER -> << >>

(* unpark is a Release exchange on every machine; fetch_add is one with x86. *)
Exchange == mpc \in {"unpark", "kill_unpark"} \/ (mpc = "correlation" /\ ~Reordered)

BrokerStep ==
    /\ Broker
    /\ Exchange => buffer = << >>
    /\ buffer' = buffer \o Stores
    /\ UNCHANGED mem_vars

(* Stores to one location keep their order, and a Release store comes after all
   that were made before it. *)
Commits(k) ==
    /\ ~Reordered => k = 1
    /\ buffer[k].release => k = 1
    /\ \A j \in 1 .. k - 1 :
            buffer[j].loc # buffer[k].loc \/ buffer[j].worker # buffer[k].worker

Commit(k) ==
    LET s == buffer[k]
        At(loc, mem) == IF s.loc = loc THEN s.val ELSE mem
        AtElement(loc, mem) == IF s.loc = loc THEN [mem EXCEPT ![s.worker] = s.val] ELSE mem
    IN  /\ Commits(k)
        /\ buffer' = RemoveAt(buffer, k)
        /\ mem_state' = At("state", mem_state)
        /\ mem_correlation' = At("correlation", mem_correlation)
        /\ mem_park' = At("park", mem_park)
        /\ mem_die' = At("die", mem_die)
        /\ mem_items' = AtElement("items", mem_items)
        /\ mem_done' = AtElement("done", mem_done)
        /\ UNCHANGED vars

(* A worker acts on what is committed; the broker reads its done from there,
   unless a store of its own to it is pending. *)
Pending(loc, w) ==
    \E k \in DOMAIN buffer : buffer[k].loc = loc /\ buffer[k].worker = w

Reads(w) ==
    /\ done' = [v \in Workers |-> IF Pending("done", v) THEN done[v] ELSE mem_done'[v]]
    /\ UNCHANGED <<lock_state, lock_correlation, park_workers, die_order, items,
                   buffer>>

WorkerStep(w) == W!Worker(w) /\ Reads(w)

SpuriousStep(w) == W!SpuriousWakeup(w) /\ Reads(w)

MemNext ==
    \/ BrokerStep
    \/ \E k \in DOMAIN buffer : Commit(k)
    \/ \E w \in Workers : WorkerStep(w) \/ SpuriousStep(w)
    \/ mpc = "end" /\ UNCHANGED all_vars

MemSpec == MemInit /\ [][MemNext]_all_vars

(* Stores are committed sooner or later. *)
MemFairness ==
    /\ WF_all_vars(BrokerStep)
    /\ WF_all_vars(\E k \in DOMAIN buffer : Commit(k))
    /\ \A w \in Workers : WF_all_vars(WorkerStep(w))
MemFairSpec == MemSpec /\ MemFairness

-----------------------------------------------------------------------------
(* "Any out of order exection would not occur because the resolution window
   thread mutex'es with the main thread and is synched with this worker"
   (Worker::invoke): the slice a worker takes is the one the broker wrote for the
   batch, not what its element held before. *)
SliceIsFresh ==
    \A w \in Workers : wpc[w] = "returned" /\ ~mem_die => tasks[w] = items[w]
=============================================================================

-------------------------- MODULE LockStep_proofs --------------------------
(***************************************************************************)
(* Proofs about the lock-step channel, for any number of workers, element  *)
(* size and number of tasks: its state keeps its types, the broker never   *)
(* writes an element while a worker is inside one, the correlation         *)
(* assertion never fires, every panic is reported, every task of a batch   *)
(* that is drained was run exactly once, and the channel with its pool     *)
(* implements BatchExecutor.  Last, LockStepMemory: stores that are delayed *)
(* but committed in order do not give a worker a stale slice.              *)
(***************************************************************************)
EXTENDS LockStepMemory, SequenceTheorems, CommonFacts, TLAPS

-----------------------------------------------------------------------------
(* The inductive invariant *)

(* The batch is out and not all workers have finished with it. *)
Out == mpc \in {"unpark_flag", "unpark", "wait"}

Killing == mpc \in {"kill_flag", "kill_unpark", "join", "end"}

(* The two flags the broker alone writes follow its position. *)
FlagInv ==
    /\ lock_state = "FREE" <=> (Out \/ mpc = "writing")
    /\ die_order <=> Killing

(* Where a worker is tells how far it is with the current batch. *)
WorkerInv(w) ==
    /\ wpc[w] = "state_check" =>
            /\ mpc = "free" \/ Out
            /\ wcorr[w] + 1 = lock_correlation
            /\ ~done[w]
    /\ wpc[w] = "take" => Out /\ wcorr[w] + 1 = lock_correlation /\ ~done[w]
    /\ Touching(w) /\ wpc[w] # "take" =>
            Out /\ wcorr[w] = lock_correlation /\ ~done[w]
    /\ wpc[w] = "exited" => panicked \/ die_order
    /\ wpc[w] = "panic_flag" => panic # NoPanic
    /\ wpc[w] = "panic_done" => panicked

(* A worker is at most one batch behind, and only while that batch is out. *)
CorrInv(w) ==
    \/ wcorr[w] = lock_correlation
    \/ /\ wcorr[w] + 1 = lock_correlation
       /\ mpc = "free" \/ Out
       /\ ~done[w]

DoneInv(w) ==
    done[w] =>
        /\ Out \/ mpc \in {"writing", "clear"}
        /\ wcorr[w] = lock_correlation
        /\ wpc[w] \in {"park_check", "park", "die_check", "corr_check",
                       "exited"}

(* The reverse loop of execute has seen the elements above its index done. *)
WaitInv ==
    /\ mpc = "wait" => \A w \in Workers : w > mi => done[w]
    /\ mpc \in {"writing", "clear"} => \A w \in Workers : done[w]

PanicInv ==
    /\ mpc \in {"fill", "correlation", "free"} => ~panicked
    /\ panicked => panic # NoPanic \/ Killing \/ mpc = "kill_order"
    /\ panic # NoPanic => panicked \/ PanicHeld

IInv ==
    /\ TypeOK
    /\ FlagInv
    /\ \A w \in Workers : WorkerInv(w) /\ CorrInv(w) /\ DoneInv(w)
    /\ WaitInv
    /\ PanicInv

-----------------------------------------------------------------------------
(* Operators *)

(* Multiplication by a natural number is monotone. *)
LEMMA MultiplyMonotone ==
    ASSUME NEW a \in Nat, NEW b \in Nat, NEW c \in Nat, a <= b
    PROVE  c * a <= c * b
  <1>1. c * b - c * a = c * (b - a)
    OBVIOUS
  <1>2. b - a \in Nat
    OBVIOUS
  <1>3. c * (b - a) \in Nat
    BY <1>2
  <1> QED
    BY <1>1, <1>3

(* The round robin of process_buffer deals tasks of the batch only, and no
   more of them to one worker than its element holds. *)
LEMMA ShareFits ==
    ASSUME NEW w \in Workers, NEW n \in Nat, range_start \in Nat,
           n <= WorkerCnt * LOCK_STEP_ELEM_SIZE,
           range_start + n <= MaxTasks
    PROVE  /\ Share(w, n) \in Seq(Tasks)
           /\ Len(Share(w, n)) <= LOCK_STEP_ELEM_SIZE
  <1> DEFINE K == (n + WorkerCnt - 1 - w) \div WorkerCnt
  <1>1. /\ K \in Nat
        /\ WorkerCnt * K <= n + WorkerCnt - 1 - w
    BY WorkerCntAssumption DEF Workers
  <1>2. ASSUME NEW j \in 1 .. K
        PROVE  range_start + w + WorkerCnt * (j - 1) \in Tasks
    <2>1. j - 1 \in Nat /\ K - 1 \in Nat /\ j - 1 <= K - 1
      BY <1>1
    <2>2. WorkerCnt * (j - 1) <= WorkerCnt * (K - 1)
      BY <2>1, WorkerCntAssumption, MultiplyMonotone
    <2>3. WorkerCnt * (K - 1) = WorkerCnt * K - WorkerCnt
      BY <1>1, WorkerCntAssumption
    <2>4. WorkerCnt * (j - 1) \in Nat
      BY <2>1, WorkerCntAssumption
    <2> QED
      BY <1>1, <2>2, <2>3, <2>4, WorkerCntAssumption, MaxTasksAssumption
      DEF Workers, Tasks
  <1>3. Share(w, n) \in [1 .. K -> Tasks]
    BY <1>2 DEF Share
  <1>4. K <= LOCK_STEP_ELEM_SIZE
    <2> SUFFICES ASSUME LOCK_STEP_ELEM_SIZE + 1 <= K
                 PROVE  FALSE
      BY <1>1, ElemSizeAssumption
    <2>1. WorkerCnt * (LOCK_STEP_ELEM_SIZE + 1) <= WorkerCnt * K
      BY <1>1, WorkerCntAssumption, ElemSizeAssumption, MultiplyMonotone
    <2>2. WorkerCnt * (LOCK_STEP_ELEM_SIZE + 1)
            = WorkerCnt * LOCK_STEP_ELEM_SIZE + WorkerCnt
      BY WorkerCntAssumption, ElemSizeAssumption
    <2> QED
      BY <1>1, <2>1, <2>2, WorkerCntAssumption, ElemSizeAssumption
      DEF Workers
  <1> QED
    BY <1>1, <1>3, <1>4

-----------------------------------------------------------------------------
(* Types *)

LEMMA InitTypeOK == Init => TypeOK
  <1> SUFFICES ASSUME Init PROVE TypeOK
    OBVIOUS
  <1>1. << >> \in Seq(Tasks)
    OBVIOUS
  <1>2. items \in [Workers -> Seq(Tasks)] /\ tasks \in [Workers -> Seq(Tasks)]
    BY <1>1 DEF Init
  <1>3. mi \in Workers
    BY WorkerCntAssumption DEF Init, Workers
  <1>4. range_start \in 0 .. MaxTasks /\ count \in 0 .. MaxTasks - range_start
    BY MaxTasksAssumption DEF Init
  <1> QED
    BY <1>2, <1>3, <1>4 DEF Init, TypeOK, BrokerPcs, WorkerPcs

(* No step of the broker or of a worker leaves the types; the only step whose
   arithmetic is not immediate is the round robin. *)
LEMMA NextTypeOK == TypeOK /\ [Next]_vars => TypeOK'
  <1> SUFFICES ASSUME TypeOK, [Next]_vars
               PROVE  TypeOK'
    OBVIOUS
  <1> USE WorkerCntAssumption, ElemSizeAssumption, MaxTasksAssumption
      DEF BrokerPcs, WorkerPcs, Goto, chan_vars, broker_vars,
          worker_vars
  <1>1. ASSUME NEW n \in 1 .. WorkerCnt * LOCK_STEP_ELEM_SIZE, Fill(n)
        PROVE  TypeOK'
    <2>1. \A w \in Workers : Share(w, n) \in Seq(Tasks)
      BY <1>1, ShareFits DEF Fill, TypeOK
    <2>2. items' \in [Workers -> Seq(Tasks)]
      BY <1>1, <2>1 DEF Fill, TypeOK
    <2> QED
      BY <1>1, <2>2 DEF Fill, TypeOK
  <1>2. CASE BumpCorrelation
    BY <1>2 DEF BumpCorrelation, TypeOK
  <1>3. CASE FreeLock
    BY <1>3 DEF FreeLock, TypeOK
  <1>4. CASE ClearParkFlag
    <2>1. mi' \in Workers
      BY <1>4 DEF ClearParkFlag, Workers
    <2> QED
      BY <1>4, <2>1 DEF ClearParkFlag, TypeOK
  <1>5. CASE Unpark
    <2>1. /\ mi \in Workers
          /\ (mi + 1 < WorkerCnt /\ mi' = mi + 1) \/ mi' = WorkerCnt - 1
      BY <1>5 DEF Unpark, TypeOK
    <2>2. mi' \in Workers
      BY <2>1 DEF Workers
    <2>3. token' \in [Workers -> BOOLEAN]
      BY <1>5 DEF Unpark, TypeOK
    <2> QED
      BY <1>5, <2>2, <2>3 DEF Unpark, TypeOK
  <1>6. CASE AwaitDone
    <2>1. mi \in Workers /\ ((mi > 0 /\ mi' = mi - 1) \/ mi' = mi)
      BY <1>6 DEF AwaitDone, TypeOK
    <2>2. mi' \in Workers
      BY <2>1 DEF Workers
    <2> QED
      BY <1>6, <2>2 DEF AwaitDone, TypeOK
  <1>7. CASE CloseLock
    BY <1>7 DEF CloseLock, TypeOK
  <1>8. CASE Clear
    BY <1>8 DEF Clear, TypeOK
  <1>9. CASE TakePanic
    BY <1>9 DEF TakePanic, TypeOK
  <1>10. CASE Drain
    BY <1>10 DEF Drain, TypeOK
  <1>11. CASE Finish
    BY <1>11 DEF Finish, TypeOK
  <1>12. CASE KillOrder
    BY <1>12 DEF KillOrder, TypeOK
  <1>13. CASE KillFlag
    <2>1. mi' \in Workers
      BY <1>13 DEF KillFlag, Workers
    <2> QED
      BY <1>13, <2>1 DEF KillFlag, TypeOK
  <1>14. CASE KillUnpark
    <2>1. mi \in Workers /\ ((mi + 1 < WorkerCnt /\ mi' = mi + 1) \/ mi' = mi)
      BY <1>14 DEF KillUnpark, TypeOK
    <2>2. mi' \in Workers
      BY <2>1 DEF Workers
    <2>3. token' \in [Workers -> BOOLEAN]
      BY <1>14 DEF KillUnpark, TypeOK
    <2> QED
      BY <1>14, <2>2, <2>3 DEF KillUnpark, TypeOK
  <1>15. CASE Join
    BY <1>15 DEF Join, TypeOK
  <1>16. ASSUME NEW w \in Workers, Worker(w) \/ SpuriousWakeup(w)
        PROVE  TypeOK'
    <2> USE DEF Move
    <2>1. CASE ParkCheck(w)
      BY <2>1 DEF ParkCheck, TypeOK
    <2>2. CASE Park(w)
      BY <2>2 DEF Park, TypeOK
    <2>3. CASE DieCheck(w)
      BY <2>3 DEF DieCheck, TypeOK
    <2>4. CASE CorrCheck(w)
      BY <2>4 DEF CorrCheck, TypeOK
    <2>5. CASE StateCheck(w)
      BY <2>5 DEF StateCheck, TypeOK
    <2>6. CASE Take(w)
      BY <2>6 DEF Take, TypeOK
    <2>7. CASE Returned(w)
      BY <2>7 DEF Returned, TypeOK
    <2>8. CASE Invoke(w)
      BY <2>8 DEF Invoke, TypeOK
    <2>9. CASE InvokePanics(w)
      BY <2>9 DEF InvokePanics, TypeOK
    <2>10. CASE SliceEnds(w)
      BY <2>10 DEF SliceEnds, TypeOK
    <2>11. CASE Done(w)
      BY ZenonT(30), <2>11 DEF Done, TypeOK
    <2>12. CASE StorePayload(w)
      BY <2>12 DEF StorePayload, TypeOK
    <2>13. CASE PayloadPresent(w)
      BY <2>13 DEF PayloadPresent, TypeOK
    <2>14. CASE RaisePanicked(w)
      BY <2>14 DEF RaisePanicked, TypeOK
    <2>15. CASE SpuriousWakeup(w)
      BY <2>15 DEF SpuriousWakeup, TypeOK
    <2> QED
      BY <1>16, <2>1, <2>2, <2>3, <2>4, <2>5, <2>6, <2>7, <2>8, <2>9, <2>10,
         <2>11, <2>12, <2>13, <2>14, <2>15 DEF Worker
  <1>17. CASE UNCHANGED vars
    BY <1>17 DEF vars, TypeOK
  <1> QED
    BY <1>1, <1>2, <1>3, <1>4, <1>5, <1>6, <1>7, <1>8, <1>9, <1>10, <1>11,
       <1>12, <1>13, <1>14, <1>15, <1>16, <1>17
    DEF Next, Broker, AllEnded

-----------------------------------------------------------------------------
(* The invariant is inductive *)

LEMMA InitIInv == Init => IInv
  BY InitTypeOK, WorkerCntAssumption
  DEF Init, IInv, FlagInv, WorkerInv, CorrInv, DoneInv, WaitInv, PanicInv, Out,
      Killing, Touching, PanicHeld, NoPanic

(* The conjuncts every step has to preserve: the two flags and the panic
   bookkeeping, the three clauses about each worker, and what the wait loop
   has seen. *)
LEMMA NextIInv == IInv /\ [Next]_vars => IInv'
  <1> SUFFICES ASSUME IInv, [Next]_vars
               PROVE  IInv'
    OBVIOUS
  <1> USE DEF IInv, TypeOK, Out, Killing, Goto, chan_vars, broker_vars,
              worker_vars
  <1>1. TypeOK'
    BY NextTypeOK
  <1>2. ASSUME NEW n \in 1 .. WorkerCnt * LOCK_STEP_ELEM_SIZE, Fill(n)
        PROVE  IInv'
    <2>1. FlagInv' /\ PanicInv'
      BY <1>2 DEF Fill, FlagInv, PanicInv, PanicHeld
    <2>2. ASSUME NEW v \in Workers
          PROVE  (WorkerInv(v) /\ CorrInv(v) /\ DoneInv(v))'
      BY <1>2 DEF Fill, WorkerInv, CorrInv, DoneInv, Touching
    <2>3. WaitInv'
      BY <1>2 DEF Fill, WaitInv
    <2> QED
      BY <1>1, <2>1, <2>2, <2>3
  <1>3. CASE BumpCorrelation
    <2>1. FlagInv' /\ PanicInv'
      BY <1>3 DEF BumpCorrelation, FlagInv, PanicInv, PanicHeld
    <2>2. ASSUME NEW v \in Workers
          PROVE  (WorkerInv(v) /\ CorrInv(v) /\ DoneInv(v))'
      BY <1>3 DEF BumpCorrelation, WorkerInv, CorrInv, DoneInv, Touching
    <2>3. WaitInv'
      BY <1>3 DEF BumpCorrelation, WaitInv
    <2> QED
      BY <1>1, <2>1, <2>2, <2>3
  <1>4. CASE FreeLock
    <2>1. FlagInv' /\ PanicInv'
      BY <1>4 DEF FreeLock, FlagInv, PanicInv, PanicHeld
    <2>2. ASSUME NEW v \in Workers
          PROVE  (WorkerInv(v) /\ CorrInv(v) /\ DoneInv(v))'
      BY <1>4 DEF FreeLock, WorkerInv, CorrInv, DoneInv, Touching
    <2>3. WaitInv'
      BY <1>4 DEF FreeLock, WaitInv
    <2> QED
      BY <1>1, <2>1, <2>2, <2>3
  <1>5. CASE ClearParkFlag
    <2>1. FlagInv' /\ PanicInv'
      BY <1>5 DEF ClearParkFlag, FlagInv, PanicInv, PanicHeld
    <2>2. ASSUME NEW v \in Workers
          PROVE  (WorkerInv(v) /\ CorrInv(v) /\ DoneInv(v))'
      BY <1>5 DEF ClearParkFlag, WorkerInv, CorrInv, DoneInv, Touching
    <2>3. WaitInv'
      BY <1>5 DEF ClearParkFlag, WaitInv
    <2> QED
      BY <1>1, <2>1, <2>2, <2>3
  <1>6. CASE Unpark
    <2>1. FlagInv' /\ PanicInv'
      BY <1>6 DEF Unpark, FlagInv, PanicInv, PanicHeld
    <2>2. ASSUME NEW v \in Workers
          PROVE  (WorkerInv(v) /\ CorrInv(v) /\ DoneInv(v))'
      BY <1>6 DEF Unpark, WorkerInv, CorrInv, DoneInv, Touching
    <2>3. WaitInv'
      <3>1. mpc' = "wait" => mi' = WorkerCnt - 1
        BY <1>6 DEF Unpark
      <3>2. mpc' \in {"unpark", "wait"}
        BY <1>6 DEF Unpark
      <3>3. \A v \in Workers : ~(v > WorkerCnt - 1)
        BY WorkerCntAssumption DEF Workers
      <3> QED
        BY <3>1, <3>2, <3>3 DEF WaitInv
    <2> QED
      BY <1>1, <2>1, <2>2, <2>3
  <1>7. CASE AwaitDone
    <2>1. \/ mi > 0 /\ mi' = mi - 1 /\ mpc' = "wait"
          \/ mi = 0 /\ mpc' = "writing"
      BY <1>7 DEF AwaitDone, Workers
    <2>2. FlagInv' /\ PanicInv'
      BY <1>7, <2>1 DEF AwaitDone, FlagInv, PanicInv, PanicHeld
    <2>3. /\ \A v \in Workers : v > mi => done[v]
          /\ done[mi] /\ UNCHANGED done
      BY <1>7 DEF AwaitDone, WaitInv
    <2>4. ASSUME mi > 0, NEW v \in Workers, v > mi - 1
          PROVE  v > mi \/ v = mi
      BY <2>4 DEF Workers
    <2>5. ASSUME mi = 0, NEW v \in Workers
          PROVE  v > mi \/ v = mi
      BY <2>5 DEF Workers
    <2>6. WaitInv'
      BY <2>1, <2>3, <2>4, <2>5 DEF WaitInv
    <2>7. ASSUME NEW v \in Workers
          PROVE  (WorkerInv(v) /\ CorrInv(v) /\ DoneInv(v))'
      <3>1. mi = 0 => done[v]
        BY <2>3, <2>5
      <3> QED
        BY <1>7, <2>1, <3>1 DEF AwaitDone, WorkerInv, CorrInv, DoneInv,
           Touching
    <2> QED
      BY <1>1, <2>2, <2>6, <2>7
  <1>8. CASE CloseLock
    <2>1. FlagInv' /\ PanicInv'
      BY <1>8 DEF CloseLock, FlagInv, PanicInv, PanicHeld
    <2>2. ASSUME NEW v \in Workers
          PROVE  (WorkerInv(v) /\ CorrInv(v) /\ DoneInv(v))'
      BY <1>8 DEF CloseLock, WorkerInv, CorrInv, DoneInv, Touching
    <2>3. WaitInv'
      BY <1>8 DEF CloseLock, WaitInv
    <2> QED
      BY <1>1, <2>1, <2>2, <2>3
  <1>9. CASE Clear
    <2>1. FlagInv' /\ PanicInv'
      BY <1>9 DEF Clear, FlagInv, PanicInv, PanicHeld
    <2>2. ASSUME NEW v \in Workers
          PROVE  (WorkerInv(v) /\ CorrInv(v) /\ DoneInv(v))'
      BY <1>9 DEF Clear, WorkerInv, CorrInv, DoneInv, Touching
    <2>3. WaitInv'
      BY <1>9 DEF Clear, WaitInv
    <2> QED
      BY <1>1, <2>1, <2>2, <2>3
  <1>10. CASE TakePanic
    <2>1. FlagInv' /\ PanicInv'
      BY <1>10 DEF TakePanic, FlagInv, PanicInv
    <2>2. ASSUME NEW v \in Workers
          PROVE  (WorkerInv(v) /\ CorrInv(v) /\ DoneInv(v))'
      BY <1>10 DEF TakePanic, WorkerInv, CorrInv, DoneInv, Touching
    <2>3. WaitInv'
      BY <1>10 DEF TakePanic, WaitInv
    <2> QED
      BY <1>1, <2>1, <2>2, <2>3
  <1>11. CASE Drain
    <2>1. FlagInv' /\ PanicInv'
      BY <1>11 DEF Drain, FlagInv, PanicInv, PanicHeld
    <2>2. ASSUME NEW v \in Workers
          PROVE  (WorkerInv(v) /\ CorrInv(v) /\ DoneInv(v))'
      BY <1>11 DEF Drain, WorkerInv, CorrInv, DoneInv, Touching
    <2>3. WaitInv'
      BY <1>11 DEF Drain, WaitInv
    <2> QED
      BY <1>1, <2>1, <2>2, <2>3
  <1>12. CASE Finish
    <2>1. FlagInv' /\ PanicInv'
      BY <1>12 DEF Finish, FlagInv, PanicInv, PanicHeld
    <2>2. ASSUME NEW v \in Workers
          PROVE  (WorkerInv(v) /\ CorrInv(v) /\ DoneInv(v))'
      BY <1>12 DEF Finish, WorkerInv, CorrInv, DoneInv, Touching
    <2>3. WaitInv'
      BY <1>12 DEF Finish, WaitInv
    <2> QED
      BY <1>1, <2>1, <2>2, <2>3
  <1>13. CASE KillOrder
    <2>1. FlagInv' /\ PanicInv'
      BY <1>13 DEF KillOrder, FlagInv, PanicInv, PanicHeld
    <2>2. ASSUME NEW v \in Workers
          PROVE  (WorkerInv(v) /\ CorrInv(v) /\ DoneInv(v))'
      BY <1>13 DEF KillOrder, WorkerInv, CorrInv, DoneInv, Touching
    <2>3. WaitInv'
      BY <1>13 DEF KillOrder, WaitInv
    <2> QED
      BY <1>1, <2>1, <2>2, <2>3
  <1>14. CASE KillFlag
    <2>1. FlagInv' /\ PanicInv'
      BY <1>14 DEF KillFlag, FlagInv, PanicInv, PanicHeld
    <2>2. ASSUME NEW v \in Workers
          PROVE  (WorkerInv(v) /\ CorrInv(v) /\ DoneInv(v))'
      BY <1>14 DEF KillFlag, WorkerInv, CorrInv, DoneInv, Touching
    <2>3. WaitInv'
      BY <1>14 DEF KillFlag, WaitInv
    <2> QED
      BY <1>1, <2>1, <2>2, <2>3
  <1>15. CASE KillUnpark
    <2>1. FlagInv' /\ PanicInv'
      BY <1>15 DEF KillUnpark, FlagInv, PanicInv, PanicHeld
    <2>2. ASSUME NEW v \in Workers
          PROVE  (WorkerInv(v) /\ CorrInv(v) /\ DoneInv(v))'
      BY <1>15 DEF KillUnpark, WorkerInv, CorrInv, DoneInv, Touching
    <2>3. WaitInv'
      BY <1>15 DEF KillUnpark, WaitInv
    <2> QED
      BY <1>1, <2>1, <2>2, <2>3
  <1>16. CASE Join
    <2>1. FlagInv' /\ PanicInv'
      BY <1>16 DEF Join, FlagInv, PanicInv, PanicHeld
    <2>2. ASSUME NEW v \in Workers
          PROVE  (WorkerInv(v) /\ CorrInv(v) /\ DoneInv(v))'
      BY <1>16 DEF Join, WorkerInv, CorrInv, DoneInv, Touching
    <2>3. WaitInv'
      BY <1>16 DEF Join, WaitInv
    <2> QED
      BY <1>1, <2>1, <2>2, <2>3
  <1>17. ASSUME NEW w \in Workers, Worker(w) \/ SpuriousWakeup(w)
        PROVE  IInv'
    <2> USE DEF Move
    <2>1. CASE ParkCheck(w)
      <3>1. FlagInv' /\ WaitInv'
        BY <2>1 DEF ParkCheck, FlagInv, WaitInv
      <3>2. ASSUME NEW v \in Workers
            PROVE  (WorkerInv(v) /\ CorrInv(v) /\ DoneInv(v))'
        BY <2>1 DEF ParkCheck, WorkerInv, CorrInv, DoneInv, Touching
      <3>3. PanicInv'
        BY <2>1 DEF ParkCheck, PanicInv, PanicHeld
      <3> QED
        BY <1>1, <3>1, <3>2, <3>3
    <2>2. CASE Park(w)
      <3>1. FlagInv' /\ WaitInv'
        BY <2>2 DEF Park, FlagInv, WaitInv
      <3>2. ASSUME NEW v \in Workers
            PROVE  (WorkerInv(v) /\ CorrInv(v) /\ DoneInv(v))'
        BY <2>2 DEF Park, WorkerInv, CorrInv, DoneInv, Touching
      <3>3. PanicInv'
        BY <2>2 DEF Park, PanicInv, PanicHeld
      <3> QED
        BY <1>1, <3>1, <3>2, <3>3
    <2>3. CASE DieCheck(w)
      <3>1. FlagInv' /\ WaitInv'
        BY <2>3 DEF DieCheck, FlagInv, WaitInv
      <3>2. ASSUME NEW v \in Workers
            PROVE  (WorkerInv(v) /\ CorrInv(v) /\ DoneInv(v))'
        BY <2>3 DEF DieCheck, WorkerInv, CorrInv, DoneInv, FlagInv, Touching
      <3>3. PanicInv'
        BY <2>3 DEF DieCheck, PanicInv, PanicHeld
      <3> QED
        BY <1>1, <3>1, <3>2, <3>3
    <2>4. CASE CorrCheck(w)
      <3>1. FlagInv' /\ WaitInv'
        BY <2>4 DEF CorrCheck, FlagInv, WaitInv
      <3>2. ASSUME NEW v \in Workers
            PROVE  (WorkerInv(v) /\ CorrInv(v) /\ DoneInv(v))'
        BY <2>4 DEF CorrCheck, WorkerInv, CorrInv, DoneInv, Touching
      <3>3. PanicInv'
        BY <2>4 DEF CorrCheck, PanicInv, PanicHeld
      <3> QED
        BY <1>1, <3>1, <3>2, <3>3
    <2>5. CASE StateCheck(w)
      <3>1. FlagInv' /\ WaitInv'
        BY <2>5 DEF StateCheck, FlagInv, WaitInv
      <3>2. ASSUME NEW v \in Workers
            PROVE  (WorkerInv(v) /\ CorrInv(v) /\ DoneInv(v))'
        BY <2>5 DEF StateCheck, WorkerInv, CorrInv, DoneInv, FlagInv, Touching
      <3>3. PanicInv'
        BY <2>5 DEF StateCheck, PanicInv, PanicHeld
      <3> QED
        BY <1>1, <3>1, <3>2, <3>3
    <2>6. CASE Take(w)
      <3>1. FlagInv' /\ WaitInv'
        BY <2>6 DEF Take, FlagInv, WaitInv
      <3>2. ASSUME NEW v \in Workers
            PROVE  (WorkerInv(v) /\ CorrInv(v) /\ DoneInv(v))'
        BY <2>6 DEF Take, WorkerInv, CorrInv, DoneInv, Touching
      <3>3. PanicInv'
        BY <2>6 DEF Take, PanicInv, PanicHeld
      <3> QED
        BY <1>1, <3>1, <3>2, <3>3
    <2>7. CASE Returned(w)
      <3>1. FlagInv' /\ WaitInv'
        BY <2>7 DEF Returned, FlagInv, WaitInv
      <3>2. ASSUME NEW v \in Workers
            PROVE  (WorkerInv(v) /\ CorrInv(v) /\ DoneInv(v))'
        BY <2>7 DEF Returned, WorkerInv, CorrInv, DoneInv, Touching
      <3>3. PanicInv'
        BY <2>7 DEF Returned, PanicInv, PanicHeld
      <3> QED
        BY <1>1, <3>1, <3>2, <3>3
    <2>8. CASE Invoke(w)
      <3>1. FlagInv' /\ WaitInv'
        BY <2>8 DEF Invoke, FlagInv, WaitInv
      <3>2. ASSUME NEW v \in Workers
            PROVE  (WorkerInv(v) /\ CorrInv(v) /\ DoneInv(v))'
        BY <2>8 DEF Invoke, WorkerInv, CorrInv, DoneInv, Touching
      <3>3. PanicInv'
        BY <2>8 DEF Invoke, PanicInv, PanicHeld
      <3> QED
        BY <1>1, <3>1, <3>2, <3>3
    <2>9. CASE InvokePanics(w)
      <3>1. FlagInv' /\ WaitInv'
        BY <2>9 DEF InvokePanics, FlagInv, WaitInv
      <3>2. ASSUME NEW v \in Workers
            PROVE  (WorkerInv(v) /\ CorrInv(v) /\ DoneInv(v))'
        BY <2>9 DEF InvokePanics, WorkerInv, CorrInv, DoneInv, Touching
      <3>3. PanicInv'
        BY <2>9 DEF InvokePanics, PanicInv, PanicHeld
      <3> QED
        BY <1>1, <3>1, <3>2, <3>3
    <2>10. CASE SliceEnds(w)
      <3>1. FlagInv' /\ WaitInv'
        BY <2>10 DEF SliceEnds, FlagInv, WaitInv
      <3>2. ASSUME NEW v \in Workers
            PROVE  (WorkerInv(v) /\ CorrInv(v) /\ DoneInv(v))'
        BY <2>10 DEF SliceEnds, WorkerInv, CorrInv, DoneInv, Touching
      <3>3. PanicInv'
        BY <2>10 DEF SliceEnds, PanicInv, PanicHeld
      <3> QED
        BY <1>1, <3>1, <3>2, <3>3
    <2>11. CASE Done(w)
      <3>1. FlagInv' /\ WaitInv'
        BY <2>11 DEF Done, FlagInv, WaitInv
      <3>2. ASSUME NEW v \in Workers
            PROVE  (WorkerInv(v) /\ CorrInv(v) /\ DoneInv(v))'
        BY <2>11 DEF Done, WorkerInv, CorrInv, DoneInv, Touching
      <3>3. PanicInv'
        BY <2>11 DEF Done, PanicInv, PanicHeld
      <3> QED
        BY <1>1, <3>1, <3>2, <3>3
    <2>12. CASE StorePayload(w)
      <3>1. FlagInv' /\ WaitInv'
        BY <2>12 DEF StorePayload, FlagInv, WaitInv
      <3>4. w # NoPanic
        BY DEF Workers, NoPanic
      <3>2. ASSUME NEW v \in Workers
            PROVE  (WorkerInv(v) /\ CorrInv(v) /\ DoneInv(v))'
        BY <2>12, <3>4 DEF StorePayload, WorkerInv, CorrInv, DoneInv, Touching
      <3>3. PanicInv'
        BY <2>12, <3>4 DEF StorePayload, PanicInv, PanicHeld
      <3> QED
        BY <1>1, <3>1, <3>2, <3>3
    <2>13. CASE PayloadPresent(w)
      <3>1. FlagInv' /\ WaitInv'
        BY <2>13 DEF PayloadPresent, FlagInv, WaitInv
      <3>2. ASSUME NEW v \in Workers
            PROVE  (WorkerInv(v) /\ CorrInv(v) /\ DoneInv(v))'
        BY <2>13 DEF PayloadPresent, WorkerInv, CorrInv, DoneInv, PanicInv,
           Touching
      <3>3. PanicInv'
        BY <2>13 DEF PayloadPresent, PanicInv
      <3> QED
        BY <1>1, <3>1, <3>2, <3>3
    <2>14. CASE RaisePanicked(w)
      <3>1. FlagInv' /\ WaitInv'
        BY <2>14 DEF RaisePanicked, FlagInv, WaitInv
      <3>2. ASSUME NEW v \in Workers
            PROVE  (WorkerInv(v) /\ CorrInv(v) /\ DoneInv(v))'
        BY <2>14 DEF RaisePanicked, WorkerInv, CorrInv, DoneInv, Touching
      <3>4. panic # NoPanic
        BY <2>14 DEF RaisePanicked, WorkerInv
      <3>3. PanicInv'
        BY <2>14, <3>4 DEF RaisePanicked, PanicInv, WorkerInv, Touching
      <3> QED
        BY <1>1, <3>1, <3>2, <3>3
    <2>15. CASE SpuriousWakeup(w)
      <3>1. FlagInv' /\ WaitInv'
        BY <2>15 DEF SpuriousWakeup, FlagInv, WaitInv
      <3>2. ASSUME NEW v \in Workers
            PROVE  (WorkerInv(v) /\ CorrInv(v) /\ DoneInv(v))'
        BY <2>15 DEF SpuriousWakeup, WorkerInv, CorrInv, DoneInv, Touching
      <3>3. PanicInv'
        BY <2>15 DEF SpuriousWakeup, PanicInv, PanicHeld
      <3> QED
        BY <1>1, <3>1, <3>2, <3>3
    <2> QED
      BY <1>17, <2>1, <2>2, <2>3, <2>4, <2>5, <2>6, <2>7, <2>8, <2>9, <2>10,
         <2>11, <2>12, <2>13, <2>14, <2>15 DEF Worker
  <1>18. CASE UNCHANGED vars
    <2>1. FlagInv' /\ PanicInv'
      BY <1>18 DEF vars, FlagInv, PanicInv, PanicHeld
    <2>2. ASSUME NEW v \in Workers
          PROVE  (WorkerInv(v) /\ CorrInv(v) /\ DoneInv(v))'
      BY <1>18 DEF vars, WorkerInv, CorrInv, DoneInv, Touching
    <2>3. WaitInv'
      BY <1>18 DEF vars, WaitInv
    <2> QED
      BY <1>1, <2>1, <2>2, <2>3
  <1> QED
    BY <1>1, <1>2, <1>3, <1>4, <1>5, <1>6, <1>7, <1>8, <1>9, <1>10, <1>11,
       <1>12, <1>13, <1>14, <1>15, <1>16, <1>17, <1>18 DEF Next, Broker,
       AllEnded

-----------------------------------------------------------------------------
(* Theorems *)

LEMMA Invariance == Spec => []IInv
  <1> QED
    BY InitIInv, NextIInv, PTL DEF Spec

(* Every variable of the channel, the broker and the workers keeps its type;
   in particular the round robin of process_buffer deals existing tasks only,
   and the loops over the pool never leave it. *)
THEOREM TypeCorrect == Spec => []TypeOK
  <1>1. IInv => TypeOK
    BY DEF IInv
  <1> QED
    BY <1>1, Invariance, PTL

(* The broker writes the elements, in process_buffer and in clear, only while
   no worker reads or writes one. *)
THEOREM ExclusionHolds == Spec => []DataExclusion
  <1>1. IInv => DataExclusion
    BY DEF IInv, DataExclusion, WorkerInv, Out, Touching
  <1> QED
    BY <1>1, Invariance, PTL

(* The assertion on the correlation at the end of wait_for_tasks never
   fires. *)
THEOREM NoCorrelationMismatch == Spec => []CorrelationHolds
  <1>1. IInv => CorrelationHolds
    BY DEF IInv, CorrelationHolds, WorkerInv
  <1> QED
    BY <1>1, Invariance, PTL

(* When the broker asks get_panic about a batch, the flag is raised if any
   worker has died, and the payload it unwraps is there. *)
THEOREM PanicsReported == Spec => []PanicReported
  <1>1. IInv => PanicReported
    BY DEF IInv, PanicReported, FlagInv, WorkerInv, PanicInv, Killing
  <1> QED
    BY <1>1, Invariance, PTL

(* Only get_panic takes a stored payload away, and no step replaces it. *)
THEOREM FirstPanicStays == Spec => FirstPanicWins
  <1>1. [Next]_vars => [panic # NoPanic => panic' = panic \/ TakePanic]_vars
    <2> SUFFICES ASSUME Next
                 PROVE  panic # NoPanic => panic' = panic \/ TakePanic
      OBVIOUS
    <2> USE DEF chan_vars, broker_vars, worker_vars
    <2>1. CASE Broker
      BY <2>1 DEF Broker, Fill, BumpCorrelation, FreeLock, ClearParkFlag,
         Unpark, AwaitDone, CloseLock, Clear, Drain, Finish, KillOrder,
         KillFlag, KillUnpark, Join
    <2>2. ASSUME NEW w \in Workers, Worker(w) \/ SpuriousWakeup(w)
          PROVE  panic # NoPanic => panic' = panic
      BY <2>2 DEF Worker, SpuriousWakeup, ParkCheck, Park, DieCheck, CorrCheck,
         StateCheck, Take, Returned, Invoke, InvokePanics, SliceEnds, Done,
         StorePayload, PayloadPresent, RaisePanicked
    <2>3. CASE AllEnded
      BY <2>3 DEF AllEnded, vars
    <2> QED
      BY <2>1, <2>2, <2>3 DEF Next
  <1> QED
    BY <1>1, PTL DEF Spec, FirstPanicWins

-----------------------------------------------------------------------------
(* The round robin *)

(* The worker process_buffer deals a task of the batch to. *)
Owner(t) == (t - range_start) % WorkerCnt

InBatch(t) == range_start <= t /\ t < range_start + count

(* The remainder of a sum whose one part is a multiple. *)
LEMMA RemainderOfSum ==
    ASSUME NEW b \in Nat, b # 0, NEW q \in Nat, NEW r \in 0 .. b - 1
    PROVE  (b * q + r) % b = r
  BY SMT

(* A function on an initial segment is a sequence. *)
LEMMA SegmentIsSequence ==
    ASSUME NEW S, NEW n \in Nat, NEW s \in [1 .. n -> S]
    PROVE  Len(s) = n
  OBVIOUS

(* The round robin deals a task to its owner, in order, and leaves none out. *)
LEMMA ShareIsOwned ==
    ASSUME NEW w \in Workers, range_start \in Nat, count \in Nat
    PROVE  /\ Len(Share(w, count)) \in Nat
           /\ \A j \in 1 .. Len(Share(w, count)) :
                /\ Share(w, count)[j] \in Nat
                /\ InBatch(Share(w, count)[j])
                /\ Owner(Share(w, count)[j]) = w
           /\ \A j, k \in 1 .. Len(Share(w, count)) :
                j < k => Share(w, count)[j] < Share(w, count)[k]
           /\ \A t \in Nat : InBatch(t) /\ Owner(t) = w =>
                \E j \in 1 .. Len(Share(w, count)) : Share(w, count)[j] = t
  <1> DEFINE K == (count + WorkerCnt - 1 - w) \div WorkerCnt
             f(j) == range_start + w + WorkerCnt * (j - 1)
  <1>0. /\ WorkerCnt \in Nat /\ WorkerCnt # 0 /\ w \in 0 .. WorkerCnt - 1
        /\ count + WorkerCnt - 1 - w \in Nat
    BY WorkerCntAssumption DEF Workers
  <1>1. K \in Nat /\ K * WorkerCnt <= count + WorkerCnt - 1 - w
    BY <1>0, Quotient
  <1>2. Share(w, count) = [j \in 1 .. K |-> f(j)]
    BY DEF Share
  <1>3. Len(Share(w, count)) = K /\ \A j \in 1 .. K : Share(w, count)[j] = f(j)
    <2> HIDE DEF K, f
    <2>1. \A j \in 1 .. K : Share(w, count)[j] = f(j)
      BY <1>2
    <2>2. DOMAIN Share(w, count) = 1 .. K /\ Share(w, count) \in [1 .. K -> {f(j) : j \in 1 .. K}]
      BY <1>2
    <2>3. Len(Share(w, count)) = K
      BY <1>1, <2>2, SegmentIsSequence
    <2> QED
      BY <2>1, <2>3
  <1> HIDE DEF K
  <1>4. ASSUME NEW j \in 1 .. K
        PROVE  f(j) \in Nat /\ InBatch(f(j)) /\ Owner(f(j)) = w
    <2>1. j - 1 \in Nat /\ j - 1 <= K - 1 /\ K - 1 \in Int
      BY <1>1
    <2>2. (j - 1) * WorkerCnt <= (K - 1) * WorkerCnt
      BY <1>0, <2>1, TimesMonotone
    <2>3. (K - 1) * WorkerCnt = K * WorkerCnt - WorkerCnt
      BY <1>0, <1>1
    <2>4. WorkerCnt * (j - 1) = (j - 1) * WorkerCnt /\ WorkerCnt * (j - 1) \in Nat
      BY <1>0, <2>1
    <2>5. f(j) \in Nat /\ InBatch(f(j))
      BY <1>0, <1>1, <2>2, <2>3, <2>4 DEF InBatch
    <2>6. f(j) - range_start = WorkerCnt * (j - 1) + w
      BY <1>0, <2>4
    <2>7. (WorkerCnt * (j - 1) + w) % WorkerCnt = w
      BY <1>0, <2>1, RemainderOfSum
    <2> QED
      BY <2>5, <2>6, <2>7 DEF Owner
  <1>5. ASSUME NEW j \in 1 .. K, NEW k \in 1 .. K, j < k
        PROVE  f(j) < f(k)
    <2>1. j \in Int /\ k - 1 \in Int /\ j <= k - 1
      BY <1>1, <1>5
    <2>2. j * WorkerCnt <= (k - 1) * WorkerCnt
      BY <1>0, <2>1, TimesMonotone
    <2>3. /\ WorkerCnt * (j - 1) = j * WorkerCnt - WorkerCnt
          /\ WorkerCnt * (k - 1) = (k - 1) * WorkerCnt
          /\ j * WorkerCnt \in Int /\ (k - 1) * WorkerCnt \in Int
      BY <1>0, <2>1
    <2> QED
      BY <1>0, <2>2, <2>3
  <1>6. ASSUME NEW t \in Nat, InBatch(t), Owner(t) = w
        PROVE  \E j \in 1 .. K : f(j) = t
    <2> DEFINE d == (t - range_start) \div WorkerCnt
    <2>1. t - range_start \in Nat /\ t - range_start < count
      BY <1>6 DEF InBatch
    <2>2. d \in Nat /\ t - range_start = (d * WorkerCnt) + w
      BY <1>0, <1>6, <2>1, Division DEF Owner
    <2> HIDE DEF d
    <2>3. d < K
      <3> SUFFICES ASSUME K <= d PROVE FALSE
        BY <1>1, <2>2
      <3>1. K * WorkerCnt <= d * WorkerCnt
        BY <1>0, <1>1, <2>2, TimesMonotone
      <3>2. count + WorkerCnt - 1 - w < (K + 1) * WorkerCnt
        <4>1. count + WorkerCnt - 1 - w = ((K * WorkerCnt) + ((count + WorkerCnt - 1 - w) % WorkerCnt))
              /\ (count + WorkerCnt - 1 - w) % WorkerCnt \in 0 .. WorkerCnt - 1
          BY <1>0, Division DEF K
        <4>2. (K + 1) * WorkerCnt = K * WorkerCnt + WorkerCnt /\ K * WorkerCnt \in Nat
          BY <1>0, <1>1
        <4> QED
          BY <1>0, <4>1, <4>2
      <3>3. (K + 1) * WorkerCnt = K * WorkerCnt + WorkerCnt /\ K * WorkerCnt \in Nat
            /\ d * WorkerCnt \in Nat
        BY <1>0, <1>1, <2>2
      <3> QED
        BY <1>0, <2>1, <2>2, <3>1, <3>2, <3>3
    <2>4. d + 1 \in 1 .. K
      BY <1>1, <2>2, <2>3
    <2>5. f(d + 1) = t
      <3>1. WorkerCnt * (d + 1 - 1) = d * WorkerCnt /\ d * WorkerCnt \in Nat
        BY <1>0, <2>2
      <3> QED
        BY <1>0, <2>2, <3>1
    <2> QED
      BY <2>4, <2>5
  <1> HIDE DEF f
  <1> QED
    BY <1>1, <1>3, <1>4, <1>5, <1>6

(* Every task of the batch has an owner in the pool. *)
LEMMA OwnerIsWorker ==
    ASSUME NEW t \in Nat, InBatch(t), range_start \in Nat
    PROVE  Owner(t) \in Workers
  <1>1. t - range_start \in Nat /\ WorkerCnt \in Nat /\ WorkerCnt # 0
    BY WorkerCntAssumption DEF InBatch
  <1>2. (t - range_start) % WorkerCnt \in 0 .. WorkerCnt - 1
    BY <1>1, Division
  <1> QED
    BY <1>2 DEF Owner, Workers

-----------------------------------------------------------------------------
(* The inductive invariant *)

PanicPcs == {"panic", "panic_flag", "panic_done", "exited"}

Inside(w) == wpc[w] \in {"returned", "run"}

(* The batch is numbered and not yet drained. *)
Active == mpc \in {"free", "unpark_flag", "unpark", "wait", "writing", "clear", "get_panic"}

(* No worker can be at the new number before the lock is freed. *)
CountInv ==
    /\ mpc = "fill" => count = 0
    /\ mpc = "correlation" \/ Active => count >= 1
    /\ mpc = "free" => \A w \in Workers : wcorr[w] + 1 = lock_correlation

(* The elements hold the batch, and nothing between batches. *)
ItemsInv ==
    \A w \in Workers :
        items[w] = IF mpc = "correlation" \/ (Active /\ mpc # "get_panic")
                   THEN Share(w, count) ELSE << >>

(* What was drained was run once, and nothing beyond the batch was run. *)
PastInv ==
    \A t \in Tasks : /\ t < range_start => runs[t] = 1
                     /\ t >= range_start + count => runs[t] = 0

(* A worker has run none of its tasks before it takes them, and then all but those
   left in its slice, unless it panicked. *)
BatchInv(w) ==
    \A t \in Tasks : InBatch(t) /\ Owner(t) = w =>
        /\ mpc = "correlation" => runs[t] = 0
        /\ Active /\ wcorr[w] + 1 = lock_correlation => runs[t] = 0
        /\ Active /\ wcorr[w] = lock_correlation /\ wpc[w] \notin PanicPcs =>
                runs[t] = IF Inside(w) /\ \E k \in 1 .. Len(tasks[w]) : tasks[w][k] = t
                          THEN 0 ELSE 1

(* The slice of a worker holds tasks of its own, none of them twice. *)
SliceInv(w) ==
    Active /\ Inside(w) =>
        /\ \A k \in 1 .. Len(tasks[w]) : InBatch(tasks[w][k]) /\ Owner(tasks[w][k]) = w
        /\ \A j, k \in 1 .. Len(tasks[w]) : j < k => tasks[w][j] < tasks[w][k]

TInv ==
    /\ CountInv /\ ItemsInv /\ PastInv
    /\ \A w \in Workers : BatchInv(w) /\ SliceInv(w)

LEMMA InitTInv == Init => TInv
  BY DEF Init, TInv, CountInv, ItemsInv, PastInv, BatchInv, SliceInv, Active, Tasks

(* Types the steps need. *)
LEMMA TypeFacts ==
    ASSUME IInv
    PROVE  /\ range_start \in Nat /\ count \in Nat /\ lock_correlation \in Nat
           /\ range_start + count <= MaxTasks /\ Tasks \subseteq Nat
           /\ items \in [Workers -> Seq(Tasks)] /\ tasks \in [Workers -> Seq(Tasks)]
           /\ wcorr \in [Workers -> Nat] /\ wpc \in [Workers -> WorkerPcs]
           /\ runs \in [Tasks -> Nat]
  BY MaxTasksAssumption DEF IInv, TypeOK, Tasks

-----------------------------------------------------------------------------
(* Steps of the broker *)

(* Once a batch is closed, a worker that is not dying has run all of its tasks. *)
LEMMA ClosedBatchRan ==
    ASSUME IInv, TInv, mpc \in {"writing", "clear", "get_panic"},
           \A w \in Workers : wpc[w] \notin PanicPcs,
           NEW t \in Tasks, InBatch(t)
    PROVE  runs[t] = 1
  <1> DEFINE w == Owner(t)
  <1>1. w \in Workers
    BY TypeFacts, OwnerIsWorker
  <1>2. /\ Active /\ mpc \notin {"free", "unpark_flag", "unpark", "wait"} /\ ~die_order
        /\ wpc[w] \notin PanicPcs
    BY <1>1 DEF Active, IInv, FlagInv, Killing
  <1>3. wcorr[w] = lock_correlation
    BY <1>1, <1>2 DEF IInv, CorrInv, Out
  <1>4. ~Inside(w)
    BY <1>1, <1>2 DEF IInv, WorkerInv, Touching, Inside, Out
  <1> HIDE DEF w
  <1>5. Owner(t) = w
    BY DEF w
  <1> QED
    BY <1>1, <1>2, <1>3, <1>4, <1>5 DEF TInv, BatchInv

(* Steps between the release of a batch and the end of execute touch no task. *)
LEMMA ReleasedFrame ==
    ASSUME TInv, Active, mpc # "get_panic",
           mpc' \in {"unpark_flag", "unpark", "wait", "writing", "clear"},
           UNCHANGED <<items, range_start, count, lock_correlation, wpc, wcorr, tasks, runs>>
    PROVE  TInv'
  BY DEF TInv, CountInv, ItemsInv, PastInv, BatchInv, SliceInv, Active, Inside,
     InBatch, Owner, Share

(* Nor do the steps after the last batch. *)
LEMMA KillingFrame ==
    ASSUME TInv, mpc \in {"fill", "get_panic", "kill_order", "kill_flag", "kill_unpark", "join"},
           mpc' \in {"kill_order", "kill_flag", "kill_unpark", "join", "end"},
           UNCHANGED <<items, range_start, count, lock_correlation, wpc, wcorr, tasks, runs>>
    PROVE  TInv'
  BY DEF TInv, CountInv, ItemsInv, PastInv, BatchInv, SliceInv, Active, Inside,
     InBatch, Owner, Share

(* No worker is inside an element while the broker fills or numbers a batch. *)
LEMMA NobodyInside ==
    ASSUME IInv, mpc \in {"fill", "correlation", "free"}, NEW w \in Workers
    PROVE  ~Inside(w) /\ wcorr[w] \in Nat
           /\ (mpc \in {"fill", "correlation"} => wcorr[w] = lock_correlation)
  <1>1. ~die_order
    BY DEF IInv, FlagInv, Killing
  <1> QED
    BY <1>1, TypeFacts DEF IInv, WorkerInv, CorrInv, Touching, Inside, Out

LEMMA FillTInv ==
    ASSUME IInv, TInv, NEW n \in 1 .. WorkerCnt * LOCK_STEP_ELEM_SIZE, Fill(n)
    PROVE  TInv'
  <1>0. /\ mpc = "fill" /\ mpc' = "correlation" /\ count = 0 /\ count' = n /\ n \in Nat /\ n >= 1
        /\ UNCHANGED <<range_start, lock_correlation, wpc, wcorr, tasks, runs>>
        /\ items' = [w \in Workers |-> items[w] \o Share(w, n)]
    BY WorkerCntAssumption, ElemSizeAssumption DEF Fill, Goto, worker_vars, TInv, CountInv
  <1>1. CountInv'
    BY <1>0 DEF CountInv, Active
  <1>2. ItemsInv'
    <2> SUFFICES ASSUME NEW w \in Workers PROVE items'[w] = Share(w, n)
      BY <1>0 DEF ItemsInv, Share
    <2>1. items[w] = << >>
      BY <1>0 DEF TInv, ItemsInv, Active
    <2>2. Share(w, n) \in Seq(Tasks)
      BY <1>0, TypeFacts, ShareFits DEF Fill
    <2> QED
      BY <1>0, <2>1, <2>2
  <1>3. PastInv'
    BY <1>0, TypeFacts DEF TInv, PastInv
  <1>4. \A w \in Workers : BatchInv(w)' /\ SliceInv(w)'
    BY <1>0, TypeFacts DEF TInv, PastInv, BatchInv, SliceInv, Active, InBatch
  <1> QED
    BY <1>1, <1>2, <1>3, <1>4 DEF TInv

LEMMA BumpTInv == IInv /\ TInv /\ BumpCorrelation => TInv'
  <1> SUFFICES ASSUME IInv, TInv, BumpCorrelation PROVE TInv'
    OBVIOUS
  <1>0. /\ mpc = "correlation" /\ mpc' = "free" /\ lock_correlation' = lock_correlation + 1
        /\ UNCHANGED <<items, range_start, count, wpc, wcorr, tasks, runs>>
        /\ lock_correlation \in Nat
    BY TypeFacts DEF BumpCorrelation, Goto, worker_vars
  <1>1. \A w \in Workers : ~Inside(w)' /\ wcorr'[w] + 1 = lock_correlation' /\ wcorr'[w] # lock_correlation'
    BY <1>0, NobodyInside DEF Inside
  <1>2. CountInv' /\ ItemsInv' /\ PastInv'
    BY <1>0, <1>1 DEF TInv, CountInv, ItemsInv, PastInv, Active, Share
  <1>3. \A w \in Workers : BatchInv(w)' /\ SliceInv(w)'
    BY <1>0, <1>1 DEF TInv, BatchInv, SliceInv, InBatch, Owner
  <1> QED
    BY <1>2, <1>3 DEF TInv

LEMMA ClearTInv == IInv /\ TInv /\ Clear => TInv'
  BY DEF TInv, CountInv, ItemsInv, PastInv, BatchInv, SliceInv, Active, Inside,
     InBatch, Owner, Clear, Goto, worker_vars

(* When get_panic sees no flag, nobody died in the batch. *)
LEMMA NobodyDied ==
    ASSUME IInv, mpc = "get_panic", ~panicked, NEW w \in Workers
    PROVE  wpc[w] \notin PanicPcs
  <1>1. ~die_order
    BY DEF IInv, FlagInv, Killing
  <1> QED
    BY <1>1 DEF IInv, WorkerInv, Touching, PanicPcs, Out

LEMMA DrainTInv == IInv /\ TInv /\ Drain => TInv'
  <1> SUFFICES ASSUME IInv, TInv, Drain PROVE TInv'
    OBVIOUS
  <1>0. /\ mpc = "get_panic" /\ mpc' = "fill" /\ ~panicked
        /\ range_start' = range_start + count /\ count' = 0
        /\ UNCHANGED <<items, lock_correlation, wpc, wcorr, tasks, runs>>
    BY DEF Drain, Goto, chan_vars, worker_vars
  <1>1. \A t \in Tasks : InBatch(t) => runs[t] = 1
    BY <1>0, NobodyDied, ClosedBatchRan
  <1>2. PastInv'
    BY <1>0, <1>1, TypeFacts DEF TInv, PastInv, InBatch
  <1>3. CountInv' /\ ItemsInv' /\ \A w \in Workers : BatchInv(w)' /\ SliceInv(w)'
    BY <1>0 DEF TInv, CountInv, ItemsInv, BatchInv, SliceInv, Active
  <1> QED
    BY <1>2, <1>3 DEF TInv

LEMMA BrokerTInv == IInv /\ TInv /\ Broker => TInv'
  <1> SUFFICES ASSUME IInv, TInv, Broker PROVE TInv'
    OBVIOUS
  <1> USE DEF Goto, chan_vars, broker_vars, worker_vars
  <1>1. CASE FreeLock \/ ClearParkFlag \/ Unpark \/ AwaitDone \/ CloseLock
    <2>1. /\ Active /\ mpc # "get_panic"
          /\ mpc' \in {"unpark_flag", "unpark", "wait", "writing", "clear"}
          /\ UNCHANGED <<items, range_start, count, lock_correlation, wpc, wcorr, tasks, runs>>
      BY <1>1 DEF FreeLock, ClearParkFlag, Unpark, AwaitDone, CloseLock, Active
    <2> QED
      BY <2>1, ReleasedFrame
  <1>2. CASE TakePanic \/ Finish \/ KillOrder \/ KillFlag \/ KillUnpark \/ Join
    <2>1. /\ mpc \in {"fill", "get_panic", "kill_order", "kill_flag", "kill_unpark", "join"}
          /\ mpc' \in {"kill_order", "kill_flag", "kill_unpark", "join", "end"}
          /\ UNCHANGED <<items, range_start, count, lock_correlation, wpc, wcorr, tasks, runs>>
      BY <1>2 DEF TakePanic, Finish, KillOrder, KillFlag, KillUnpark, Join
    <2> QED
      BY <2>1, KillingFrame
  <1> QED
    BY <1>1, <1>2, FillTInv, BumpTInv, ClearTInv, DrainTInv DEF Broker

-----------------------------------------------------------------------------
(* Steps of a worker *)

(* What a step of worker w that leaves the channel as it is preserves for free. *)
LEMMA OtherWorkers ==
    ASSUME IInv, TInv, NEW w \in Workers,
           UNCHANGED <<mpc, items, range_start, count, lock_correlation>>,
           \A v \in Workers : v # w =>
                wpc'[v] = wpc[v] /\ wcorr'[v] = wcorr[v] /\ tasks'[v] = tasks[v],
           \A t \in Tasks : runs'[t] # runs[t] => InBatch(t) /\ Owner(t) = w
    PROVE  /\ ItemsInv' /\ PastInv'
           /\ \A v \in Workers : v # w => BatchInv(v)' /\ SliceInv(v)'
  <1>1. ItemsInv'
    BY DEF TInv, ItemsInv, Active, Share
  <1>2. PastInv'
    <2> SUFFICES ASSUME NEW t \in Tasks
                 PROVE  /\ t < range_start => runs'[t] = 1
                        /\ t >= range_start + count => runs'[t] = 0
      BY DEF PastInv
    <2>1. CASE runs'[t] = runs[t]
      BY <2>1 DEF TInv, PastInv
    <2>2. CASE runs'[t] # runs[t]
      <3>1. range_start <= t /\ t < range_start + count
        BY <2>2 DEF InBatch
      <3> QED
        BY <3>1, TypeFacts
    <2> QED
      BY <2>1, <2>2
  <1>3. ASSUME NEW v \in Workers, v # w
        PROVE  BatchInv(v)' /\ SliceInv(v)'
    <2>1. \A t \in Tasks : InBatch(t) /\ Owner(t) = v => runs'[t] = runs[t]
      BY <1>3
    <2> QED
      BY <1>3, <2>1 DEF TInv, BatchInv, SliceInv, Active, Inside, InBatch, Owner
  <1> QED
    BY <1>1, <1>2, <1>3

(* A step of a worker that neither takes nor runs a task, and does not leave its
   slice unless it dies. *)
LEMMA QuietWorker ==
    ASSUME IInv, TInv, NEW w \in Workers,
           UNCHANGED <<mpc, items, range_start, count, lock_correlation, wcorr, runs>>,
           \A v \in Workers : v # w => wpc'[v] = wpc[v] /\ tasks'[v] = tasks[v],
           \/ wpc'[w] \in PanicPcs
           \/ /\ wpc[w] \notin PanicPcs /\ tasks'[w] = tasks[w]
              /\ Active => (Inside(w) <=> Inside(w)')
    PROVE  TInv'
  <1>1. /\ ItemsInv' /\ PastInv'
        /\ \A v \in Workers : v # w => BatchInv(v)' /\ SliceInv(v)'
    BY OtherWorkers
  <1>2. CountInv'
    BY DEF TInv, CountInv, Active
  <1>3. BatchInv(w)' /\ SliceInv(w)'
    <2>1. CASE wpc'[w] \in PanicPcs
      BY <2>1 DEF TInv, BatchInv, SliceInv, Active, Inside, InBatch, Owner, PanicPcs
    <2>2. CASE /\ wpc[w] \notin PanicPcs /\ tasks'[w] = tasks[w]
               /\ Active => (Inside(w) <=> Inside(w)')
      BY <2>2 DEF TInv, BatchInv, SliceInv, Active, InBatch, Owner
    <2> QED
      BY <2>1, <2>2
  <1> QED
    BY <1>1, <1>2, <1>3 DEF TInv

(* The end of wait_for_tasks: the worker's slice is its share of the batch. *)
LEMMA TakeTInv == ASSUME IInv, TInv, NEW w \in Workers, Take(w) PROVE TInv'
  <1>0. /\ UNCHANGED <<mpc, items, range_start, count, lock_correlation, runs>>
        /\ wpc[w] = "take" /\ wcorr[w] + 1 = lock_correlation
        /\ mpc \in {"unpark_flag", "unpark", "wait"}
    BY DEF Take, Move, chan_vars, broker_vars, IInv, WorkerInv, Out
  <1>1. /\ wpc' = [wpc EXCEPT ![w] = "returned"]
        /\ wcorr' = [wcorr EXCEPT ![w] = @ + 1]
        /\ tasks' = [tasks EXCEPT ![w] = items[w]]
    BY <1>0 DEF Take, Move
  <1>2. /\ wpc'[w] = "returned" /\ wcorr'[w] = lock_correlation
        /\ tasks'[w] = Share(w, count)
        /\ \A v \in Workers : v # w =>
                wpc'[v] = wpc[v] /\ wcorr'[v] = wcorr[v] /\ tasks'[v] = tasks[v]
    BY <1>0, <1>1, TypeFacts DEF TInv, ItemsInv, Active
  <1>3. /\ ItemsInv' /\ PastInv'
        /\ \A v \in Workers : v # w => BatchInv(v)' /\ SliceInv(v)'
    BY <1>0, <1>2, OtherWorkers
  <1>4. CountInv'
    BY <1>0 DEF TInv, CountInv, Active
  <1>5. SliceInv(w)'
    BY <1>0, <1>2, TypeFacts, ShareIsOwned DEF SliceInv, InBatch, Owner
  <1>6. BatchInv(w)'
    <2> SUFFICES ASSUME NEW t \in Tasks, InBatch(t), Owner(t) = w
                 PROVE  /\ runs[t] = 0
                        /\ \E k \in 1 .. Len(tasks'[w]) : tasks'[w][k] = t
      BY <1>0, <1>2, TypeFacts DEF BatchInv, InBatch, Owner, Inside
    <2>1. runs[t] = 0
      BY <1>0 DEF TInv, BatchInv, Active
    <2>2. \E k \in 1 .. Len(Share(w, count)) : Share(w, count)[k] = t
      BY TypeFacts, ShareIsOwned
    <2> QED
      BY <1>2, <2>1, <2>2
  <1> QED
    BY <1>3, <1>4, <1>5, <1>6 DEF TInv

(* A worker that is inside its slice does so while the batch is out. *)
LEMMA RunningWorker ==
    ASSUME IInv, NEW w \in Workers, wpc[w] = "run"
    PROVE  /\ mpc \in {"unpark_flag", "unpark", "wait"} /\ Active
           /\ wcorr[w] = lock_correlation /\ Inside(w)
  BY DEF IInv, WorkerInv, Touching, Out, Active, Inside

LEMMA InvokeTInv == ASSUME IInv, TInv, NEW w \in Workers, Invoke(w) PROVE TInv'
  <1> DEFINE h == Head(tasks[w])
  <1>0. /\ UNCHANGED <<mpc, items, range_start, count, lock_correlation, wpc, wcorr>>
        /\ wpc[w] = "run" /\ tasks[w] # << >>
        /\ runs' = [runs EXCEPT ![h] = @ + 1]
        /\ tasks' = [tasks EXCEPT ![w] = Tail(tasks[w])]
    BY DEF Invoke, chan_vars, broker_vars
  <1>1. /\ mpc \in {"unpark_flag", "unpark", "wait"} /\ Active
        /\ wcorr[w] = lock_correlation /\ Inside(w)
    BY <1>0, RunningWorker
  <1>2. /\ tasks[w] \in Seq(Tasks) /\ runs \in [Tasks -> Nat] /\ Tasks \subseteq Nat
        /\ tasks'[w] = Tail(tasks[w])
        /\ \A v \in Workers : v # w => tasks'[v] = tasks[v]
    BY <1>0, TypeFacts
  <1>3. /\ h \in Tasks /\ h = tasks[w][1] /\ 1 \in 1 .. Len(tasks[w])
        /\ Len(tasks'[w]) = Len(tasks[w]) - 1
        /\ \A k \in 1 .. Len(tasks'[w]) :
              k + 1 \in 1 .. Len(tasks[w]) /\ tasks'[w][k] = tasks[w][k + 1]
        /\ Len(tasks[w]) \in Nat
    <2> DEFINE s == tasks[w]
    <2>1. s \in Seq(Tasks) /\ s # << >> /\ tasks'[w] = Tail(s) /\ h = Head(s)
      BY <1>0, <1>2
    <2> HIDE DEF s
    <2>2. /\ Head(s) \in Tasks /\ Head(s) = s[1] /\ 1 \in 1 .. Len(s)
          /\ Len(Tail(s)) = Len(s) - 1 /\ Len(s) \in Nat
          /\ \A k \in 1 .. Len(Tail(s)) : k + 1 \in 1 .. Len(s) /\ Tail(s)[k] = s[k + 1]
      BY <2>1, TailByPosition
    <2>3. s = tasks[w]
      BY DEF s
    <2> HIDE DEF h
    <2> QED
      BY <2>1, <2>2, <2>3
  <1>4. InBatch(h) /\ Owner(h) = w
    BY <1>1, <1>3 DEF TInv, SliceInv
  <1>5. runs[h] = 0
    BY <1>1, <1>3, <1>4, <1>0 DEF TInv, BatchInv, PanicPcs
  <1>6. runs'[h] = 1 /\ \A t \in Tasks : t # h => runs'[t] = runs[t]
    BY <1>0, <1>2, <1>3, <1>5
  <1> HIDE DEF h
  <1>7. /\ ItemsInv' /\ PastInv'
        /\ \A v \in Workers : v # w => BatchInv(v)' /\ SliceInv(v)'
    BY <1>0, <1>2, <1>4, <1>6, OtherWorkers
  <1>8. CountInv'
    BY <1>0 DEF TInv, CountInv, Active
  <1>9. SliceInv(w)'
    <2>1. /\ \A k \in 1 .. Len(tasks[w]) : InBatch(tasks[w][k]) /\ Owner(tasks[w][k]) = w
          /\ \A j, k \in 1 .. Len(tasks[w]) : j < k => tasks[w][j] < tasks[w][k]
      BY <1>1 DEF TInv, SliceInv
    <2> QED
      BY <1>0, <1>3, <2>1 DEF SliceInv, InBatch, Owner
  <1>10. BatchInv(w)'
    <2> SUFFICES ASSUME NEW t \in Tasks, InBatch(t), Owner(t) = w
                 PROVE  runs'[t] = IF \E k \in 1 .. Len(tasks'[w]) : tasks'[w][k] = t
                                   THEN 0 ELSE 1
      BY <1>0, <1>1, TypeFacts DEF BatchInv, InBatch, Owner, Inside
    <2>1. runs[t] = IF \E k \in 1 .. Len(tasks[w]) : tasks[w][k] = t THEN 0 ELSE 1
      BY <1>0, <1>1 DEF TInv, BatchInv, PanicPcs
    <2>2. CASE t = h
      <3>1. ASSUME NEW k \in 1 .. Len(tasks'[w]) PROVE tasks'[w][k] # h
        <4>1. tasks[w][1] < tasks[w][k + 1]
          BY <1>1, <1>3 DEF TInv, SliceInv
        <4>2. tasks'[w][k] = tasks[w][k + 1] /\ h = tasks[w][1] /\ h \in Nat
          BY <1>2, <1>3
        <4> QED
          BY <4>1, <4>2
      <3> QED
        BY <1>6, <2>2, <3>1
    <2>3. CASE t # h
      <3>1. \A k \in 1 .. Len(tasks[w]) : k # 1 =>
                k - 1 \in 1 .. Len(tasks'[w]) /\ tasks'[w][k - 1] = tasks[w][k]
        BY <1>3
      <3>2. ASSUME NEW k \in 1 .. Len(tasks'[w]), tasks'[w][k] = t
            PROVE  \E l \in 1 .. Len(tasks[w]) : tasks[w][l] = t
        BY <1>3, <3>2
      <3>3. ASSUME NEW k \in 1 .. Len(tasks[w]), tasks[w][k] = t
            PROVE  \E l \in 1 .. Len(tasks'[w]) : tasks'[w][l] = t
        <4>1. k # 1
          BY <1>3, <2>3, <3>3
        <4> QED
          BY <3>1, <3>3, <4>1
      <3> QED
        BY <1>6, <2>1, <2>3, <3>2, <3>3
    <2> QED
      BY <2>2, <2>3
  <1> QED
    BY <1>7, <1>8, <1>9, <1>10 DEF TInv

LEMMA SliceEndsTInv == ASSUME IInv, TInv, NEW w \in Workers, SliceEnds(w) PROVE TInv'
  <1>0. /\ UNCHANGED <<mpc, items, range_start, count, lock_correlation, wcorr, tasks, runs>>
        /\ wpc[w] = "run" /\ tasks[w] = << >> /\ wpc' = [wpc EXCEPT ![w] = "done"]
    BY DEF SliceEnds, Move, chan_vars, broker_vars
  <1>1. wpc'[w] = "done" /\ \A v \in Workers : v # w => wpc'[v] = wpc[v]
    BY <1>0, TypeFacts
  <1>2. /\ ItemsInv' /\ PastInv'
        /\ \A v \in Workers : v # w => BatchInv(v)' /\ SliceInv(v)'
    BY <1>0, <1>1, OtherWorkers
  <1>3. CountInv'
    BY <1>0 DEF TInv, CountInv, Active
  <1>4. BatchInv(w)' /\ SliceInv(w)'
    BY <1>0, <1>1, RunningWorker
    DEF TInv, BatchInv, SliceInv, Active, Inside, InBatch, Owner, PanicPcs
  <1> QED
    BY <1>2, <1>3, <1>4 DEF TInv

LEMMA WorkerTInv ==
    ASSUME IInv, TInv, NEW w \in Workers, Worker(w) \/ SpuriousWakeup(w)
    PROVE  TInv'
  <1> USE DEF Move, chan_vars, broker_vars
  <1>1. CASE ParkCheck(w) \/ Park(w) \/ SpuriousWakeup(w) \/ CorrCheck(w) \/ StateCheck(w)
    <2>1. /\ UNCHANGED <<mpc, items, range_start, count, lock_correlation, wcorr, runs, tasks>>
          /\ wpc[w] \notin PanicPcs /\ ~Inside(w) /\ ~Inside(w)'
          /\ \A v \in Workers : v # w => wpc'[v] = wpc[v]
      BY <1>1, TypeFacts DEF ParkCheck, Park, SpuriousWakeup, CorrCheck, StateCheck,
         Inside, PanicPcs
    <2> QED
      BY <2>1, QuietWorker
  <1>2. CASE DieCheck(w)
    <2>1. Active => ~die_order
      BY DEF IInv, FlagInv, Killing, Active
    <2>2. /\ UNCHANGED <<mpc, items, range_start, count, lock_correlation, wcorr, runs, tasks>>
          /\ wpc[w] \notin PanicPcs /\ ~Inside(w) /\ (Active => ~Inside(w)')
          /\ \A v \in Workers : v # w => wpc'[v] = wpc[v]
      BY <1>2, <2>1, TypeFacts DEF DieCheck, Inside, PanicPcs
    <2> QED
      BY <2>2, QuietWorker
  <1>3. CASE Returned(w)
    <2>1. Active => ~die_order
      BY DEF IInv, FlagInv, Killing, Active
    <2>2. /\ UNCHANGED <<mpc, items, range_start, count, lock_correlation, wcorr, runs, tasks>>
          /\ wpc[w] \notin PanicPcs /\ Inside(w) /\ (Active => Inside(w)')
          /\ \A v \in Workers : v # w => wpc'[v] = wpc[v]
      BY <1>3, <2>1, TypeFacts DEF Returned, Inside, PanicPcs
    <2> QED
      BY <2>2, QuietWorker
  <1>4. CASE InvokePanics(w) \/ StorePayload(w) \/ PayloadPresent(w) \/ RaisePanicked(w)
    <2>1. /\ UNCHANGED <<mpc, items, range_start, count, lock_correlation, wcorr, runs>>
          /\ wpc'[w] \in PanicPcs
          /\ \A v \in Workers : v # w => wpc'[v] = wpc[v] /\ tasks'[v] = tasks[v]
      BY <1>4, TypeFacts DEF InvokePanics, StorePayload, PayloadPresent, RaisePanicked, PanicPcs
    <2> QED
      BY <2>1, QuietWorker
  <1>5. CASE Done(w)
    <2>1. /\ UNCHANGED <<mpc, items, range_start, count, lock_correlation, wcorr, runs, tasks>>
          /\ wpc'[w] \in PanicPcs \/ (wpc[w] \notin PanicPcs /\ ~Inside(w) /\ ~Inside(w)')
          /\ \A v \in Workers : v # w => wpc'[v] = wpc[v]
      BY <1>5, TypeFacts DEF Done, PanicPcs, Inside
    <2> QED
      BY <2>1, QuietWorker
  <1> QED
    BY <1>1, <1>2, <1>3, <1>4, <1>5, TakeTInv, InvokeTInv, SliceEndsTInv DEF Worker

LEMMA NextTInv == IInv /\ TInv /\ [Next]_vars => TInv'
  <1> SUFFICES ASSUME IInv, TInv, [Next]_vars PROVE TInv'
    OBVIOUS
  <1>1. CASE UNCHANGED vars
    BY <1>1 DEF vars, chan_vars, broker_vars, worker_vars, TInv, CountInv, ItemsInv,
       PastInv, BatchInv, SliceInv, Active, Inside, InBatch, Owner, Share
  <1> QED
    BY <1>1, BrokerTInv, WorkerTInv DEF Next, AllEnded

LEMMA BatchInvariance == Spec => [](IInv /\ TInv)
  <1>1. Init => IInv /\ TInv
    BY InitIInv, InitTInv
  <1>2. IInv /\ TInv /\ [Next]_vars => (IInv /\ TInv)'
    BY NextIInv, NextTInv
  <1> QED
    BY <1>1, <1>2, PTL DEF Spec

-----------------------------------------------------------------------------
(* Theorems *)

(* Pushes find the elements empty and add no more than a share. *)
LEMMA NextFit == IInv /\ TInv /\ ElementsFit /\ [Next]_vars => ElementsFit'
  <1> SUFFICES ASSUME IInv, TInv, ElementsFit, [Next]_vars PROVE ElementsFit'
    OBVIOUS
  <1>1. ASSUME NEW n \in 1 .. WorkerCnt * LOCK_STEP_ELEM_SIZE, Fill(n)
        PROVE  ElementsFit'
    <2> SUFFICES ASSUME NEW w \in Workers PROVE Len(items'[w]) <= LOCK_STEP_ELEM_SIZE
      BY DEF ElementsFit
    <2>1. /\ range_start \in Nat /\ n \in Nat /\ n <= WorkerCnt * LOCK_STEP_ELEM_SIZE
          /\ range_start + n <= MaxTasks
          /\ items' = [v \in Workers |-> items[v] \o Share(v, n)]
      BY <1>1, TypeFacts, WorkerCntAssumption, ElemSizeAssumption DEF Fill
    <2>2. items[w] = << >>
      BY <1>1 DEF Fill, TInv, ItemsInv, Active
    <2>3. Share(w, n) \in Seq(Tasks) /\ Len(Share(w, n)) <= LOCK_STEP_ELEM_SIZE
      BY <2>1, ShareFits
    <2>4. items'[w] = Share(w, n)
      BY <2>1, <2>2, <2>3
    <2> QED
      BY <2>3, <2>4
  <1>2. CASE Clear
    BY <1>2, ElemSizeAssumption DEF Clear, ElementsFit
  <1>3. CASE UNCHANGED items
    BY <1>3 DEF ElementsFit
  <1>4. Broker => \/ \E n \in 1 .. WorkerCnt * LOCK_STEP_ELEM_SIZE : Fill(n)
                  \/ Clear \/ UNCHANGED items
    BY DEF Broker, BumpCorrelation, FreeLock, ClearParkFlag, Unpark, AwaitDone, CloseLock,
       TakePanic, Drain, Finish, KillOrder, KillFlag, KillUnpark, Join, chan_vars
  <1>5. ASSUME NEW w \in Workers, Worker(w)
        PROVE  UNCHANGED items
    BY <1>5 DEF Worker, ParkCheck, Park, SpuriousWakeup, DieCheck, CorrCheck, StateCheck, Take,
       Returned, Invoke, InvokePanics, SliceEnds, Done, StorePayload, PayloadPresent,
       RaisePanicked, chan_vars
  <1>6. CASE \E w \in Workers : SpuriousWakeup(w)
    BY <1>3, <1>6 DEF SpuriousWakeup, chan_vars
  <1>7. CASE UNCHANGED vars
    BY <1>3, <1>7 DEF vars, chan_vars
  <1> QED
    BY <1>1, <1>2, <1>3, <1>4, <1>5, <1>6, <1>7 DEF Next, AllEnded

(* LockStepElement::push never indexes past its array of LOCK_STEP_ELEM_SIZE: whatever
   batches are dealt, no element holds more. *)
THEOREM PushesInBounds == Spec => []ElementsFit
  <1>1. Init => ElementsFit
    BY ElemSizeAssumption DEF Init, ElementsFit
  <1> QED
    BY <1>1, NextFit, BatchInvariance, PTL DEF Spec

(* When process_buffer drains a batch after get_panic found nothing, every task
   handed out so far was run exactly once, and none beyond. *)
THEOREM DrainedTasksRanOnce == Spec => []DrainedTasksRan
  <1>1. IInv /\ TInv => DrainedTasksRan
    <2> SUFFICES ASSUME IInv, TInv, mpc = "get_panic", ~panicked, NEW t \in Tasks
                 PROVE  runs[t] = IF t < range_start + count THEN 1 ELSE 0
      BY DEF DrainedTasksRan
    <2>1. t \in Nat /\ range_start \in Nat /\ count \in Nat
      BY TypeFacts
    <2>2. CASE InBatch(t)
      <3>1. runs[t] = 1
        BY <2>2, NobodyDied, ClosedBatchRan
      <3> QED
        BY <2>2, <3>1 DEF InBatch
    <2>3. CASE ~InBatch(t)
      BY <2>1, <2>3 DEF TInv, PastInv, InBatch
    <2> QED
      BY <2>2, <2>3
  <1> QED
    BY <1>1, BatchInvariance, PTL

-----------------------------------------------------------------------------
(* The refinement: a batch that is released maps to the abstract batch, a task that
   was run to the abstract ran, and every other step to a stutter. *)

(* A batch out of the broker's hands is not empty, and the pool is not stopped. *)
LEMMA ReleasedBatch ==
    ASSUME IInv, TInv, mpc \in {"free", "unpark_flag", "unpark", "wait", "writing"}
    PROVE  /\ range_start \in Tasks /\ InBatch(range_start)
           /\ range_start + count - 1 \in Tasks
           /\ ~die_order
  <1>1. count >= 1
    BY DEF TInv, CountInv, Active
  <1>2. ~die_order
    BY DEF IInv, FlagInv, Killing
  <1> QED
    BY <1>1, <1>2, TypeFacts, MaxTasksAssumption DEF Tasks, InBatch

(* The task a running worker is about to run is in the batch and was not run. *)
LEMMA SliceHead ==
    ASSUME IInv, TInv, NEW w \in Workers, wpc[w] = "run", tasks[w] # << >>
    PROVE  Head(tasks[w]) \in Tasks /\ InBatch(Head(tasks[w])) /\ runs[Head(tasks[w])] = 0
  <1> DEFINE s == tasks[w]
  <1>1. s \in Seq(Tasks) /\ s # << >>
    BY TypeFacts
  <1> HIDE DEF s
  <1>2. Head(s) \in Tasks /\ Head(s) = s[1] /\ 1 \in 1 .. Len(s)
    BY <1>1
  <1>3. s = tasks[w]
    BY DEF s
  <1>4. Active /\ Inside(w) /\ wcorr[w] = lock_correlation /\ wpc[w] \notin PanicPcs
    BY RunningWorker DEF PanicPcs
  <1>5. InBatch(s[1]) /\ Owner(s[1]) = w
    BY <1>2, <1>3, <1>4 DEF TInv, SliceInv
  <1>6. runs[s[1]] = 0
    BY <1>2, <1>3, <1>4, <1>5 DEF TInv, BatchInv
  <1> QED
    BY <1>2, <1>3, <1>5, <1>6

(* FreeLock releases the batch: its tasks are the first that did not run. *)
LEMMA FreeLockReleases ==
    ASSUME IInv, TInv, FreeLock
    PROVE  \E last \in BE!Tasks : BE!Release(last)
  <1>1. /\ mpc = "free" /\ mpc' = "unpark_flag"
        /\ UNCHANGED <<range_start, count, runs, panicked, wpc>>
    BY DEF FreeLock, Goto, worker_vars
  <1>2. ASSUME NEW t \in Tasks
        PROVE  (t \notin {u \in Tasks : runs[u] > 0} /\ t <= range_start + count - 1)
                 <=> (range_start <= t /\ t < range_start + count)
    <2>1. t < range_start => runs[t] = 1
      BY DEF TInv, PastInv
    <2>2. InBatch(t) => runs[t] = 0
      <3> SUFFICES ASSUME InBatch(t) PROVE runs[t] = 0
        OBVIOUS
      <3>1. Owner(t) \in Workers
        BY TypeFacts, OwnerIsWorker
      <3>2. wcorr[Owner(t)] + 1 = lock_correlation
        BY <1>1, <3>1 DEF TInv, CountInv
      <3> QED
        BY <1>1, <3>1, <3>2 DEF TInv, BatchInv, Active
    <2> QED
      BY <2>1, <2>2, TypeFacts DEF InBatch
  <1>3. {t \in Tasks : t \notin {u \in Tasks : runs[u] > 0} /\ t <= range_start + count - 1}
          = {t \in Tasks : range_start <= t /\ t < range_start + count}
    BY <1>2
  <1>4. {t \in Tasks : range_start <= t /\ t < range_start + count} # {}
    BY <1>1, ReleasedBatch DEF InBatch
  <1>5. ~panicked /\ \A w \in Workers : wpc[w] \notin {"panic", "panic_flag", "panic_done"}
    BY <1>1 DEF IInv, PanicInv, WorkerInv, Touching, Out
  <1>6. PICK last \in Tasks : last = range_start + count - 1
    BY <1>1, ReleasedBatch
  <1>7. BE!Release(last)
    BY <1>1, <1>3, <1>4, <1>5, <1>6 DEF BE!Release, BE!Tasks, Tasks, Released
  <1> QED
    BY <1>7 DEF BE!Tasks, Tasks

(* execute closes the batch when all of it ran, or somebody died. *)
LEMMA CloseLockCloses ==
    ASSUME IInv, TInv, CloseLock
    PROVE  BE!Close
  <1>1. /\ mpc = "writing" /\ mpc' = "clear"
        /\ UNCHANGED <<range_start, count, runs, panicked, wpc>>
    BY DEF CloseLock, Goto, worker_vars
  <1>2. range_start \in {t \in Tasks : range_start <= t /\ t < range_start + count}
    BY <1>1, ReleasedBatch DEF InBatch
  <1>3. \/ {t \in Tasks : range_start <= t /\ t < range_start + count}
             \subseteq {t \in Tasks : runs[t] > 0}
        \/ panicked \/ \E w \in Workers : wpc[w] \in {"panic", "panic_flag", "panic_done"}
    <2>1. CASE \A w \in Workers : wpc[w] \notin PanicPcs
      <3>1. \A t \in Tasks : InBatch(t) => runs[t] = 1
        BY <1>1, <2>1, ClosedBatchRan
      <3> QED
        BY <3>1, TypeFacts DEF InBatch
    <2>2. ASSUME NEW w \in Workers, wpc[w] \in PanicPcs
          PROVE  panicked \/ wpc[w] \in {"panic", "panic_flag", "panic_done"}
      BY <1>1, <2>2, ReleasedBatch DEF IInv, WorkerInv, PanicPcs
    <2> QED
      BY <2>1, <2>2
  <1> QED
    BY <1>1, <1>2, <1>3 DEF BE!Close, Released

LEMMA InvokeRuns ==
    ASSUME IInv, TInv, NEW w \in Workers, Invoke(w)
    PROVE  \E t \in BE!Tasks : BE!Run(t)
  <1>0. PICK h \in Tasks : h = Head(tasks[w])
    BY SliceHead DEF Invoke
  <1>1. /\ wpc[w] = "run" /\ tasks[w] # << >>
        /\ UNCHANGED <<mpc, range_start, count, wpc, panicked>>
        /\ runs' = [runs EXCEPT ![h] = @ + 1]
    BY <1>0 DEF Invoke, chan_vars, broker_vars
  <1>2. InBatch(h) /\ runs[h] = 0
    BY <1>0, <1>1, SliceHead
  <1>3. Released /\ UNCHANGED Released
    BY <1>1, RunningWorker DEF Released
  <1>4. \A t \in Tasks : (runs'[t] > 0) <=> (runs[t] > 0 \/ t = h)
    BY <1>1, <1>2, TypeFacts
  <1>5. {t \in Tasks : runs'[t] > 0} = {t \in Tasks : runs[t] > 0} \cup {h}
    BY <1>2, <1>4
  <1>6. h \in {t \in Tasks : range_start <= t /\ t < range_start + count}
            \ {t \in Tasks : runs[t] > 0}
    BY <1>2 DEF InBatch
  <1>7. BE!Run(h)
    BY <1>1, <1>3, <1>5, <1>6 DEF BE!Run
  <1> QED
    BY <1>7 DEF BE!Tasks, Tasks

LEMMA InvokePanicsFails ==
    ASSUME IInv, TInv, NEW w \in Workers, InvokePanics(w)
    PROVE  BE!Fail
  <1>1. /\ wpc[w] = "run" /\ tasks[w] # << >> /\ wpc' = [wpc EXCEPT ![w] = "panic"]
        /\ UNCHANGED <<mpc, range_start, count, runs, panicked>>
    BY DEF InvokePanics, Move, chan_vars, broker_vars
  <1>2. PICK h \in Tasks : InBatch(h) /\ runs[h] = 0
    BY <1>1, SliceHead
  <1>3. Released /\ UNCHANGED Released
    BY <1>1, RunningWorker DEF Released
  <1>4. wpc'[w] = "panic"
    BY <1>1, TypeFacts
  <1> QED
    BY <1>1, <1>2, <1>3, <1>4 DEF BE!Fail, InBatch

(* A step that leaves the tasks, the panics and the broker's place in the batch. *)
LEMMA Stutters ==
    ASSUME UNCHANGED <<runs, Released>>,
           mpc' \in {"kill_flag", "kill_unpark", "join", "end"}
              <=> mpc \in {"kill_flag", "kill_unpark", "join", "end"},
           Released => UNCHANGED <<range_start, count>>,
           \/ UNCHANGED <<panicked, wpc>>
           \/ /\ panicked \/ \E v \in Workers : wpc[v] \in {"panic", "panic_flag", "panic_done"}
              /\ panicked' \/ \E v \in Workers : wpc'[v] \in {"panic", "panic_flag", "panic_done"}
           \/ /\ UNCHANGED panicked
              /\ \A v \in Workers : wpc'[v] \in {"panic", "panic_flag", "panic_done"}
                                      <=> wpc[v] \in {"panic", "panic_flag", "panic_done"}
    PROVE  UNCHANGED BE!vars
  <1>1. UNCHANGED {t \in Tasks : runs[t] > 0}
    OBVIOUS
  <1>2. UNCHANGED (\/ panicked
                   \/ \E w \in Workers : wpc[w] \in {"panic", "panic_flag", "panic_done"})
    OBVIOUS
  <1>3. UNCHANGED (IF Released
                   THEN {t \in Tasks : range_start <= t /\ t < range_start + count}
                   ELSE {})
    BY Zenon
  <1>4. UNCHANGED (mpc \in {"kill_flag", "kill_unpark", "join", "end"})
    OBVIOUS
  <1> QED
    BY <1>1, <1>2, <1>3, <1>4, Zenon DEF BE!vars

LEMMA BrokerImplements ==
    ASSUME IInv, TInv, Broker
    PROVE  BE!Next \/ UNCHANGED BE!vars
  <1> USE DEF Goto, chan_vars, broker_vars, worker_vars
  <1>1. CASE FreeLock
    BY <1>1, FreeLockReleases DEF BE!Next
  <1>2. CASE CloseLock
    BY <1>2, CloseLockCloses DEF BE!Next
  <1>3. CASE KillOrder
    <2>1. BE!Stop
      BY <1>3 DEF KillOrder, BE!Stop, Released
    <2> QED
      BY <2>1 DEF BE!Next
  <1>4. CASE \/ \E n \in 1 .. WorkerCnt * LOCK_STEP_ELEM_SIZE : Fill(n)
             \/ BumpCorrelation \/ Clear \/ TakePanic \/ Drain \/ Finish
    <2>1. /\ mpc \in {"fill", "correlation", "clear", "get_panic"}
          /\ mpc' \in {"fill", "correlation", "free", "get_panic", "kill_order"}
          /\ UNCHANGED <<runs, panicked, wpc>>
      BY <1>4 DEF Fill, BumpCorrelation, Clear, TakePanic, Drain, Finish
    <2> QED
      BY <2>1, Stutters DEF Released
  <1>5. CASE ClearParkFlag \/ Unpark \/ AwaitDone
    <2>1. /\ mpc \in {"unpark_flag", "unpark", "wait"}
          /\ mpc' \in {"unpark", "wait", "writing"}
          /\ UNCHANGED <<runs, panicked, wpc, range_start, count>>
      BY <1>5 DEF ClearParkFlag, Unpark, AwaitDone
    <2> QED
      BY <2>1, Stutters DEF Released
  <1>6. CASE KillFlag \/ KillUnpark \/ Join
    <2>1. /\ mpc \in {"kill_flag", "kill_unpark", "join"}
          /\ mpc' \in {"kill_unpark", "join", "end"}
          /\ UNCHANGED <<runs, panicked, wpc>>
      BY <1>6 DEF KillFlag, KillUnpark, Join
    <2> QED
      BY <2>1, Stutters DEF Released
  <1> QED
    BY <1>1, <1>2, <1>3, <1>4, <1>5, <1>6 DEF Broker

LEMMA WorkerImplements ==
    ASSUME IInv, TInv, NEW w \in Workers, Worker(w) \/ SpuriousWakeup(w)
    PROVE  BE!Next \/ UNCHANGED BE!vars
  <1>1. CASE Invoke(w)
    BY <1>1, InvokeRuns DEF BE!Next
  <1>2. CASE InvokePanics(w)
    BY <1>2, InvokePanicsFails DEF BE!Next
  <1>3. CASE \/ ParkCheck(w) \/ Park(w) \/ SpuriousWakeup(w) \/ DieCheck(w)
             \/ CorrCheck(w) \/ StateCheck(w) \/ Take(w) \/ Returned(w) \/ SliceEnds(w)
             \/ Done(w) /\ wpc[w] = "done"
    <2>1. wpc[w] = "take" => wcorr[w] + 1 = lock_correlation
      BY DEF IInv, WorkerInv
    <2>2. /\ UNCHANGED <<mpc, runs, panicked, range_start, count>>
          /\ wpc[w] \notin {"panic", "panic_flag", "panic_done"}
          /\ \E to : /\ to \notin {"panic", "panic_flag", "panic_done"}
                     /\ wpc' = [wpc EXCEPT ![w] = to]
      BY <1>3, <2>1 DEF ParkCheck, Park, SpuriousWakeup, DieCheck, CorrCheck, StateCheck,
         Take, Returned, SliceEnds, Done, Move, chan_vars, broker_vars
    <2>3. \A v \in Workers : wpc'[v] \in {"panic", "panic_flag", "panic_done"}
                               <=> wpc[v] \in {"panic", "panic_flag", "panic_done"}
      BY <2>2, TypeFacts
    <2> QED
      BY <2>2, <2>3, Stutters DEF Released
  <1>4. CASE \/ StorePayload(w) \/ PayloadPresent(w) \/ RaisePanicked(w)
             \/ Done(w) /\ wpc[w] # "done"
    <2>1. wpc[w] = "panic_done" => panicked
      BY DEF IInv, WorkerInv
    <2>2. /\ UNCHANGED <<mpc, runs, range_start, count>>
          /\ wpc[w] \in {"panic", "panic_flag", "panic_done"}
          /\ panicked' \/ wpc'[w] \in {"panic", "panic_flag", "panic_done"}
      BY <1>4, <2>1, TypeFacts DEF StorePayload, PayloadPresent, RaisePanicked, Done, Move,
         chan_vars, broker_vars
    <2> QED
      BY <2>2, Stutters DEF Released
  <1> QED
    BY <1>1, <1>2, <1>3, <1>4 DEF Worker

(* The channel and its pool implement the batch executor: what process_buffer relies
   on when it calls execute, whatever the interleaving of the threads. *)
THEOREM LockStepRefinesBatchExecutor == Spec => ImplementsBatchExecutor
  <1>1. Init => BE!Init
    BY DEF Init, BE!Init, Released
  <1>2. IInv /\ TInv /\ [Next]_vars => [BE!Next]_(BE!vars)
    <2> SUFFICES ASSUME IInv, TInv, [Next]_vars PROVE BE!Next \/ UNCHANGED BE!vars
      OBVIOUS
    <2>1. CASE UNCHANGED vars
      BY <2>1, Stutters DEF vars, chan_vars, broker_vars, worker_vars, Released
    <2> QED
      BY <2>1, BrokerImplements, WorkerImplements DEF Next, AllEnded
  <1> QED
    BY <1>1, <1>2, BatchInvariance, PTL DEF Spec, ImplementsBatchExecutor, BE!Spec

-----------------------------------------------------------------------------
(* Delayed stores: where they commit in order and fetch_add commits them all, a
   worker still takes the slice of its batch.  The argument: what can be pending
   follows the position of the broker, nothing of an earlier batch is pending
   once fetch_add is made, and a worker goes on only with a new correlation. *)

(* What can be pending when the broker is where it is. *)
PendingLocs ==
    CASE mpc \in {"fill", "correlation", "get_panic", "kill_order"} ->
            {"state", "items", "done"}
      [] mpc = "free" -> {"correlation"}
      [] mpc = "unpark_flag" -> {"correlation", "state"}
      [] mpc = "unpark" -> {"correlation", "state", "park"}
      [] mpc = "clear" -> {"state"}
      [] mpc = "kill_flag" -> {"state", "items", "done", "die"}
      [] mpc = "kill_unpark" -> {"state", "items", "done", "die", "park"}
      [] OTHER -> {}

(* A pending store is the broker's last to its location, or a later one is pending. *)
StoredInv(k) ==
    LET s == buffer[k]
    IN  /\ s.loc \in PendingLocs
        /\ s.loc = "state" => s.val = lock_state
        /\ s.loc = "correlation" => s.val = lock_correlation /\ s.worker = 0
        /\ s.loc = "park" => s.val = FALSE
        /\ s.loc = "die" => s.val = TRUE
        /\ s.loc = "done" => s.val = FALSE
        /\ s.loc = "items" =>
            /\ s.val \in Seq(Tasks)
            /\ \/ s.val = items[s.worker]
               \/ \E j \in k + 1 .. Len(buffer) :
                    buffer[j].loc = "items" /\ buffer[j].worker = s.worker

BufferInv ==
    /\ \A k \in 1 .. Len(buffer) : StoredInv(k)
    /\ \A j, k \in 1 .. Len(buffer) :
            buffer[j].loc = "correlation" /\ buffer[k].loc = "correlation" => j = k

(* Where nothing is pending the workers see what the broker does. *)
SeenInv ==
    /\ ~Pending("state", 0) => mem_state = lock_state
    /\ lock_correlation = IF Pending("correlation", 0) THEN mem_correlation + 1
                                                       ELSE mem_correlation
    /\ mem_die => die_order
    /\ \A w \in Workers :
        /\ ~Pending("items", w) => mem_items[w] = items[w]
        /\ IF Pending("done", w) THEN ~done[w] ELSE done[w] = mem_done[w]

(* WorkerInv, CorrInv and DoneInv, by what the worker sees. *)
MemWorkerInv(w) ==
    /\ \/ wcorr[w] = mem_correlation
       \/ /\ wcorr[w] + 1 = mem_correlation /\ mem_correlation = lock_correlation
          /\ mpc = "free" \/ Out
          /\ ~done[w]
    /\ wpc[w] = "state_check" =>
            /\ mpc = "free" \/ Out
            /\ wcorr[w] + 1 = mem_correlation
            /\ ~done[w]
    /\ wpc[w] = "take" => Out /\ wcorr[w] + 1 = mem_correlation /\ ~done[w]
    /\ W!Touching(w) /\ wpc[w] # "take" =>
            Out /\ wcorr[w] = lock_correlation /\ ~done[w]
    /\ done[w] =>
        /\ Out \/ mpc \in {"writing", "clear"}
        /\ wcorr[w] = lock_correlation
        /\ wpc[w] \in {"park_check", "park", "die_check", "corr_check", "exited"}

MemInv ==
    /\ MemTypeOK /\ FlagInv /\ BufferInv /\ SeenInv /\ WaitInv
    /\ \A w \in Workers : MemWorkerInv(w)
    /\ SliceIsFresh

-----------------------------------------------------------------------------
LEMMA ConcatByPosition ==
    ASSUME NEW S, NEW s \in Seq(S), NEW t \in Seq(S)
    PROVE  /\ s \o t \in Seq(S) /\ Len(s \o t) = Len(s) + Len(t)
           /\ \A k \in 1 .. Len(s) : (s \o t)[k] = s[k]
           /\ \A k \in 1 .. Len(t) : (s \o t)[Len(s) + k] = t[k]
  OBVIOUS

LEMMA RestByPosition ==
    ASSUME NEW S, NEW s \in Seq(S), s # << >>
    PROVE  /\ RemoveAt(s, 1) \in Seq(S) /\ Len(RemoveAt(s, 1)) = Len(s) - 1
           /\ \A k \in 1 .. Len(s) - 1 : RemoveAt(s, 1)[k] = s[k + 1]
  <1>1. Len(s) \in Nat \ {0} /\ SubSeq(s, 1, 0) = << >>
    OBVIOUS
  <1>2. /\ SubSeq(s, 2, Len(s)) \in Seq(S) /\ Len(SubSeq(s, 2, Len(s))) = Len(s) - 1
        /\ \A k \in 1 .. Len(s) - 1 : SubSeq(s, 2, Len(s))[k] = s[k + 1]
    <2>1. \A i \in 2 .. Len(s) : s[i] \in S
      OBVIOUS
    <2>2. /\ SubSeq(s, 2, Len(s)) \in Seq(S)
          /\ Len(SubSeq(s, 2, Len(s))) = IF 2 <= Len(s) THEN Len(s) - 2 + 1 ELSE 0
          /\ \A i \in 1 .. Len(s) - 2 + 1 : SubSeq(s, 2, Len(s))[i] = s[2 + i - 1]
      BY <1>1, <2>1, SubSeqProperties
    <2>3. \A n \in Nat \ {0} : n - 2 + 1 = n - 1 /\ (2 <= n \/ n - 1 = 0)
      OBVIOUS
    <2>4. ASSUME NEW k \in 1 .. Len(s) - 1
          PROVE  SubSeq(s, 2, Len(s))[k] = s[k + 1]
      <3>1. k \in 1 .. Len(s) - 2 + 1 /\ 2 + k - 1 = k + 1
        BY <1>1
      <3> QED
        BY <2>2, <3>1
    <2> QED
      BY <1>1, <2>2, <2>3, <2>4
  <1>3. RemoveAt(s, 1) = SubSeq(s, 2, Len(s))
    BY <1>1, <1>2 DEF RemoveAt
  <1> QED
    BY <1>2, <1>3

(* A worker beyond the tasks of a batch is given none. *)
LEMMA NoShare ==
    ASSUME NEW w \in Workers, NEW n \in Nat, n <= w
    PROVE  Share(w, n) = << >>
  <1>1. (n + WorkerCnt - 1 - w) \div WorkerCnt = 0
    BY WorkerCntAssumption DEF Workers
  <1> QED
    BY <1>1 DEF Share

LEMMA MemInitInv == MemInit => MemInv
  <1> SUFFICES ASSUME MemInit PROVE MemInv
    OBVIOUS
  <1>1. TypeOK
    BY InitTypeOK DEF MemInit
  <1>2. W!TypeOK
    BY <1>1 DEF MemInit, TypeOK, W!TypeOK, W!Workers, W!Tasks, W!BrokerPcs, W!WorkerPcs,
       W!NoPanic, Workers, Tasks, BrokerPcs, WorkerPcs, NoPanic
  <1>3. buffer \in Seq(Entries) /\ buffer = << >> /\ Len(buffer) = 0 /\ DOMAIN buffer = {}
    BY DEF MemInit
  <1>4. BufferInv /\ FlagInv /\ WaitInv
    BY <1>3 DEF MemInit, Init, BufferInv, FlagInv, WaitInv, Out, Killing
  <1>5. SeenInv
    BY <1>3 DEF MemInit, Init, SeenInv, Pending
  <1>6. \A w \in Workers : MemWorkerInv(w)
    BY DEF MemInit, Init, MemWorkerInv, W!Touching, Out
  <1>7. SliceIsFresh
    BY DEF MemInit, Init, SliceIsFresh
  <1> QED
    BY <1>1, <1>2, <1>3, <1>4, <1>5, <1>6, <1>7 DEF MemInv, MemTypeOK

-----------------------------------------------------------------------------
(* What each step of the broker stores. *)
LEMMA StoresByStep ==
    /\ mpc = "fill" /\ mpc' = "correlation" =>
        Stores = [k \in 1 .. IF count' < WorkerCnt THEN count' ELSE WorkerCnt |->
                    Store("items", k - 1, items'[k - 1])]
    /\ mpc = "correlation" => Stores = << Store("correlation", 0, lock_correlation') >>
    /\ mpc \in {"free", "writing"} => Stores = << Store("state", 0, lock_state') >>
    /\ mpc \in {"unpark_flag", "kill_flag"} => Stores = << Store("park", 0, park_workers') >>
    /\ mpc = "kill_order" => Stores = << Store("die", 0, die_order') >>
    /\ mpc = "clear" =>
        Stores = [k \in 1 .. 2 * WorkerCnt |->
                    LET w == (k - 1) \div 2
                    IN  IF k = 2 * w + 1 THEN Store("items", w, items'[w])
                                         ELSE Store("done", w, done'[w])]
    /\ mpc \in {"unpark", "wait", "get_panic", "kill_unpark", "join", "end"} => Stores = << >>
    /\ mpc = "fill" /\ mpc' # "correlation" => Stores = << >>
  <1>1. mpc = "fill" /\ mpc' = "correlation" =>
            Stores = [k \in 1 .. IF count' < WorkerCnt THEN count' ELSE WorkerCnt |->
                        Store("items", k - 1, items'[k - 1])]
    BY DEF Stores
  <1>2. mpc = "correlation" => Stores = << Store("correlation", 0, lock_correlation') >>
    BY DEF Stores
  <1>3. mpc \in {"free", "writing"} => Stores = << Store("state", 0, lock_state') >>
    BY DEF Stores
  <1>4. mpc \in {"unpark_flag", "kill_flag"} => Stores = << Store("park", 0, park_workers') >>
    BY DEF Stores
  <1>5. mpc = "kill_order" => Stores = << Store("die", 0, die_order') >>
    BY DEF Stores
  <1>6. mpc = "clear" =>
            Stores = [k \in 1 .. 2 * WorkerCnt |->
                        LET w == (k - 1) \div 2
                        IN  IF k = 2 * w + 1 THEN Store("items", w, items'[w])
                                             ELSE Store("done", w, done'[w])]
    BY DEF Stores
  <1>7. mpc \in {"unpark", "wait", "get_panic", "kill_unpark", "join", "end"} =>
            Stores = << >>
    BY DEF Stores
  <1>8. mpc = "fill" /\ mpc' # "correlation" => Stores = << >>
    BY DEF Stores
  <1> QED
    BY <1>1, <1>2, <1>3, <1>4, <1>5, <1>6, <1>7, <1>8

(* The workers do not see a step of the broker. *)
LEMMA BrokerFrame ==
    ASSUME MemInv, BrokerStep, ~Reordered
    PROVE  /\ Broker /\ TypeOK' /\ W!TypeOK' /\ UNCHANGED mem_vars
           /\ wpc' = wpc /\ wcorr' = wcorr /\ tasks' = tasks
           /\ \A v \in Workers : W!Touching(v)' <=> W!Touching(v)
           /\ buffer' = buffer \o Stores
           /\ mpc \in {"correlation", "unpark", "kill_unpark"} => buffer = << >>
  <1>1. Broker /\ UNCHANGED mem_vars
    BY DEF BrokerStep
  <1>2. TypeOK'
    BY <1>1, NextTypeOK DEF MemInv, MemTypeOK, Next
  <1>3. wpc' = wpc /\ wcorr' = wcorr /\ tasks' = tasks
    BY <1>1 DEF Broker, Fill, BumpCorrelation, FreeLock, ClearParkFlag, Unpark, AwaitDone,
       CloseLock, Clear, TakePanic, Drain, Finish, KillOrder, KillFlag, KillUnpark, Join,
       worker_vars, chan_vars, broker_vars
  <1>4. \A v \in Workers : W!Touching(v)' <=> W!Touching(v)
    BY <1>1, <1>3 DEF W!Touching, mem_vars
  <1>5. W!TypeOK'
    BY <1>1, <1>2 DEF TypeOK, W!TypeOK, W!Workers, W!Tasks, W!BrokerPcs,
       W!WorkerPcs, W!NoPanic, Workers, Tasks, BrokerPcs, WorkerPcs, NoPanic, mem_vars,
       MemInv, MemTypeOK
  <1> QED
    BY <1>1, <1>2, <1>3, <1>4, <1>5 DEF BrokerStep, Exchange

(* A step that stores nothing. *)
LEMMA SilentStep ==
    ASSUME MemInv, ~Reordered, BrokerStep,
           \/ Unpark \/ AwaitDone \/ TakePanic \/ Drain \/ Finish \/ KillUnpark \/ Join
    PROVE  MemInv'
  <1>1. /\ Broker /\ TypeOK' /\ W!TypeOK' /\ UNCHANGED mem_vars
        /\ wpc' = wpc /\ wcorr' = wcorr /\ tasks' = tasks
        /\ \A v \in Workers : W!Touching(v)' <=> W!Touching(v)
        /\ buffer' = buffer \o Stores
        /\ mpc \in {"unpark", "kill_unpark"} => buffer = << >>
    BY BrokerFrame
  <1>2. Stores = << >>
    BY StoresByStep DEF Unpark, AwaitDone, TakePanic, Drain, Finish, KillUnpark, Join, Goto
  <1>3. buffer \in Seq(Entries) /\ buffer' = buffer
    BY <1>1, <1>2 DEF MemInv, MemTypeOK
  <1>4. /\ UNCHANGED <<lock_state, lock_correlation, park_workers, die_order, items, done>>
        /\ <<mpc, mpc'>> \in {<<"unpark", "unpark">>, <<"unpark", "wait">>,
             <<"wait", "wait">>, <<"wait", "writing">>, <<"get_panic", "kill_order">>,
             <<"get_panic", "fill">>, <<"fill", "kill_order">>,
             <<"kill_unpark", "kill_unpark">>, <<"kill_unpark", "join">>, <<"join", "end">>}
    BY DEF Unpark, AwaitDone, TakePanic, Drain, Finish, KillUnpark, Join, Goto, chan_vars
  <1>5. \A loc, w : Pending(loc, w)' <=> Pending(loc, w)
    BY <1>3 DEF Pending
  <1>6. FlagInv'
    BY <1>4 DEF MemInv, FlagInv, Out, Killing
  <1>7. BufferInv'
    <2>1. ASSUME NEW k \in 1 .. Len(buffer) PROVE StoredInv(k)'
      <3>1. StoredInv(k) /\ buffer # << >>
        BY <1>3 DEF MemInv, BufferInv
      <3>2. mpc # "unpark" /\ mpc # "kill_unpark"
        BY <1>1, <3>1
      <3>3. PendingLocs' = PendingLocs
        BY <1>4, <3>2 DEF PendingLocs
      <3> QED
        BY <1>3, <1>4, <3>1, <3>3 DEF StoredInv
    <2> QED
      BY <1>3, <2>1 DEF MemInv, BufferInv
  <1>8. SeenInv'
    BY <1>1, <1>4, <1>5 DEF MemInv, SeenInv, mem_vars
  <1>9. WaitInv' /\ \A v \in Workers : mpc = "wait" /\ mpc' = "writing" => done[v]
    <2>1. CASE mpc = "wait"
      <3>1. AwaitDone
        BY <2>1 DEF Unpark, TakePanic, Drain, Finish, KillUnpark, Join
      <3>2. mi \in Nat /\ mi \in Workers /\ done[mi] /\ UNCHANGED done
        BY <1>4, <3>1 DEF AwaitDone, MemInv, MemTypeOK, TypeOK, Workers
      <3>3. \/ mi > 0 /\ mi' = mi - 1 /\ mpc' = "wait"
            \/ mi = 0 /\ mpc' = "writing"
        BY <3>1, <3>2 DEF AwaitDone, Goto
      <3>4. \A v \in Workers : v > mi => done[v]
        BY <2>1 DEF MemInv, WaitInv
      <3>5. \A v \in Workers : v > mi - 1 => v > mi \/ v = mi
        BY <3>2 DEF Workers
      <3>6. mi = 0 => \A v \in Workers : v > mi \/ v = mi
        BY DEF Workers
      <3> QED
        BY <3>2, <3>3, <3>4, <3>5, <3>6 DEF WaitInv
    <2>2. CASE mpc = "unpark" /\ mpc' = "wait"
      <3>1. mi' = WorkerCnt - 1
        BY <2>2 DEF Unpark, AwaitDone, TakePanic, Drain, Finish, KillUnpark, Join, Goto
      <3>2. \A v \in Workers : ~(v > WorkerCnt - 1)
        BY WorkerCntAssumption DEF Workers
      <3> QED
        BY <2>2, <3>1, <3>2 DEF WaitInv
    <2>3. CASE mpc' \notin {"wait", "writing", "clear"}
      BY <2>3 DEF WaitInv
    <2> QED
      BY <1>4, <2>1, <2>2, <2>3
  <1>10. ASSUME NEW v \in Workers PROVE MemWorkerInv(v)'
    <2>1. MemWorkerInv(v) /\ (mpc = "wait" /\ mpc' = "writing" => done[v])
      BY <1>9 DEF MemInv
    <2>2. mpc # mpc' => \/ mpc = "unpark" /\ mpc' = "wait"
                        \/ mpc = "wait" /\ mpc' = "writing"
                        \/ mpc \notin {"free", "unpark_flag", "unpark", "wait", "writing", "clear"}
      BY <1>4
    <2> QED
      BY <1>1, <1>4, <2>1, <2>2 DEF MemWorkerInv, Out, mem_vars
  <1>11. SliceIsFresh'
    BY <1>1, <1>4 DEF MemInv, SliceIsFresh, mem_vars
  <1> QED
    BY <1>1, <1>3, <1>6, <1>7, <1>8, <1>9, <1>10, <1>11 DEF MemInv, MemTypeOK

-----------------------------------------------------------------------------
(* A step that stores to one field of the channel. *)
LEMMA OneStore ==
    ASSUME NEW e, e \in Entries, buffer \in Seq(Entries), buffer' = buffer \o << e >>
    PROVE  /\ buffer' \in Seq(Entries) /\ Len(buffer') = Len(buffer) + 1 /\ Len(buffer) \in Nat
           /\ \A k \in 1 .. Len(buffer) : buffer'[k] = buffer[k]
           /\ buffer'[Len(buffer) + 1] = e
           /\ \A loc, w : Pending(loc, w)' <=>
                Pending(loc, w) \/ (e.loc = loc /\ e.worker = w)
  <1>1. /\ buffer' \in Seq(Entries) /\ Len(buffer') = Len(buffer) + 1 /\ Len(buffer) \in Nat
        /\ \A k \in 1 .. Len(buffer) : buffer'[k] = buffer[k]
        /\ buffer'[Len(buffer) + 1] = e
    <2>1. buffer' = Append(buffer, e)
      OBVIOUS
    <2> QED
      BY <2>1, AppendByPosition
  <1>2. DOMAIN buffer = 1 .. Len(buffer) /\ DOMAIN buffer' = 1 .. Len(buffer')
    BY <1>1
  <1>3. \A k \in 1 .. Len(buffer') : k \in 1 .. Len(buffer) \/ k = Len(buffer) + 1
    BY <1>1
  <1>4. Len(buffer) + 1 \in 1 .. Len(buffer') /\ 1 .. Len(buffer) \subseteq 1 .. Len(buffer')
    BY <1>1
  <1>5. ASSUME NEW loc, NEW w
        PROVE  Pending(loc, w)' <=> Pending(loc, w) \/ (e.loc = loc /\ e.worker = w)
    BY <1>1, <1>2, <1>3, <1>4 DEF Pending
  <1> QED
    BY <1>1, <1>5

LEMMA FieldStep ==
    ASSUME MemInv, ~Reordered, BrokerStep,
           \/ BumpCorrelation \/ FreeLock \/ ClearParkFlag \/ CloseLock \/ KillOrder
           \/ KillFlag
    PROVE  MemInv'
  <1>1. /\ Broker /\ TypeOK' /\ W!TypeOK' /\ UNCHANGED mem_vars
        /\ wpc' = wpc /\ wcorr' = wcorr /\ tasks' = tasks
        /\ \A v \in Workers : W!Touching(v)' <=> W!Touching(v)
        /\ buffer' = buffer \o Stores
        /\ mpc = "correlation" => buffer = << >>
    BY BrokerFrame
  <1>2. /\ UNCHANGED <<items, done>>
        /\ \/ /\ mpc = "correlation" /\ mpc' = "free"
              /\ lock_correlation' = lock_correlation + 1
              /\ UNCHANGED <<lock_state, die_order>>
           \/ /\ mpc = "free" /\ mpc' = "unpark_flag" /\ lock_state' = "FREE"
              /\ UNCHANGED <<lock_correlation, die_order>>
           \/ /\ mpc = "unpark_flag" /\ mpc' = "unpark" /\ park_workers' = FALSE
              /\ UNCHANGED <<lock_state, lock_correlation, die_order>>
           \/ /\ mpc = "writing" /\ mpc' = "clear" /\ lock_state' = "WRITING"
              /\ UNCHANGED <<lock_correlation, die_order>>
           \/ /\ mpc = "kill_order" /\ mpc' = "kill_flag" /\ die_order' = TRUE
              /\ UNCHANGED <<lock_state, lock_correlation>>
           \/ /\ mpc = "kill_flag" /\ mpc' = "kill_unpark" /\ park_workers' = FALSE
              /\ UNCHANGED <<lock_state, lock_correlation, die_order>>
    BY DEF BumpCorrelation, FreeLock, ClearParkFlag, CloseLock, KillOrder, KillFlag, Goto
  <1>3. PICK e : /\ Stores = << e >> /\ e.worker = 0 /\ e.release = (mpc = "unpark_flag")
                 /\ \/ mpc = "correlation" /\ e = Store("correlation", 0, lock_correlation')
                    \/ mpc \in {"free", "writing"} /\ e = Store("state", 0, lock_state')
                    \/ mpc \in {"unpark_flag", "kill_flag"} /\ e = Store("park", 0, FALSE)
                    \/ mpc = "kill_order" /\ e = Store("die", 0, TRUE)
    BY <1>2, StoresByStep DEF Store
  <1>4. e \in Entries
    <2>1. lock_correlation' \in Nat /\ lock_state' \in {"WRITING", "FREE"} /\ 0 \in Workers
      BY <1>1, WorkerCntAssumption DEF TypeOK, Workers
    <2>2. ASSUME NEW loc \in Locs,
                 NEW val \in {"WRITING", "FREE"} \cup Nat \cup BOOLEAN \cup Seq(Tasks)
          PROVE  Store(loc, 0, val) \in Entries
      <3>1. (mpc = "unpark_flag") \in BOOLEAN
        OBVIOUS
      <3> QED
        BY <2>1, <3>1 DEF Store, Entries
    <2>3. {"state", "correlation", "park", "die"} \subseteq Locs
      BY DEF Locs
    <2> QED
      BY <1>3, <2>1, <2>2, <2>3
  <1>5. /\ e.loc = "correlation" <=> mpc = "correlation"
        /\ e.loc = "state" <=> mpc \in {"free", "writing"}
        /\ e.loc = "park" <=> mpc \in {"unpark_flag", "kill_flag"}
        /\ e.loc = "die" <=> mpc = "kill_order"
        /\ e.loc # "items" /\ e.loc # "done"
        /\ e.loc = "correlation" => e.val = lock_correlation'
        /\ e.loc = "state" => e.val = lock_state'
        /\ e.loc = "park" => e.val = FALSE
        /\ e.loc = "die" => e.val = TRUE
    BY <1>3 DEF Store
  <1>6. buffer \in Seq(Entries)
    BY DEF MemInv, MemTypeOK
  <1>7. /\ buffer' \in Seq(Entries) /\ Len(buffer') = Len(buffer) + 1 /\ Len(buffer) \in Nat
        /\ \A k \in 1 .. Len(buffer) : buffer'[k] = buffer[k]
        /\ buffer'[Len(buffer) + 1] = e
        /\ \A loc, w : Pending(loc, w)' <=>
                Pending(loc, w) \/ (e.loc = loc /\ e.worker = w)
    BY <1>1, <1>3, <1>4, <1>6, OneStore
  <1>8. FlagInv'
    BY <1>2 DEF MemInv, FlagInv, Out, Killing
  <1>9. ASSUME NEW k \in 1 .. Len(buffer) PROVE StoredInv(k)'
    <2>1. StoredInv(k) /\ buffer # << >>
      BY <1>6 DEF MemInv, BufferInv
    <2>2. mpc # "correlation" /\ lock_correlation' = lock_correlation
      BY <1>1, <1>2, <2>1
    <2>3. buffer[k].loc \in PendingLocs' /\ (buffer[k].loc = "state" => lock_state' = lock_state)
      BY <1>2, <2>1, <2>2 DEF StoredInv, PendingLocs
    <2>4. buffer'[k] = buffer[k]
      BY <1>7
    <2>5. ASSUME NEW j \in k + 1 .. Len(buffer)
          PROVE  j \in k + 1 .. Len(buffer') /\ buffer'[j] = buffer[j]
      BY <1>7
    <2> QED
      BY <1>2, <2>1, <2>2, <2>3, <2>4, <2>5 DEF StoredInv
  <1>10. ASSUME NEW k, k = Len(buffer) + 1 PROVE StoredInv(k)'
    <2>1. e.loc \in PendingLocs'
      BY <1>2, <1>5 DEF PendingLocs
    <2> QED
      BY <1>3, <1>5, <1>7, <1>10, <2>1 DEF StoredInv
  <1>11. BufferInv'
    <2>1. \A k \in 1 .. Len(buffer') : k \in 1 .. Len(buffer) \/ k = Len(buffer) + 1
      BY <1>7
    <2>2. \A k \in 1 .. Len(buffer') : StoredInv(k)'
      BY <1>9, <1>10, <2>1
    <2>3. CASE mpc = "correlation"
      <3>1. Len(buffer') = 1
        BY <1>1, <1>7, <2>3
      <3> QED
        BY <2>2, <3>1 DEF BufferInv
    <2>4. CASE mpc # "correlation"
      <3>1. e.loc # "correlation"
        BY <1>5, <2>4
      <3> QED
        BY <1>7, <2>1, <2>2, <3>1 DEF MemInv, BufferInv
    <2> QED
      BY <2>3, <2>4
  <1>12. SeenInv'
    <2>1. Pending("state", 0)' <=> Pending("state", 0) \/ e.loc = "state"
      BY <1>3, <1>7
    <2>2. Pending("correlation", 0)' <=> Pending("correlation", 0) \/ e.loc = "correlation"
      BY <1>3, <1>7
    <2>3. \A w : /\ Pending("items", w)' <=> Pending("items", w)
                 /\ Pending("done", w)' <=> Pending("done", w)
      BY <1>5, <1>7
    <2>4. mpc = "correlation" => ~Pending("correlation", 0)
      BY <1>1 DEF Pending
    <2> QED
      BY <1>1, <1>2, <1>5, <2>1, <2>2, <2>3, <2>4 DEF MemInv, SeenInv, mem_vars
  <1>13. WaitInv'
    BY <1>2 DEF MemInv, WaitInv
  <1>14. ASSUME NEW v \in Workers PROVE MemWorkerInv(v)'
    <2>1. MemWorkerInv(v) /\ mem_correlation' = mem_correlation
      BY <1>1 DEF MemInv, mem_vars
    <2>2. CASE mpc = "correlation"
      <3>1. ~Out /\ mpc # "free" /\ mpc # "writing" /\ mpc # "clear"
        BY <2>2 DEF Out
      <3> QED
        BY <1>1, <1>2, <2>1, <3>1 DEF MemWorkerInv
    <2>3. CASE mpc # "correlation"
      <3>1. UNCHANGED lock_correlation
        BY <1>2, <2>3
      <3>2. Out /\ mpc # "writing" => Out'
        BY <1>2 DEF Out
      <3>3. mpc = "free" => Out'
        BY <1>2 DEF Out
      <3>4. mpc = "writing" => mpc' = "clear" /\ ~Out /\ ~Out'
        BY <1>2 DEF Out
      <3>5. mpc # "clear"
        BY <1>2
      <3> QED
        BY <1>1, <1>2, <2>1, <3>1, <3>2, <3>3, <3>4, <3>5 DEF MemWorkerInv
    <2> QED
      BY <2>2, <2>3
  <1>15. SliceIsFresh'
    BY <1>1, <1>2 DEF MemInv, SliceIsFresh, mem_vars
  <1> QED
    BY <1>1, <1>7, <1>8, <1>11, <1>12, <1>13, <1>14, <1>15 DEF MemInv, MemTypeOK

-----------------------------------------------------------------------------
(* A step that stores to the elements. *)
LEMMA ManyStores ==
    ASSUME NEW t \in Seq(Entries), buffer \in Seq(Entries), buffer' = buffer \o t
    PROVE  /\ buffer' \in Seq(Entries) /\ Len(buffer') = Len(buffer) + Len(t)
           /\ Len(buffer) \in Nat /\ Len(t) \in Nat
           /\ \A k \in 1 .. Len(buffer) : buffer'[k] = buffer[k]
           /\ \A k \in 1 .. Len(t) : buffer'[Len(buffer) + k] = t[k]
           /\ \A k \in 1 .. Len(buffer') :
                k \in 1 .. Len(buffer) \/ \E i \in 1 .. Len(t) : k = Len(buffer) + i
           /\ \A loc, w : Pending(loc, w)' <=>
                Pending(loc, w) \/ \E i \in 1 .. Len(t) : t[i].loc = loc /\ t[i].worker = w
  <1>1. /\ buffer' \in Seq(Entries) /\ Len(buffer') = Len(buffer) + Len(t)
        /\ Len(buffer) \in Nat /\ Len(t) \in Nat
        /\ \A k \in 1 .. Len(buffer) : buffer'[k] = buffer[k]
        /\ \A k \in 1 .. Len(t) : buffer'[Len(buffer) + k] = t[k]
    BY ConcatByPosition
  <1>2. DOMAIN buffer = 1 .. Len(buffer) /\ DOMAIN buffer' = 1 .. Len(buffer')
    BY <1>1
  <1>3. \A m, n \in Nat : \A k \in 1 .. m + n :
            k \in 1 .. m \/ (k - m \in 1 .. n /\ k = m + (k - m))
    OBVIOUS
  <1>4. \A k \in 1 .. Len(buffer') :
            k \in 1 .. Len(buffer) \/ \E i \in 1 .. Len(t) : k = Len(buffer) + i
    <2>1. ASSUME NEW k \in 1 .. Len(buffer'), k \notin 1 .. Len(buffer)
          PROVE  \E i \in 1 .. Len(t) : k = Len(buffer) + i
      <3>1. k - Len(buffer) \in 1 .. Len(t) /\ k = Len(buffer) + (k - Len(buffer))
        BY <1>1, <1>3, <2>1
      <3> QED
        BY <3>1
    <2> QED
      BY <2>1
  <1>5. /\ 1 .. Len(buffer) \subseteq 1 .. Len(buffer')
        /\ \A i \in 1 .. Len(t) : Len(buffer) + i \in 1 .. Len(buffer')
    BY <1>1
  <1>6. ASSUME NEW loc, NEW w
        PROVE  Pending(loc, w)' <=>
                Pending(loc, w) \/ \E i \in 1 .. Len(t) : t[i].loc = loc /\ t[i].worker = w
    <2>1. Pending(loc, w)' <=>
            \E k \in 1 .. Len(buffer') : buffer'[k].loc = loc /\ buffer'[k].worker = w
      BY <1>2 DEF Pending
    <2>2. Pending(loc, w) <=>
            \E k \in 1 .. Len(buffer) : buffer[k].loc = loc /\ buffer[k].worker = w
      BY <1>2 DEF Pending
    <2>3. ASSUME NEW k \in 1 .. Len(buffer'), buffer'[k].loc = loc, buffer'[k].worker = w
          PROVE  \/ \E j \in 1 .. Len(buffer) : buffer[j].loc = loc /\ buffer[j].worker = w
                 \/ \E i \in 1 .. Len(t) : t[i].loc = loc /\ t[i].worker = w
      BY <1>1, <1>4, <2>3
    <2>4. ASSUME NEW k \in 1 .. Len(buffer), buffer[k].loc = loc, buffer[k].worker = w
          PROVE  \E j \in 1 .. Len(buffer') : buffer'[j].loc = loc /\ buffer'[j].worker = w
      BY <1>1, <1>5, <2>4
    <2>5. ASSUME NEW i \in 1 .. Len(t), t[i].loc = loc, t[i].worker = w
          PROVE  \E j \in 1 .. Len(buffer') : buffer'[j].loc = loc /\ buffer'[j].worker = w
      BY <1>1, <1>5, <2>5
    <2> QED
      BY <2>1, <2>2, <2>3, <2>4, <2>5
  <1> QED
    BY <1>1, <1>4, <1>6

LEMMA FillStep ==
    ASSUME MemInv, ~Reordered, BrokerStep, NEW n \in 1 .. WorkerCnt * LOCK_STEP_ELEM_SIZE,
           Fill(n)
    PROVE  MemInv'
  <1>1. /\ Broker /\ TypeOK' /\ W!TypeOK' /\ UNCHANGED mem_vars
        /\ wpc' = wpc /\ wcorr' = wcorr /\ tasks' = tasks
        /\ \A v \in Workers : W!Touching(v)' <=> W!Touching(v)
        /\ buffer' = buffer \o Stores
    BY BrokerFrame
  <1>2. /\ mpc = "fill" /\ mpc' = "correlation" /\ count' = n
        /\ items' = [w \in Workers |-> items[w] \o Share(w, n)]
        /\ UNCHANGED <<lock_state, lock_correlation, park_workers, die_order, done>>
    BY DEF Fill, Goto
  <1> DEFINE c == IF n < WorkerCnt THEN n ELSE WorkerCnt
             t == [k \in 1 .. c |-> Store("items", k - 1, items'[k - 1])]
  <1>3. Stores = t
    BY <1>2, StoresByStep
  <1>4. /\ buffer \in Seq(Entries) /\ n \in Nat /\ c \in Nat /\ c <= WorkerCnt
        /\ items \in [Workers -> Seq(Tasks)] /\ items' \in [Workers -> Seq(Tasks)]
    <2>1. WorkerCnt * LOCK_STEP_ELEM_SIZE \in Nat
      BY WorkerCntAssumption, ElemSizeAssumption
    <2>2. n \in Nat
      BY <2>1
    <2>3. c \in Nat /\ c <= WorkerCnt
      BY <2>2, WorkerCntAssumption
    <2>4. buffer \in Seq(Entries) /\ items \in [Workers -> Seq(Tasks)]
      BY DEF MemInv, MemTypeOK, TypeOK
    <2>5. items' \in [Workers -> Seq(Tasks)]
      BY <1>1 DEF TypeOK
    <2> QED
      BY <2>2, <2>3, <2>4, <2>5
  <1>5. ASSUME NEW k \in 1 .. c
        PROVE  /\ k - 1 \in Workers /\ t[k] \in Entries /\ t[k].loc = "items"
               /\ t[k].worker = k - 1 /\ t[k].val = items'[k - 1]
               /\ items'[k - 1] \in Seq(Tasks)
    <2>1. k - 1 \in Workers
      BY <1>4, WorkerCntAssumption DEF Workers
    <2>2. items'[k - 1] \in Seq(Tasks) /\ (mpc = "unpark_flag") \in BOOLEAN
      BY <1>4, <2>1
    <2>3. t[k] = Store("items", k - 1, items'[k - 1])
      OBVIOUS
    <2> QED
      BY <2>1, <2>2, <2>3 DEF Store, Entries, Locs
  <1> HIDE DEF t, c
  <1>6. t \in Seq(Entries) /\ Len(t) = c
    <2>1. t \in [1 .. c -> Entries]
      BY <1>5 DEF t
    <2> QED
      BY <1>4, <2>1
  <1>7. /\ buffer' \in Seq(Entries) /\ Len(buffer') = Len(buffer) + Len(t)
        /\ Len(buffer) \in Nat /\ Len(t) \in Nat
        /\ \A k \in 1 .. Len(buffer) : buffer'[k] = buffer[k]
        /\ \A k \in 1 .. Len(t) : buffer'[Len(buffer) + k] = t[k]
        /\ \A k \in 1 .. Len(buffer') :
                k \in 1 .. Len(buffer) \/ \E i \in 1 .. Len(t) : k = Len(buffer) + i
        /\ \A loc, w : Pending(loc, w)' <=>
                Pending(loc, w) \/ \E i \in 1 .. Len(t) : t[i].loc = loc /\ t[i].worker = w
    BY <1>1, <1>3, <1>4, <1>6, ManyStores
  (* An element without a store keeps its slice. *)
  <1>8. ASSUME NEW w \in Workers, w + 1 \notin 1 .. c PROVE items'[w] = items[w]
    <2>1. n <= w /\ w \in Nat
      BY <1>4, <1>8, WorkerCntAssumption DEF Workers, c
    <2>2. Share(w, n) = << >>
      BY <1>4, <2>1, NoShare
    <2>3. items'[w] = items[w] \o << >> /\ items[w] \in Seq(Tasks)
      BY <1>2, <1>4, <2>2
    <2> QED
      BY <2>3
  <1>9. FlagInv' /\ WaitInv'
    BY <1>2 DEF MemInv, FlagInv, WaitInv, Out, Killing
  <1>10. ASSUME NEW w \in Workers, w + 1 \in 1 .. c
         PROVE  /\ t[w + 1].loc = "items" /\ t[w + 1].worker = w
                /\ w + 1 \in 1 .. Len(t)
    <2>1. w + 1 - 1 = w
      BY DEF Workers
    <2>2. \A k \in 1 .. c : t[k].loc = "items" /\ t[k].worker = k - 1
      BY <1>5
    <2> QED
      BY <1>6, <1>10, <2>1, <2>2 DEF Workers
  <1>11. ASSUME NEW k \in 1 .. Len(buffer) PROVE StoredInv(k)'
    <2>1. StoredInv(k) /\ buffer'[k] = buffer[k] /\ buffer[k].worker \in Workers
      <3>1. buffer[k] \in Entries
        BY <1>4
      <3> QED
        BY <1>7, <3>1 DEF MemInv, BufferInv, Entries
    <2>2. PendingLocs' = PendingLocs
      BY <1>2 DEF PendingLocs
    <2>3. ASSUME buffer[k].loc = "items"
          PROVE  \/ buffer[k].val = items'[buffer[k].worker]
                 \/ \E j \in k + 1 .. Len(buffer') :
                      buffer'[j].loc = "items" /\ buffer'[j].worker = buffer[k].worker
      <3> DEFINE w == buffer[k].worker
      <3>1. CASE w + 1 \in 1 .. c
        <4>1. /\ Len(buffer) + (w + 1) \in k + 1 .. Len(buffer')
              /\ buffer'[Len(buffer) + (w + 1)] = t[w + 1]
          BY SMTT(30), <1>6, <1>7, <2>1, <3>1 DEF Workers
        <4> QED
          BY <1>10, <2>1, <3>1, <4>1
      <3>2. CASE w + 1 \notin 1 .. c
        <4>1. items'[w] = items[w]
          BY <1>8, <2>1, <3>2
        <4>2. CASE buffer[k].val = items[w]
          BY <4>1, <4>2
        <4>3. CASE \E j \in k + 1 .. Len(buffer) :
                      buffer[j].loc = "items" /\ buffer[j].worker = w
          <5>1. PICK j \in k + 1 .. Len(buffer) :
                      buffer[j].loc = "items" /\ buffer[j].worker = w
            BY <4>3
          <5>2. j \in k + 1 .. Len(buffer') /\ buffer'[j] = buffer[j]
            BY <1>7
          <5> QED
            BY <5>1, <5>2
        <4> QED
          BY <2>1, <2>3, <4>2, <4>3 DEF StoredInv
      <3> QED
        BY <3>1, <3>2
    <2> QED
      BY <1>2, <2>1, <2>2, <2>3 DEF StoredInv
  <1>12. ASSUME NEW i \in 1 .. Len(t), NEW k, k = Len(buffer) + i PROVE StoredInv(k)'
    <2>1. buffer'[k] = t[i] /\ i \in 1 .. c
      BY <1>6, <1>7, <1>12
    <2>2. "items" \in PendingLocs'
      BY <1>2 DEF PendingLocs
    <2> QED
      BY <1>5, <2>1, <2>2 DEF StoredInv
  <1>13. BufferInv'
    <2>1. ASSUME NEW k \in 1 .. Len(buffer') PROVE StoredInv(k)'
      BY <1>7, <1>11, <1>12
    <2>2. ASSUME NEW k \in 1 .. Len(buffer') PROVE buffer'[k].loc # "correlation"
      <3>1. buffer'[k].loc \in PendingLocs'
        BY <2>1 DEF StoredInv
      <3> QED
        BY <1>2, <3>1 DEF PendingLocs
    <2> QED
      BY <2>1, <2>2 DEF BufferInv
  <1>14. SeenInv'
    <2>1. \A loc, w : loc # "items" => (Pending(loc, w)' <=> Pending(loc, w))
      BY <1>5, <1>6, <1>7
    <2>2. ASSUME NEW w \in Workers, ~Pending("items", w)' PROVE mem_items'[w] = items'[w]
      <3>1. ~Pending("items", w) /\ w + 1 \notin 1 .. c
        BY <1>7, <1>10, <2>2
      <3> QED
        BY <1>1, <1>8, <3>1 DEF MemInv, SeenInv, mem_vars
    <2> QED
      BY <1>1, <1>2, <2>1, <2>2 DEF MemInv, SeenInv, mem_vars
  <1>15. ASSUME NEW v \in Workers PROVE MemWorkerInv(v)'
    BY <1>1, <1>2 DEF MemInv, MemWorkerInv, Out, mem_vars
  <1>16. SliceIsFresh'
    <2> SUFFICES ASSUME NEW w \in Workers, wpc[w] = "returned", ~mem_die PROVE FALSE
      BY <1>1 DEF SliceIsFresh, mem_vars
    <2>1. W!Touching(w)
      BY DEF W!Touching
    <2> QED
      BY <1>2, <2>1 DEF MemInv, MemWorkerInv, Out
  <1> QED
    BY <1>1, <1>7, <1>9, <1>13, <1>14, <1>15, <1>16 DEF MemInv, MemTypeOK

LEMMA ClearStep ==
    ASSUME MemInv, ~Reordered, BrokerStep, Clear
    PROVE  MemInv'
  <1>1. /\ Broker /\ TypeOK' /\ W!TypeOK' /\ UNCHANGED mem_vars
        /\ wpc' = wpc /\ wcorr' = wcorr /\ tasks' = tasks
        /\ \A v \in Workers : W!Touching(v)' <=> W!Touching(v)
        /\ buffer' = buffer \o Stores
    BY BrokerFrame
  <1>2. /\ mpc = "clear" /\ mpc' = "get_panic"
        /\ items' = [w \in Workers |-> << >>] /\ done' = [w \in Workers |-> FALSE]
        /\ UNCHANGED <<lock_state, lock_correlation, park_workers, die_order>>
    BY DEF Clear, Goto
  <1> DEFINE Of(k) == (k - 1) \div 2
             t == [k \in 1 .. 2 * WorkerCnt |->
                    IF k = 2 * Of(k) + 1 THEN Store("items", Of(k), items'[Of(k)])
                                         ELSE Store("done", Of(k), done'[Of(k)])]
  <1>3. Stores = t
    BY <1>2, StoresByStep
  <1>4. buffer \in Seq(Entries) /\ 2 * WorkerCnt \in Nat
    BY WorkerCntAssumption DEF MemInv, MemTypeOK
  <1>5. ASSUME NEW k \in 1 .. 2 * WorkerCnt PROVE Of(k) \in Workers
    BY WorkerCntAssumption DEF Workers
  <1>6. ASSUME NEW w \in Workers
        PROVE  /\ 2 * w + 1 \in 1 .. 2 * WorkerCnt /\ Of(2 * w + 1) = w
               /\ 2 * w + 2 \in 1 .. 2 * WorkerCnt /\ Of(2 * w + 2) = w
               /\ 2 * w + 2 # 2 * w + 1
    BY WorkerCntAssumption DEF Workers
  <1> HIDE DEF Of
  <1>7. ASSUME NEW k \in 1 .. 2 * WorkerCnt
        PROVE  /\ t[k] \in Entries /\ t[k].worker = Of(k)
               /\ \/ t[k].loc = "items" /\ t[k].val = << >>
                  \/ t[k].loc = "done" /\ t[k].val = FALSE
               /\ t[k].loc = "items" <=> k = 2 * Of(k) + 1
    <2>1. items'[Of(k)] = << >> /\ done'[Of(k)] = FALSE /\ Of(k) \in Workers
      BY <1>2, <1>5
    <2>2. (mpc = "unpark_flag") \in BOOLEAN /\ << >> \in Seq(Tasks)
      OBVIOUS
    <2>3. Store("items", Of(k), << >>) \in Entries /\ Store("done", Of(k), FALSE) \in Entries
      BY <2>1, <2>2 DEF Store, Entries, Locs
    <2>4. t[k] = IF k = 2 * Of(k) + 1 THEN Store("items", Of(k), << >>)
                                      ELSE Store("done", Of(k), FALSE)
      BY <2>1
    <2> QED
      BY <2>3, <2>4 DEF Store
  <1> HIDE DEF t
  <1>8. t \in Seq(Entries) /\ Len(t) = 2 * WorkerCnt
    <2>1. t \in [1 .. 2 * WorkerCnt -> Entries]
      BY <1>7 DEF t
    <2> QED
      BY <1>4, <2>1
  <1>9. /\ buffer' \in Seq(Entries) /\ Len(buffer') = Len(buffer) + Len(t)
        /\ Len(buffer) \in Nat /\ Len(t) \in Nat
        /\ \A k \in 1 .. Len(buffer) : buffer'[k] = buffer[k]
        /\ \A k \in 1 .. Len(t) : buffer'[Len(buffer) + k] = t[k]
        /\ \A k \in 1 .. Len(buffer') :
                k \in 1 .. Len(buffer) \/ \E i \in 1 .. Len(t) : k = Len(buffer) + i
        /\ \A loc, w : Pending(loc, w)' <=>
                Pending(loc, w) \/ \E i \in 1 .. Len(t) : t[i].loc = loc /\ t[i].worker = w
    BY <1>1, <1>3, <1>4, <1>8, ManyStores
  <1>10. FlagInv' /\ WaitInv'
    BY <1>2 DEF MemInv, FlagInv, WaitInv, Out, Killing
  <1>11. ASSUME NEW k \in 1 .. Len(buffer) PROVE StoredInv(k)' /\ buffer'[k].loc = "state"
    <2>1. StoredInv(k) /\ buffer'[k] = buffer[k]
      BY <1>4, <1>9 DEF MemInv, BufferInv
    <2>2. PendingLocs = {"state"} /\ "state" \in PendingLocs'
      BY <1>2 DEF PendingLocs
    <2> QED
      BY <1>2, <2>1, <2>2 DEF StoredInv
  <1>12. ASSUME NEW i \in 1 .. Len(t), NEW k, k = Len(buffer) + i
         PROVE  StoredInv(k)' /\ buffer'[k].loc # "correlation"
    <2>1. buffer'[k] = t[i] /\ i \in 1 .. 2 * WorkerCnt
      BY <1>8, <1>9, <1>12
    <2>2. "items" \in PendingLocs' /\ "done" \in PendingLocs'
      BY <1>2 DEF PendingLocs
    <2>3. t[i].worker \in Workers /\ items'[t[i].worker] = << >> /\ << >> \in Seq(Tasks)
      <3>1. t[i].worker = Of(i) /\ Of(i) \in Workers
        BY <1>5, <1>7, <2>1
      <3>2. << >> \in Seq(Tasks)
        OBVIOUS
      <3> QED
        BY <1>2, <3>1, <3>2
    <2>4. \/ t[i].loc = "items" /\ t[i].val = << >>
          \/ t[i].loc = "done" /\ t[i].val = FALSE
      BY <1>7, <2>1
    <2> QED
      BY <2>1, <2>2, <2>3, <2>4 DEF StoredInv
  <1>13. BufferInv'
    <2>1. ASSUME NEW k \in 1 .. Len(buffer')
          PROVE  StoredInv(k)' /\ buffer'[k].loc # "correlation"
      <3>1. CASE k \in 1 .. Len(buffer)
        BY <1>11, <3>1
      <3>2. CASE \E i \in 1 .. Len(t) : k = Len(buffer) + i
        BY <1>12, <3>2
      <3> QED
        BY <1>9, <3>1, <3>2
    <2> QED
      BY <2>1 DEF BufferInv
  <1>14. ASSUME NEW w \in Workers PROVE Pending("items", w)' /\ Pending("done", w)'
    <2>1. t[2 * w + 1].loc = "items" /\ t[2 * w + 1].worker = w
      BY <1>6, <1>7
    <2>2. t[2 * w + 2].loc = "done" /\ t[2 * w + 2].worker = w
      BY ZenonT(30), <1>6, <1>7
    <2>3. 2 * w + 1 \in 1 .. Len(t) /\ 2 * w + 2 \in 1 .. Len(t)
      BY <1>6, <1>8
    <2> QED
      BY <1>9, <2>1, <2>2, <2>3
  <1>15. SeenInv'
    <2>1. \A loc, w : loc # "items" /\ loc # "done" => (Pending(loc, w)' <=> Pending(loc, w))
      <3>1. \A i \in 1 .. Len(t) : t[i].loc = "items" \/ t[i].loc = "done"
        BY <1>7, <1>8
      <3> QED
        BY <1>9, <3>1
    <2> QED
      BY <1>1, <1>2, <1>14, <2>1 DEF MemInv, SeenInv, mem_vars
  <1>16. ASSUME NEW v \in Workers PROVE MemWorkerInv(v)' /\ ~W!Touching(v)
    <2>1. MemWorkerInv(v) /\ ~done'[v] /\ mem_correlation' = mem_correlation
      BY <1>1, <1>2 DEF MemInv, mem_vars
    <2>2. ~Out /\ mpc # "free"
      BY <1>2 DEF Out
    <2>3. wpc[v] # "take" /\ ~W!Touching(v) /\ wpc[v] # "state_check"
          /\ wcorr[v] = mem_correlation
      BY <2>1, <2>2 DEF MemWorkerInv
    <2> QED
      BY <1>1, <1>2, <2>1, <2>2, <2>3 DEF MemWorkerInv
  <1>17. SliceIsFresh'
    BY <1>1, <1>16 DEF SliceIsFresh, W!Touching, mem_vars
  <1> QED
    BY <1>1, <1>9, <1>10, <1>13, <1>15, <1>16, <1>17 DEF MemInv, MemTypeOK

LEMMA BrokerMemInv == MemInv /\ ~Reordered /\ BrokerStep => MemInv'
  <1> SUFFICES ASSUME MemInv, ~Reordered, BrokerStep PROVE MemInv'
    OBVIOUS
  <1>1. ASSUME NEW n \in 1 .. WorkerCnt * LOCK_STEP_ELEM_SIZE, Fill(n) PROVE MemInv'
    BY <1>1, FillStep
  <1>2. CASE Clear
    BY <1>2, ClearStep
  <1>3. CASE \/ BumpCorrelation \/ FreeLock \/ ClearParkFlag \/ CloseLock \/ KillOrder
             \/ KillFlag
    BY <1>3, FieldStep
  <1>4. CASE \/ Unpark \/ AwaitDone \/ TakePanic \/ Drain \/ Finish \/ KillUnpark \/ Join
    BY <1>4, SilentStep
  <1> QED
    BY <1>1, <1>2, <1>3, <1>4 DEF BrokerStep, Broker

-----------------------------------------------------------------------------
(* A store is committed: the oldest one. *)
LEMMA CommitMemInv ==
    ASSUME MemInv, ~Reordered, NEW n \in DOMAIN buffer, Commit(n)
    PROVE  MemInv'
  <1> DEFINE s == buffer[1]
  <1>1. /\ buffer \in Seq(Entries) /\ buffer # << >> /\ 1 \in 1 .. Len(buffer)
        /\ Len(buffer) \in Nat /\ DOMAIN buffer = 1 .. Len(buffer)
    BY DEF MemInv, MemTypeOK
  <1>2. /\ n = 1 /\ buffer' = RemoveAt(buffer, 1) /\ UNCHANGED vars
        /\ mem_state' = IF s.loc = "state" THEN s.val ELSE mem_state
        /\ mem_correlation' = IF s.loc = "correlation" THEN s.val ELSE mem_correlation
        /\ mem_park' = IF s.loc = "park" THEN s.val ELSE mem_park
        /\ mem_die' = IF s.loc = "die" THEN s.val ELSE mem_die
        /\ mem_items' = IF s.loc = "items" THEN [mem_items EXCEPT ![s.worker] = s.val]
                                           ELSE mem_items
        /\ mem_done' = IF s.loc = "done" THEN [mem_done EXCEPT ![s.worker] = s.val]
                                         ELSE mem_done
    BY DEF Commit, Commits
  <1>3. /\ UNCHANGED <<lock_state, lock_correlation, park_workers, die_order, items, done,
                       panicked, panic, token, mpc, mi, range_start, count, wpc, wcorr,
                       tasks, runs>>
    BY <1>2 DEF vars, chan_vars, broker_vars, worker_vars
  <1>4. /\ buffer' \in Seq(Entries) /\ Len(buffer') = Len(buffer) - 1
        /\ \A k \in 1 .. Len(buffer) - 1 : buffer'[k] = buffer[k + 1]
        /\ DOMAIN buffer' = 1 .. Len(buffer')
    <2>1. /\ buffer' \in Seq(Entries) /\ Len(buffer') = Len(buffer) - 1
          /\ \A k \in 1 .. Len(buffer) - 1 : buffer'[k] = buffer[k + 1]
      BY <1>1, <1>2, RestByPosition
    <2> QED
      BY <2>1
  <1>5. \A k \in 1 .. Len(buffer') :
            k + 1 \in 1 .. Len(buffer) /\ k + 1 # 1 /\ buffer'[k] = buffer[k + 1]
    BY <1>1, <1>4
  <1>6. \A k \in 1 .. Len(buffer) : k = 1 \/ (k - 1 \in 1 .. Len(buffer') /\ k - 1 + 1 = k)
    BY <1>1, <1>4
  <1>7. s \in Entries /\ s.worker \in Workers /\ s.loc \in Locs /\ StoredInv(1)
    <2>1. s \in Entries
      BY <1>1
    <2>2. StoredInv(1)
      BY <1>1 DEF MemInv, BufferInv
    <2> QED
      BY <2>1, <2>2 DEF Entries
  <1>8. ASSUME NEW loc, NEW w
        PROVE  Pending(loc, w) <=> Pending(loc, w)' \/ (s.loc = loc /\ s.worker = w)
    <2>1. ASSUME NEW k \in 1 .. Len(buffer), buffer[k].loc = loc, buffer[k].worker = w, k # 1
          PROVE  \E j \in 1 .. Len(buffer') : buffer'[j].loc = loc /\ buffer'[j].worker = w
      <3>1. k - 1 \in 1 .. Len(buffer') /\ buffer'[k - 1] = buffer[k]
        BY <1>5, <1>6, <2>1
      <3> QED
        BY <2>1, <3>1
    <2>2. ASSUME NEW k \in 1 .. Len(buffer'), buffer'[k].loc = loc, buffer'[k].worker = w
          PROVE  \E j \in 1 .. Len(buffer) : buffer[j].loc = loc /\ buffer[j].worker = w
      BY <1>5, <2>2
    <2> QED
      BY <1>1, <1>4, <2>1, <2>2 DEF Pending
  <1>9. TypeOK'
    BY <1>2, NextTypeOK DEF MemInv, MemTypeOK
  <1>10. W!TypeOK'
    <2>1. /\ lock_state \in {"WRITING", "FREE"} /\ lock_correlation \in Nat
          /\ W!TypeOK
      BY DEF MemInv, MemTypeOK, TypeOK
    <2>2. s.loc = "state" => s.val \in {"WRITING", "FREE"}
      BY <1>7, <2>1 DEF StoredInv
    <2>3. s.loc = "correlation" => s.val \in Nat
      BY <1>7, <2>1 DEF StoredInv
    <2>4. /\ s.loc = "park" => s.val \in BOOLEAN
          /\ s.loc = "die" => s.val \in BOOLEAN
          /\ s.loc = "done" => s.val \in BOOLEAN
          /\ s.loc = "items" => s.val \in Seq(W!Tasks)
      BY <1>7 DEF StoredInv, W!Tasks, Tasks
    <2> USE DEF W!TypeOK
    <2>5. mem_state' \in {"WRITING", "FREE"} /\ mem_correlation' \in Nat
      BY <1>2, <2>1, <2>2, <2>3
    <2>6. mem_park' \in BOOLEAN /\ mem_die' \in BOOLEAN
      BY <1>2, <2>1, <2>4
    <2>7. mem_items' \in [W!Workers -> Seq(W!Tasks)]
      BY <1>2, <2>1, <2>4
    <2>8. mem_done' \in [W!Workers -> BOOLEAN]
      BY <1>2, <2>1, <2>4
    <2> QED
      BY <1>3, <2>1, <2>5, <2>6, <2>7, <2>8
  <1>11. /\ mem_items \in [Workers -> Seq(Tasks)] /\ mem_done \in [Workers -> BOOLEAN]
         /\ lock_correlation \in Nat /\ mem_correlation \in Nat
    BY DEF MemInv, MemTypeOK, TypeOK, W!TypeOK, W!Workers, W!Tasks, Workers, Tasks
  <1>12. FlagInv' /\ WaitInv'
    BY <1>3 DEF MemInv, FlagInv, WaitInv, Out, Killing
  <1>13. BufferInv'
    <2>1. ASSUME NEW k \in 1 .. Len(buffer') PROVE StoredInv(k)'
      <3>1. k + 1 \in 1 .. Len(buffer) /\ StoredInv(k + 1) /\ buffer'[k] = buffer[k + 1]
        BY <1>5 DEF MemInv, BufferInv
      <3>2. ASSUME NEW j \in k + 1 + 1 .. Len(buffer)
            PROVE  j - 1 \in k + 1 .. Len(buffer') /\ buffer'[j - 1] = buffer[j]
        <4>1. j - 1 \in k + 1 .. Len(buffer') /\ j - 1 \in 1 .. Len(buffer') /\ j - 1 + 1 = j
          BY <1>1, <1>4
        <4> QED
          BY <1>5, <4>1
      <3>3. PendingLocs' = PendingLocs
        BY <1>3 DEF PendingLocs
      <3> QED
        BY <1>3, <3>1, <3>2, <3>3 DEF StoredInv
    <2>2. ASSUME NEW j \in 1 .. Len(buffer'), NEW k \in 1 .. Len(buffer'),
                 buffer'[j].loc = "correlation", buffer'[k].loc = "correlation"
          PROVE  j = k
      <3>1. j + 1 = k + 1
        BY <1>5, <2>2 DEF MemInv, BufferInv
      <3> QED
        BY <3>1
    <2> QED
      BY <2>1, <2>2 DEF BufferInv
  <1>14. SeenInv'
    <2>2. ~Pending("state", 0)' => mem_state' = lock_state
      BY <1>2, <1>7, <1>8 DEF MemInv, SeenInv, StoredInv
    <2>3. s.loc = "correlation" => /\ Pending("correlation", s.worker)
                                   /\ ~\E w : Pending("correlation", w)'
      <3>1. ASSUME s.loc = "correlation", NEW w, Pending("correlation", w)' PROVE FALSE
        <4>1. PICK k \in 1 .. Len(buffer') : buffer'[k].loc = "correlation"
          BY <1>4, <3>1 DEF Pending
        <4>2. k + 1 = 1
          BY <1>1, <1>5, <3>1, <4>1 DEF MemInv, BufferInv
        <4> QED
          BY <1>5, <4>2
      <3> QED
        BY <1>8, <3>1
    <2>4. lock_correlation = IF Pending("correlation", 0)' THEN mem_correlation' + 1
                                                           ELSE mem_correlation'
      <3>1. CASE s.loc = "correlation"
        BY <1>2, <1>7, <2>3, <3>1 DEF StoredInv
      <3>2. CASE s.loc # "correlation"
        <4>1. Pending("correlation", 0)' <=> Pending("correlation", 0)
          BY <1>8, <3>2
        <4> QED
          BY <1>2, <3>2, <4>1 DEF MemInv, SeenInv
      <3> QED
        BY <3>1, <3>2
    <2>5. mem_die' => die_order
      <3>1. s.loc = "die" => die_order
        BY <1>7 DEF StoredInv, PendingLocs, MemInv, FlagInv, Killing
      <3> QED
        BY <1>2, <3>1 DEF MemInv, SeenInv
    <2>6. ASSUME NEW w \in Workers, ~Pending("items", w)' PROVE mem_items'[w] = items[w]
      <3>1. CASE s.loc = "items" /\ s.worker = w
        <4>1. ~\E j \in 1 + 1 .. Len(buffer) : buffer[j].loc = "items" /\ buffer[j].worker = w
          <5>1. ASSUME NEW j \in 1 + 1 .. Len(buffer), buffer[j].loc = "items",
                       buffer[j].worker = w
                PROVE  FALSE
            <6>1. j - 1 \in 1 .. Len(buffer') /\ buffer'[j - 1] = buffer[j]
              BY <1>1, <1>4, <1>5
            <6> QED
              BY <1>4, <2>6, <5>1, <6>1 DEF Pending
          <5> QED
            BY <5>1
        <4>2. s.val = items[w]
          BY <1>7, <3>1, <4>1 DEF StoredInv
        <4> QED
          BY <1>2, <1>11, <3>1, <4>2
      <3>2. CASE ~(s.loc = "items" /\ s.worker = w)
        <4>1. ~Pending("items", w)
          BY <1>8, <2>6, <3>2
        <4> QED
          BY <1>2, <1>7, <1>11, <3>2, <4>1 DEF MemInv, SeenInv
      <3> QED
        BY <3>1, <3>2
    <2>7. ASSUME NEW w \in Workers
          PROVE  IF Pending("done", w)' THEN ~done[w] ELSE done[w] = mem_done'[w]
      <3>1. CASE s.loc = "done" /\ s.worker = w
        <4>1. Pending("done", w) /\ s.val = FALSE
          BY <1>7, <1>8, <3>1 DEF StoredInv
        <4>2. ~done[w] /\ done[w] \in BOOLEAN
          BY <4>1 DEF MemInv, SeenInv, MemTypeOK, TypeOK
        <4>3. mem_done'[w] = FALSE
          BY <1>2, <1>11, <3>1, <4>1
        <4> QED
          BY <4>2, <4>3
      <3>2. CASE ~(s.loc = "done" /\ s.worker = w)
        <4>1. Pending("done", w)' <=> Pending("done", w)
          BY <1>8, <3>2
        <4>2. mem_done'[w] = mem_done[w]
          BY <1>2, <1>7, <1>11, <3>2
        <4> QED
          BY <4>1, <4>2 DEF MemInv, SeenInv
      <3> QED
        BY <3>1, <3>2
    <2> QED
      BY <1>3, <2>2, <2>4, <2>5, <2>6, <2>7 DEF SeenInv
  <1>15. ASSUME NEW v \in Workers PROVE MemWorkerInv(v)' /\ (W!Touching(v)' => W!Touching(v))
    <2>1. mem_die => mem_die'
      BY <1>2, <1>7 DEF StoredInv
    <2>2. W!Touching(v)' => W!Touching(v)
      BY <1>3, <2>1 DEF W!Touching
    <2>3. MemWorkerInv(v) /\ wcorr[v] \in Nat /\ wcorr' = wcorr
      BY <1>3 DEF MemInv, MemTypeOK, TypeOK
    <2>4. CASE s.loc = "correlation"
      <3>1. Pending("correlation", 0)
        <4>1. s.worker = 0
          BY <1>7, <2>4 DEF StoredInv
        <4> QED
          BY <1>8, <2>4, <4>1
      <3>2. mem_correlation + 1 = lock_correlation /\ mem_correlation' = lock_correlation
        BY <1>2, <1>7, <2>4, <3>1 DEF MemInv, SeenInv, StoredInv
      <3>3. wcorr[v] + 1 = lock_correlation
        BY <1>11, <2>3, <3>2 DEF MemWorkerInv
      <3>4. mpc = "free" \/ Out
        BY <1>7, <2>4 DEF StoredInv, PendingLocs, Out
      <3>5. ~done[v] /\ wpc[v] # "state_check" /\ wpc[v] # "take" /\ ~W!Touching(v)
        BY <1>11, <2>3, <3>2, <3>3 DEF MemWorkerInv
      <3> QED
        BY <1>3, <2>2, <2>3, <3>2, <3>3, <3>4, <3>5 DEF MemWorkerInv, Out
    <2>5. CASE s.loc # "correlation"
      <3>1. mem_correlation' = mem_correlation
        BY <1>2, <2>5
      <3> QED
        BY <1>3, <2>2, <2>3, <3>1 DEF MemWorkerInv, Out
    <2> QED
      BY <2>2, <2>4, <2>5
  <1>16. SliceIsFresh'
    <2>1. mem_die => mem_die'
      BY <1>2, <1>7 DEF StoredInv
    <2> QED
      BY <1>3, <2>1 DEF MemInv, SliceIsFresh
  <1> QED
    BY <1>3, <1>4, <1>9, <1>10, <1>12, <1>13, <1>14, <1>15, <1>16 DEF MemInv, MemTypeOK

-----------------------------------------------------------------------------
(* A step of a worker: what it is given and what it shows the broker. *)
LEMMA WorkerTypes ==
    ASSUME MemInv, NEW w \in Workers, WorkerStep(w) \/ SpuriousStep(w)
    PROVE  /\ W!TypeOK' /\ TypeOK' /\ buffer' = buffer
           /\ UNCHANGED <<lock_state, lock_correlation, park_workers, die_order, items>>
           /\ UNCHANGED <<mem_state, mem_correlation, mem_park, mem_die, mem_items>>
           /\ UNCHANGED <<mpc, mi, range_start, count>>
           /\ \A loc, v : Pending(loc, v)' <=> Pending(loc, v)
           /\ done' = [v \in Workers |-> IF Pending("done", v) THEN done[v] ELSE mem_done'[v]]
  <1> USE DEF W!Move, W!chan_vars, W!broker_vars
  <1>1. W!TypeOK /\ TypeOK /\ (W!Worker(w) \/ W!SpuriousWakeup(w)) /\ Reads(w)
        /\ w \in W!Workers
    BY DEF MemInv, MemTypeOK, WorkerStep, SpuriousStep, W!Workers, Workers
  <1>2. /\ UNCHANGED <<mem_state, mem_correlation, mem_park, mem_die, mem_items>>
        /\ UNCHANGED <<mpc, mi, range_start, count>>
    BY <1>1 DEF W!Worker, W!SpuriousWakeup, W!ParkCheck, W!Park, W!DieCheck, W!CorrCheck,
       W!StateCheck, W!Take, W!Returned, W!Invoke, W!InvokePanics, W!SliceEnds, W!Done,
       W!StorePayload, W!PayloadPresent, W!RaisePanicked
  <1>3. W!TypeOK'
    <2> USE DEF W!WorkerPcs
    <2>1. CASE W!ParkCheck(w)
      BY <1>1, <2>1 DEF W!ParkCheck, W!TypeOK
    <2>2. CASE W!Park(w)
      BY <1>1, <2>2 DEF W!Park, W!TypeOK
    <2>3. CASE W!DieCheck(w)
      BY <1>1, <2>3 DEF W!DieCheck, W!TypeOK
    <2>4. CASE W!CorrCheck(w)
      BY <1>1, <2>4 DEF W!CorrCheck, W!TypeOK
    <2>5. CASE W!StateCheck(w)
      BY <1>1, <2>5 DEF W!StateCheck, W!TypeOK
    <2>6. CASE W!Take(w)
      BY <1>1, <2>6 DEF W!Take, W!TypeOK
    <2>7. CASE W!Returned(w)
      BY <1>1, <2>7 DEF W!Returned, W!TypeOK
    <2>8. CASE W!Invoke(w)
      BY <1>1, <2>8 DEF W!Invoke, W!TypeOK
    <2>9. CASE W!InvokePanics(w)
      BY <1>1, <2>9 DEF W!InvokePanics, W!TypeOK
    <2>10. CASE W!SliceEnds(w)
      BY <1>1, <2>10 DEF W!SliceEnds, W!TypeOK
    <2>11. CASE W!Done(w)
      BY <1>1, <2>11 DEF W!Done, W!TypeOK
    <2>12. CASE W!StorePayload(w)
      BY <1>1, <2>12 DEF W!StorePayload, W!TypeOK
    <2>13. CASE W!PayloadPresent(w)
      BY <1>1, <2>13 DEF W!PayloadPresent, W!TypeOK
    <2>14. CASE W!RaisePanicked(w)
      BY <1>1, <2>14 DEF W!RaisePanicked, W!TypeOK
    <2>15. CASE W!SpuriousWakeup(w)
      BY <1>1, <2>15 DEF W!SpuriousWakeup, W!TypeOK
    <2> QED
      BY <1>1, <2>1, <2>2, <2>3, <2>4, <2>5, <2>6, <2>7, <2>8, <2>9, <2>10, <2>11,
         <2>12, <2>13, <2>14, <2>15 DEF W!Worker
  <1>4. /\ UNCHANGED <<lock_state, lock_correlation, park_workers, die_order, items>>
        /\ buffer' = buffer
        /\ done' = [v \in Workers |-> IF Pending("done", v) THEN done[v] ELSE mem_done'[v]]
    BY <1>1 DEF Reads
  <1>5. TypeOK'
    <2>1. done' \in [Workers -> BOOLEAN]
      BY <1>1, <1>3, <1>4 DEF TypeOK, W!TypeOK, W!Workers, Workers
    <2>2. UNCHANGED <<mpc, mi, range_start, count>>
      BY <1>2
    <2> QED
      BY <1>1, <1>3, <1>4, <2>1, <2>2 DEF TypeOK, W!TypeOK, W!Workers, W!Tasks, W!BrokerPcs,
         W!WorkerPcs, W!NoPanic, Workers, Tasks, BrokerPcs, WorkerPcs, NoPanic
  <1>6. \A loc, v : Pending(loc, v)' <=> Pending(loc, v)
    BY <1>4 DEF Pending
  <1> QED
    BY <1>2, <1>3, <1>4, <1>5, <1>6

(* The broker sees no change of an element but by its worker's done(). *)
LEMMA WorkerKeeps ==
    ASSUME MemInv, NEW w \in Workers, WorkerStep(w) \/ SpuriousStep(w),
           \/ mem_done' = mem_done
           \/ mem_done' = [mem_done EXCEPT ![w] = TRUE] /\ Out
    PROVE  /\ FlagInv' /\ BufferInv' /\ SeenInv' /\ WaitInv'
           /\ \A v \in Workers : v # w => done'[v] = done[v]
           /\ done'[w] = (done[w] \/ mem_done' # mem_done)
           /\ mem_done' = mem_done => done' = done
  <1>1. /\ W!TypeOK' /\ TypeOK' /\ buffer' = buffer
        /\ UNCHANGED <<lock_state, lock_correlation, park_workers, die_order, items>>
        /\ UNCHANGED <<mem_state, mem_correlation, mem_park, mem_die, mem_items>>
        /\ UNCHANGED <<mpc, mi, range_start, count>>
        /\ \A loc, v : Pending(loc, v)' <=> Pending(loc, v)
        /\ done' = [v \in Workers |-> IF Pending("done", v) THEN done[v] ELSE mem_done'[v]]
    BY WorkerTypes
  <1>2. TypeOK /\ W!TypeOK /\ SeenInv
    BY DEF MemInv, MemTypeOK
  <1>3. done \in [Workers -> BOOLEAN] /\ mem_done \in [Workers -> BOOLEAN]
    BY <1>2 DEF TypeOK, W!TypeOK, W!Workers, Workers
  <1>4. \A v \in Workers : IF Pending("done", v) THEN ~done[v] ELSE done[v] = mem_done[v]
    BY <1>2 DEF SeenInv
  <1>5. mem_done' = mem_done => done' = done
    BY <1>1, <1>3, <1>4
  <1>6. Out => ~Pending("done", w)
    <2>1. ASSUME Out, Pending("done", w) PROVE FALSE
      <3>1. PICK k \in DOMAIN buffer : buffer[k].loc = "done"
        BY <2>1 DEF Pending
      <3>2. k \in 1 .. Len(buffer) /\ StoredInv(k)
        BY <3>1 DEF MemInv, MemTypeOK, BufferInv
      <3> QED
        BY <2>1, <3>1, <3>2 DEF StoredInv, PendingLocs, Out
    <2> QED
      BY <2>1
  <1>7. /\ \A v \in Workers : v # w => done'[v] = done[v]
        /\ \A v \in Workers : done[v] => done'[v]
    BY <1>1, <1>3, <1>4
  <1>8. done'[w] = (done[w] \/ mem_done' # mem_done)
    <2>1. CASE mem_done' = mem_done
      BY <1>3, <1>5, <2>1
    <2>2. CASE mem_done' # mem_done
      <3>1. mem_done'[w] = TRUE /\ done'[w] = mem_done'[w]
        BY <1>1, <1>3, <1>6, <2>2
      <3> QED
        BY <2>2, <3>1
    <2> QED
      BY <2>1, <2>2
  <1>9. FlagInv' /\ WaitInv'
    <2>1. WaitInv'
      BY <1>1, <1>7 DEF MemInv, WaitInv
    <2>2. FlagInv'
      BY <1>1 DEF MemInv, FlagInv, Out, Killing
    <2> QED
      BY <2>1, <2>2
  <1>10. BufferInv'
    <2>1. PendingLocs' = PendingLocs
      BY <1>1 DEF PendingLocs
    <2>2. ASSUME NEW k \in 1 .. Len(buffer) PROVE StoredInv(k)'
      BY <1>1, <2>1 DEF MemInv, BufferInv, StoredInv
    <2> QED
      BY <1>1, <2>2 DEF MemInv, BufferInv
  <1>11. SeenInv'
    <2>1. ASSUME NEW v \in Workers
          PROVE  IF Pending("done", v)' THEN ~done'[v] ELSE done'[v] = mem_done'[v]
      BY <1>1, <1>4
    <2> QED
      BY <1>1, <1>2, <2>1 DEF SeenInv
  <1> QED
    BY <1>5, <1>7, <1>8, <1>9, <1>10, <1>11

(* What is left to show of a step: the clauses about the worker that makes it. *)
LEMMA OwnClauses ==
    ASSUME MemInv, NEW w \in Workers, WorkerStep(w) \/ SpuriousStep(w),
           \/ mem_done' = mem_done
           \/ mem_done' = [mem_done EXCEPT ![w] = TRUE] /\ Out,
           \A v \in Workers : v # w =>
                wpc'[v] = wpc[v] /\ wcorr'[v] = wcorr[v] /\ tasks'[v] = tasks[v],
           MemWorkerInv(w)', wpc'[w] = "returned" /\ ~mem_die => tasks'[w] = items[w]
    PROVE  MemInv'
  <1>1. /\ W!TypeOK' /\ TypeOK' /\ buffer' = buffer
        /\ UNCHANGED <<lock_state, lock_correlation, park_workers, die_order, items>>
        /\ UNCHANGED <<mem_state, mem_correlation, mem_park, mem_die, mem_items>>
        /\ UNCHANGED <<mpc, mi, range_start, count>>
    BY WorkerTypes
  <1>2. /\ FlagInv' /\ BufferInv' /\ SeenInv' /\ WaitInv'
        /\ \A v \in Workers : v # w => done'[v] = done[v]
    BY WorkerKeeps
  <1>3. ASSUME NEW v \in Workers, v # w PROVE MemWorkerInv(v)'
    <2>1. MemWorkerInv(v)
      BY DEF MemInv
    <2>2. /\ wpc'[v] = wpc[v] /\ wcorr'[v] = wcorr[v] /\ done'[v] = done[v]
          /\ Out' = Out /\ W!Touching(v)' = W!Touching(v)
      BY <1>1, <1>2, <1>3 DEF Out, W!Touching
    <2> QED
      BY <1>1, <2>1, <2>2 DEF MemWorkerInv
  <1>4. SliceIsFresh'
    BY <1>1 DEF MemInv, SliceIsFresh
  <1>5. MemTypeOK'
    BY <1>1 DEF MemInv, MemTypeOK
  <1> QED
    BY <1>2, <1>3, <1>4, <1>5 DEF MemInv

LEMMA WorkerMemInv ==
    ASSUME MemInv, NEW w \in Workers, WorkerStep(w) \/ SpuriousStep(w)
    PROVE  MemInv'
  <1> USE DEF W!Move, W!chan_vars, W!broker_vars
  <1>1. /\ W!TypeOK' /\ TypeOK' /\ buffer' = buffer
        /\ UNCHANGED <<lock_state, lock_correlation, park_workers, die_order, items>>
        /\ UNCHANGED <<mem_state, mem_correlation, mem_park, mem_die, mem_items>>
        /\ UNCHANGED <<mpc, mi, range_start, count>>
    BY WorkerTypes
  <1>2. /\ W!TypeOK /\ TypeOK /\ FlagInv /\ SeenInv /\ MemWorkerInv(w) /\ w \in W!Workers
        /\ (W!Worker(w) \/ W!SpuriousWakeup(w))
        /\ wpc \in [Workers -> WorkerPcs] /\ wcorr \in [Workers -> Nat]
        /\ tasks \in [Workers -> Seq(Tasks)] /\ done \in [Workers -> BOOLEAN]
        /\ mem_correlation \in Nat /\ lock_correlation \in Nat
        /\ mem_done \in [Workers -> BOOLEAN]
    BY DEF MemInv, MemTypeOK, TypeOK, W!TypeOK, WorkerStep, SpuriousStep, W!Workers, Workers
  <1>3. Out' = Out
    BY <1>1 DEF Out
  <1>4. wpc[w] = "returned" /\ ~mem_die => tasks[w] = items[w]
    BY DEF MemInv, SliceIsFresh
  (* On what the worker sees of the flags. *)
  <1>5. mem_die => ~Out /\ mpc \notin {"writing", "clear"}
    BY <1>2 DEF SeenInv, FlagInv, Out, Killing
  <1>6. Out => mem_items[w] = items[w]
    <2>1. ASSUME Out, Pending("items", w) PROVE FALSE
      <3>1. PICK k \in DOMAIN buffer : buffer[k].loc = "items"
        BY <2>1 DEF Pending
      <3>2. k \in 1 .. Len(buffer) /\ StoredInv(k)
        BY <3>1 DEF MemInv, MemTypeOK, BufferInv
      <3> QED
        BY <2>1, <3>1, <3>2 DEF StoredInv, PendingLocs, Out
    <2> QED
      BY <1>2, <2>1 DEF SeenInv
  <1>7. mpc = "free" => mem_state # "FREE"
    <2>1. ASSUME mpc = "free", Pending("state", 0) PROVE FALSE
      <3>1. PICK k \in DOMAIN buffer : buffer[k].loc = "state"
        BY <2>1 DEF Pending
      <3>2. k \in 1 .. Len(buffer) /\ StoredInv(k)
        BY <3>1 DEF MemInv, MemTypeOK, BufferInv
      <3> QED
        BY <2>1, <3>1, <3>2 DEF StoredInv, PendingLocs
    <2> QED
      BY <1>2, <2>1 DEF SeenInv, FlagInv, Out
  <1>8. wcorr[w] + 1 = mem_correlation => mem_correlation = lock_correlation
    BY <1>2 DEF MemWorkerInv, SeenInv
  (* A step that leaves its element and its count of batches. *)
  <1>9. ASSUME wcorr' = wcorr, mem_done' = mem_done, MemWorkerInv(w)',
               \A v \in Workers : v # w => wpc'[v] = wpc[v] /\ tasks'[v] = tasks[v],
               wpc'[w] = "returned" => mem_die
        PROVE  MemInv'
    BY <1>9, OwnClauses
  <1>10. mem_done' = mem_done => done' = done
    BY WorkerKeeps
  <1>11. CASE W!ParkCheck(w)
    <2>1. /\ wcorr' = wcorr /\ mem_done' = mem_done /\ done' = done
          /\ \A v \in Workers : v # w => wpc'[v] = wpc[v] /\ tasks'[v] = tasks[v]
          /\ wpc'[w] = "returned" => mem_die
      BY <1>2, <1>10, <1>11 DEF W!ParkCheck
    <2>2. MemWorkerInv(w)'
      BY <1>1, <1>2, <1>3, <1>5, <1>7, <1>11, <2>1
      DEF W!ParkCheck, MemWorkerInv, W!Touching
    <2> QED
      BY <1>9, <2>1, <2>2
  <1>12. CASE W!Park(w)
    <2>1. /\ wcorr' = wcorr /\ mem_done' = mem_done /\ done' = done
          /\ \A v \in Workers : v # w => wpc'[v] = wpc[v] /\ tasks'[v] = tasks[v]
          /\ wpc'[w] = "returned" => mem_die
      BY <1>2, <1>10, <1>12 DEF W!Park
    <2>2. MemWorkerInv(w)'
      BY <1>1, <1>2, <1>3, <1>5, <1>7, <1>12, <2>1
      DEF W!Park, MemWorkerInv, W!Touching
    <2> QED
      BY <1>9, <2>1, <2>2
  <1>13. CASE W!DieCheck(w)
    <2>1. /\ wcorr' = wcorr /\ mem_done' = mem_done /\ done' = done
          /\ \A v \in Workers : v # w => wpc'[v] = wpc[v] /\ tasks'[v] = tasks[v]
          /\ wpc'[w] = "returned" => mem_die
      BY <1>2, <1>10, <1>13 DEF W!DieCheck
    <2>2. MemWorkerInv(w)'
      BY <1>1, <1>2, <1>3, <1>5, <1>7, <1>13, <2>1
      DEF W!DieCheck, MemWorkerInv, W!Touching
    <2> QED
      BY <1>9, <2>1, <2>2
  <1>14. CASE W!CorrCheck(w)
    <2>1. /\ wcorr' = wcorr /\ mem_done' = mem_done /\ done' = done
          /\ \A v \in Workers : v # w => wpc'[v] = wpc[v] /\ tasks'[v] = tasks[v]
          /\ wpc'[w] = "returned" => mem_die
      BY <1>2, <1>10, <1>14 DEF W!CorrCheck
    <2>2. MemWorkerInv(w)'
      BY <1>1, <1>2, <1>3, <1>5, <1>7, <1>14, <2>1
      DEF W!CorrCheck, MemWorkerInv, W!Touching
    <2> QED
      BY <1>9, <2>1, <2>2
  <1>15. CASE W!StateCheck(w)
    <2>1. /\ wcorr' = wcorr /\ mem_done' = mem_done /\ done' = done
          /\ \A v \in Workers : v # w => wpc'[v] = wpc[v] /\ tasks'[v] = tasks[v]
          /\ wpc'[w] = "returned" => mem_die
      BY <1>2, <1>10, <1>15 DEF W!StateCheck
    <2>2. MemWorkerInv(w)'
      BY <1>1, <1>2, <1>3, <1>5, <1>7, <1>15, <2>1
      DEF W!StateCheck, MemWorkerInv, W!Touching
    <2> QED
      BY <1>9, <2>1, <2>2
  <1>16. CASE W!Returned(w)
    <2>1. /\ wcorr' = wcorr /\ mem_done' = mem_done /\ done' = done
          /\ \A v \in Workers : v # w => wpc'[v] = wpc[v] /\ tasks'[v] = tasks[v]
          /\ wpc'[w] = "returned" => mem_die
      BY <1>2, <1>10, <1>16 DEF W!Returned
    <2>2. MemWorkerInv(w)'
      BY <1>1, <1>2, <1>3, <1>5, <1>7, <1>16, <2>1
      DEF W!Returned, MemWorkerInv, W!Touching
    <2> QED
      BY <1>9, <2>1, <2>2
  <1>17. CASE W!Invoke(w)
    <2>1. /\ wcorr' = wcorr /\ mem_done' = mem_done /\ done' = done
          /\ \A v \in Workers : v # w => wpc'[v] = wpc[v] /\ tasks'[v] = tasks[v]
          /\ wpc'[w] = "returned" => mem_die
      BY <1>2, <1>10, <1>17 DEF W!Invoke
    <2>2. MemWorkerInv(w)'
      BY <1>1, <1>2, <1>3, <1>5, <1>7, <1>17, <2>1
      DEF W!Invoke, MemWorkerInv, W!Touching
    <2> QED
      BY <1>9, <2>1, <2>2
  <1>18. CASE W!InvokePanics(w)
    <2>1. /\ wcorr' = wcorr /\ mem_done' = mem_done /\ done' = done
          /\ \A v \in Workers : v # w => wpc'[v] = wpc[v] /\ tasks'[v] = tasks[v]
          /\ wpc'[w] = "returned" => mem_die
      BY <1>2, <1>10, <1>18 DEF W!InvokePanics
    <2>2. MemWorkerInv(w)'
      BY <1>1, <1>2, <1>3, <1>5, <1>7, <1>18, <2>1
      DEF W!InvokePanics, MemWorkerInv, W!Touching
    <2> QED
      BY <1>9, <2>1, <2>2
  <1>19. CASE W!SliceEnds(w)
    <2>1. /\ wcorr' = wcorr /\ mem_done' = mem_done /\ done' = done
          /\ \A v \in Workers : v # w => wpc'[v] = wpc[v] /\ tasks'[v] = tasks[v]
          /\ wpc'[w] = "returned" => mem_die
      BY <1>2, <1>10, <1>19 DEF W!SliceEnds
    <2>2. MemWorkerInv(w)'
      BY <1>1, <1>2, <1>3, <1>5, <1>7, <1>19, <2>1
      DEF W!SliceEnds, MemWorkerInv, W!Touching
    <2> QED
      BY <1>9, <2>1, <2>2
  <1>20. CASE W!StorePayload(w)
    <2>1. /\ wcorr' = wcorr /\ mem_done' = mem_done /\ done' = done
          /\ \A v \in Workers : v # w => wpc'[v] = wpc[v] /\ tasks'[v] = tasks[v]
          /\ wpc'[w] = "returned" => mem_die
      BY <1>2, <1>10, <1>20 DEF W!StorePayload
    <2>2. MemWorkerInv(w)'
      BY <1>1, <1>2, <1>3, <1>5, <1>7, <1>20, <2>1
      DEF W!StorePayload, MemWorkerInv, W!Touching
    <2> QED
      BY <1>9, <2>1, <2>2
  <1>21. CASE W!PayloadPresent(w)
    <2>1. /\ wcorr' = wcorr /\ mem_done' = mem_done /\ done' = done
          /\ \A v \in Workers : v # w => wpc'[v] = wpc[v] /\ tasks'[v] = tasks[v]
          /\ wpc'[w] = "returned" => mem_die
      BY <1>2, <1>10, <1>21 DEF W!PayloadPresent
    <2>2. MemWorkerInv(w)'
      BY <1>1, <1>2, <1>3, <1>5, <1>7, <1>21, <2>1
      DEF W!PayloadPresent, MemWorkerInv, W!Touching
    <2> QED
      BY <1>9, <2>1, <2>2
  <1>22. CASE W!RaisePanicked(w)
    <2>1. /\ wcorr' = wcorr /\ mem_done' = mem_done /\ done' = done
          /\ \A v \in Workers : v # w => wpc'[v] = wpc[v] /\ tasks'[v] = tasks[v]
          /\ wpc'[w] = "returned" => mem_die
      BY <1>2, <1>10, <1>22 DEF W!RaisePanicked
    <2>2. MemWorkerInv(w)'
      BY <1>1, <1>2, <1>3, <1>5, <1>7, <1>22, <2>1
      DEF W!RaisePanicked, MemWorkerInv, W!Touching
    <2> QED
      BY <1>9, <2>1, <2>2
  <1>23. CASE W!SpuriousWakeup(w)
    <2>1. /\ wcorr' = wcorr /\ mem_done' = mem_done /\ done' = done
          /\ \A v \in Workers : v # w => wpc'[v] = wpc[v] /\ tasks'[v] = tasks[v]
          /\ wpc'[w] = "returned" => mem_die
      BY <1>2, <1>10, <1>23 DEF W!SpuriousWakeup
    <2>2. MemWorkerInv(w)'
      BY <1>1, <1>2, <1>3, <1>5, <1>7, <1>23, <2>1
      DEF W!SpuriousWakeup, MemWorkerInv, W!Touching
    <2> QED
      BY <1>9, <2>1, <2>2
  (* The slice of a batch that is out: its elements are committed. *)
  <1>24. CASE W!Take(w)
    <2>1. /\ wpc[w] = "take" /\ Out /\ wcorr[w] + 1 = mem_correlation /\ ~done[w]
          /\ mem_done' = mem_done /\ done' = done
      BY <1>2, <1>10, <1>24 DEF W!Take, MemWorkerInv
    <2>2. /\ wpc' = [wpc EXCEPT ![w] = "returned"]
          /\ wcorr' = [wcorr EXCEPT ![w] = @ + 1]
          /\ tasks' = [tasks EXCEPT ![w] = mem_items[w]]
      BY <1>24, <2>1 DEF W!Take
    <2>3. MemWorkerInv(w)'
      <3>1. wpc'[w] = "returned" /\ wcorr'[w] = mem_correlation
            /\ mem_correlation = lock_correlation
        BY <1>2, <1>8, <2>1, <2>2
      <3> QED
        BY <1>1, <1>3, <2>1, <3>1 DEF MemWorkerInv
    <2>4. tasks'[w] = items[w]
      BY <1>2, <1>6, <2>1, <2>2
    <2>5. \A v \in Workers : v # w =>
                wpc'[v] = wpc[v] /\ wcorr'[v] = wcorr[v] /\ tasks'[v] = tasks[v]
      BY <1>2, <2>2
    <2> QED
      BY <2>1, <2>3, <2>4, <2>5, OwnClauses
  <1>25. CASE W!Done(w)
    <2>1. /\ wpc[w] \in {"done", "panic_done"} /\ wpc'[w] \in {"park_check", "exited"}
          /\ mem_done' = [mem_done EXCEPT ![w] = TRUE] /\ wcorr' = wcorr /\ tasks' = tasks
          /\ \A v \in Workers : v # w => wpc'[v] = wpc[v]
      BY <1>2, <1>25 DEF W!Done
    <2>2. Out /\ wcorr[w] = lock_correlation
      BY <1>2, <2>1 DEF MemWorkerInv, W!Touching
    <2>3. MemWorkerInv(w)'
      <3>1. wcorr[w] = mem_correlation
        BY <1>2, <2>2 DEF MemWorkerInv
      <3> QED
        BY <1>1, <1>3, <2>1, <2>2, <3>1 DEF MemWorkerInv, W!Touching
    <2> QED
      BY <2>1, <2>2, <2>3, OwnClauses
  <1> QED
    BY <1>2, <1>11, <1>12, <1>13, <1>14, <1>15, <1>16, <1>17, <1>18, <1>19, <1>20, <1>21, <1>22, <1>23, <1>24, <1>25
    DEF W!Worker

LEMMA MemNextInv == MemInv /\ ~Reordered /\ [MemNext]_all_vars => MemInv'
  <1> SUFFICES ASSUME MemInv, ~Reordered, [MemNext]_all_vars PROVE MemInv'
    OBVIOUS
  <1>1. CASE BrokerStep
    BY <1>1, BrokerMemInv
  <1>2. ASSUME NEW k \in DOMAIN buffer, Commit(k) PROVE MemInv'
    BY <1>2, CommitMemInv
  <1>3. ASSUME NEW w \in Workers, WorkerStep(w) \/ SpuriousStep(w) PROVE MemInv'
    BY <1>3, WorkerMemInv
  <1>4. CASE UNCHANGED all_vars
    <2>1. /\ UNCHANGED <<lock_state, lock_correlation, park_workers, die_order, items, done,
                         panicked, panic, token, mpc, mi, range_start, count, wpc, wcorr,
                         tasks, runs>>
          /\ UNCHANGED <<buffer, mem_state, mem_correlation, mem_park, mem_die, mem_items,
                         mem_done>>
      BY <1>4 DEF all_vars, mem_vars, vars, chan_vars, broker_vars, worker_vars
    <2>2. MemTypeOK'
      BY <2>1 DEF MemInv, MemTypeOK, TypeOK, W!TypeOK
    <2>3. FlagInv' /\ WaitInv' /\ SliceIsFresh'
      BY <2>1 DEF MemInv, FlagInv, WaitInv, Out, Killing, SliceIsFresh
    <2>4. BufferInv'
      BY <2>1 DEF MemInv, BufferInv, StoredInv, PendingLocs
    <2>5. SeenInv'
      BY <2>1 DEF MemInv, SeenInv, Pending
    <2>6. \A w \in Workers : MemWorkerInv(w)'
      BY <2>1 DEF MemInv, MemWorkerInv, Out, W!Touching
    <2> QED
      BY <2>2, <2>3, <2>4, <2>5, <2>6 DEF MemInv
  <1> QED
    BY <1>1, <1>2, <1>3, <1>4 DEF MemNext

(* On a machine that commits stores in order (x86), for every number of workers,
   element size and number of tasks: the slice a worker takes in wait_for_tasks is
   the one the broker pushed for the batch, never what its element held before. *)
THEOREM SlicesAreFresh == ASSUME ~Reordered PROVE MemSpec => []SliceIsFresh
  <1>1. MemInit => MemInv
    BY MemInitInv
  <1>2. MemInv /\ [MemNext]_all_vars => MemInv'
    BY MemNextInv
  <1>3. MemInv => SliceIsFresh
    BY DEF MemInv
  <1> QED
    BY <1>1, <1>2, <1>3, PTL DEF MemSpec

(* Nor does the assertion at the end of wait_for_tasks fail on such a machine. *)
THEOREM NoMismatchDelayed == ASSUME ~Reordered PROVE MemSpec => []W!CorrelationHolds
  <1>1. MemInit => MemInv
    BY MemInitInv
  <1>2. MemInv /\ [MemNext]_all_vars => MemInv'
    BY MemNextInv
  <1>3. MemInv => W!CorrelationHolds
    BY DEF MemInv, MemWorkerInv, W!CorrelationHolds, W!Workers, Workers
  <1> QED
    BY <1>1, <1>2, <1>3, PTL DEF MemSpec
=============================================================================

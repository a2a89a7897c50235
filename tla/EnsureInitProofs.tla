--------------------------- MODULE EnsureInitProofs ---------------------------
(***************************************************************************)
(* Proofs about EnsureInit, for any set of threads.                        *)
(***************************************************************************)
EXTENDS EnsureInit, TLAPS

(***************************************************************************)
(* The inductive invariant: whoever is about to initialise or doing so was *)
(* the first to count itself, and init_done comes after it has finished.   *)
(***************************************************************************)
Initialising(t) == pc[t] \in {"init", "finish"}

Progress ==
  /\ init_cnt = 0 => bound = {} /\ \A t \in Threads : pc[t] \notin {"init", "finish", "wait"}
  /\ init_done => bound = Parts /\ init_cnt > 0
  /\ \A t \in Threads : pc[t] \in {"finish", "through"} => bound = Parts
  /\ \A t \in Threads : pc[t] = "through" => init_done
  /\ \A t \in Threads : nested[t] # "no" => pc[t] = "init" /\ nested[t] = "check"

IInv == ReadyOnce /\ Progress

LEMMA IInvInit == Init => IInv
<1> SUFFICES ASSUME Init PROVE IInv
  OBVIOUS
<1>1. TypeOK
  BY DEF Init, TypeOK
<1>2. \A t \in Threads : pc[t] = "out" /\ nested[t] = "no"
  BY DEF Init
<1>3. \A t, u \in Threads : ~ {pc[t], pc[u]} \subseteq {"init", "finish"}
  BY <1>2
<1> QED BY <1>1, <1>2, <1>3 DEF Init, IInv, ReadyOnce, Progress

LEMMA IInvStep == IInv /\ [Next]_vars => IInv'
<1> SUFFICES ASSUME IInv, [Next]_vars PROVE IInv'
  OBVIOUS
<1> USE DEF IInv, ReadyOnce, TypeOK, Progress, Goto
<1>1. ASSUME NEW t \in Threads, Call(t) PROVE IInv'
  BY <1>1 DEF Call
<1>2. ASSUME NEW t \in Threads, CheckDone(t) PROVE IInv'
  BY <1>2 DEF CheckDone
<1>3. ASSUME NEW t \in Threads, FetchAndAdd(t) PROVE IInv'
  <2>1. TypeOK'
    <3>1. (init_cnt = 0) \in BOOLEAN
      OBVIOUS
    <3>2. in_init' \in [Threads -> BOOLEAN]
      BY <1>3, <3>1, Zenon DEF FetchAndAdd
    <3>3. \A u \in Threads : in_init'[u] <=> pc'[u] = "init"
      <4>1. CASE init_cnt = 0
        <5>1. in_init' = [in_init EXCEPT ![t] = TRUE] /\ pc' = [pc EXCEPT ![t] = "init"]
          BY <1>3, <4>1 DEF FetchAndAdd
        <5> QED BY <5>1
      <4>2. CASE init_cnt # 0
        <5>1. in_init' = [in_init EXCEPT ![t] = FALSE] /\ pc' = [pc EXCEPT ![t] = "wait"]
          BY <1>3, <4>2 DEF FetchAndAdd
        <5> QED BY <5>1
      <4> QED BY <4>1, <4>2
    <3> QED BY <1>3, <3>2, <3>3 DEF FetchAndAdd
  <2>2. init_cnt = 0 => \A u \in Threads : ~ Initialising(u)
    BY DEF Initialising
  <2>3. \A u, v \in Threads : {pc'[u], pc'[v]} \subseteq {"init", "finish"} => u = v
    <3>1. CASE init_cnt = 0
      <4>1. \A u \in Threads \ {t} : pc'[u] \notin {"init", "finish"}
        BY <1>3, <2>2, <3>1 DEF FetchAndAdd, Initialising
      <4> QED BY <4>1
    <3>2. CASE init_cnt # 0
      BY <1>3, <3>2 DEF FetchAndAdd
    <3> QED BY <3>1, <3>2
  <2>4. /\ init_done' => \A u \in Threads : pc'[u] \notin {"init", "finish"}
        /\ \A u \in Threads : pc'[u] = "through" => bound' = Parts
    BY <1>3 DEF FetchAndAdd
  <2>5. Progress'
    BY <1>3 DEF FetchAndAdd
  <2> QED BY <2>1, <2>3, <2>4, <2>5
<1>4. ASSUME NEW t \in Threads, Bind(t) PROVE IInv'
  BY <1>4 DEF Bind, NextPart, Parts
<1>5. ASSUME NEW t \in Threads, ClearInInit(t) PROVE IInv'
  BY <1>5 DEF ClearInInit
<1>6. ASSUME NEW t \in Threads, SetDone(t) PROVE IInv'
  BY <1>6 DEF SetDone
<1>7. ASSUME NEW t \in Threads, NestedCheck(t) PROVE IInv'
  BY <1>7 DEF NestedCheck
<1>8. ASSUME NEW t \in Threads, Wait(t) PROVE IInv'
  BY <1>8 DEF Wait
<1>9. ASSUME NEW t \in Threads, Return(t) PROVE IInv'
  BY <1>9 DEF Return
<1>10. ASSUME NEW t \in Threads, NestedCall(t) PROVE IInv'
  BY <1>10 DEF NestedCall
<1>11. ASSUME NEW t \in Threads, Abort(t) PROVE IInv'
  BY <1>11 DEF Abort
<1>12. CASE UNCHANGED vars
  BY <1>12 DEF vars
<1> QED BY <1>1, <1>2, <1>3, <1>4, <1>5, <1>6, <1>7, <1>8, <1>9, <1>10, <1>11, <1>12
        DEF Next, Step, Initialise, Spin, Aborted

(***************************************************************************)
(* However many threads call at once, one runs init(), once, and nobody    *)
(* gets through ensure_init before all it binds is there.                  *)
(***************************************************************************)
THEOREM ReadyOnceIsInvariant == Spec => []ReadyOnce
<1>1. Init => IInv
  BY IInvInit
<1>2. IInv /\ [Next]_vars => IInv'
  BY IInvStep
<1>3. IInv => ReadyOnce
  BY DEF IInv
<1> QED BY <1>1, <1>2, <1>3, PTL DEF Spec

\* In a loop around pthread_yield, in a call of its own or in one that init() makes.
Waits(t) == (pc[t] = "wait" \/ nested[t] = "wait") /\ ~ init_done

WaitsForAnother ==
  \A t \in Threads : Waits(t) =>
    \E u \in Threads \ {t} : Initialising(u) /\ ~ Waits(u)

\* Until init_done there is somebody to set it, once anybody has been counted.
SomebodyIsAtIt == init_cnt > 0 /\ ~ init_done => \E u \in Threads : Initialising(u)

\* Only SetDone takes the initialising thread away, and it sets init_done.
LEMMA SomebodyStaysAtIt == IInv /\ SomebodyIsAtIt /\ [Next]_vars => SomebodyIsAtIt'
<1> SUFFICES ASSUME IInv, SomebodyIsAtIt, [Next]_vars, init_cnt' > 0, ~ init_done'
             PROVE  \E u \in Threads : Initialising(u)'
  BY DEF SomebodyIsAtIt
<1> USE DEF Initialising, Goto
<1>1. init_cnt \in Nat /\ ~ init_done /\ pc \in [Threads -> {"out", "check", "add", "init",
                                                             "finish", "wait", "through"}]
  BY DEF IInv, ReadyOnce, TypeOK, Next, Step, Initialise, Call, CheckDone, FetchAndAdd, Bind,
         ClearInInit, SetDone, NestedCheck, Wait, Spin, Return, NestedCall, Abort, Aborted, vars
<1>2. ASSUME init_cnt = 0
      PROVE  \E t \in Threads : FetchAndAdd(t)
  <2>1. init_cnt' # init_cnt
    BY <1>1, <1>2
  <2>2. \A t \in Threads : ~ NestedCheck(t)
    BY <1>2 DEF NestedCheck, IInv, Progress
  <2> QED BY <2>1, <2>2 DEF Next, Step, Initialise, Call, CheckDone, Bind, ClearInInit, SetDone,
                 Wait, Spin, Return, NestedCall, Abort, Aborted, vars
<1>3. CASE init_cnt = 0
  <2>1. PICK t \in Threads : FetchAndAdd(t)
    BY <1>2, <1>3
  <2>2. pc'[t] = "init"
    BY <1>1, <1>3, <2>1 DEF FetchAndAdd
  <2> QED BY <2>2
<1>4. CASE init_cnt # 0
  <2>1. PICK u \in Threads : Initialising(u)
    BY <1>1, <1>4 DEF SomebodyIsAtIt
  <2>2. ASSUME NEW t \in Threads, SetDone(t)
        PROVE  FALSE
    BY <2>2 DEF SetDone
  <2>3. pc'[u] \in {"init", "finish"}
    BY <1>1, <2>1, <2>2 DEF Next, Step, Initialise, Call, CheckDone, FetchAndAdd, Bind, ClearInInit,
         NestedCheck, Wait, Spin, Return, NestedCall, Abort, Aborted, vars
  <2> QED BY <2>3
<1> QED BY <1>3, <1>4

(***************************************************************************)
(* Why every call gets through, as far as safety goes: whoever waits for   *)
(* init_done waits for another thread, which is in init() or about to set  *)
(* the flag and is not itself waiting, not even in a call that init()      *)
(* makes (in_init lets that one through, interpose.c:351).  So the         *)
(* yielding loops never wait in a circle.                                  *)
(***************************************************************************)
THEOREM WaitsAreForAnother == Spec => []WaitsForAnother
<1>1. Init => IInv /\ SomebodyIsAtIt
  BY IInvInit DEF Init, SomebodyIsAtIt
<1>2. IInv /\ SomebodyIsAtIt /\ [Next]_vars => IInv' /\ SomebodyIsAtIt'
  BY IInvStep, SomebodyStaysAtIt
<1>3. IInv /\ SomebodyIsAtIt => WaitsForAnother
  <2> SUFFICES ASSUME IInv, SomebodyIsAtIt, NEW t \in Threads, Waits(t)
               PROVE  \E u \in Threads \ {t} : Initialising(u) /\ ~ Waits(u)
    BY DEF WaitsForAnother
  <2>1. pc[t] = "wait"
    BY DEF Waits, IInv, Progress
  <2>2. init_cnt > 0
    BY <2>1 DEF IInv, ReadyOnce, TypeOK, Progress
  <2>3. PICK u \in Threads : Initialising(u)
    BY <2>2 DEF SomebodyIsAtIt, Waits
  <2>4. u # t /\ pc[u] # "wait" /\ nested[u] # "wait"
    BY <2>1, <2>3 DEF Initialising, IInv, Progress
  <2> QED BY <2>3, <2>4 DEF Waits
<1> QED BY <1>1, <1>2, <1>3, PTL DEF Spec
===============================================================================

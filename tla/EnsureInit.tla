------------------------------ MODULE EnsureInit ------------------------------
(***************************************************************************)
(* The lazy initialisation of the interposed library (src/interpose/       *)
(* interpose.c): the first thread to call an interposed function looks up  *)
(* the functions of libc and connects to the shared channel, the others    *)
(* wait until it is done.  A library function that init() calls may itself *)
(* be interposed: the flag in_init lets that call through.                 *)
(***************************************************************************)
EXTENDS Naturals

CONSTANT Threads  \* threads of the application

Parts == {"recvfrom", "epoll_ctl", "epoll_wait", "channel"}

VARIABLES
  init_cnt,   \* how many threads have asked to initialise
  init_done,  \* the flag of that name
  in_init,    \* its thread-local flag
  bound,      \* the symbols bound, and the channel
  pc,         \* where a thread is in ensure_init
  nested,     \* where it is in the call that init() made, if any
  aborted     \* has the process been ended?

vars == <<init_cnt, init_done, in_init, bound, pc, nested, aborted>>

Init ==
  /\ init_cnt = 0
  /\ init_done = FALSE
  /\ in_init = [t \in Threads |-> FALSE]
  /\ bound = {}
  /\ pc = [t \in Threads |-> "out"]
  /\ nested = [t \in Threads |-> "no"]
  /\ aborted = FALSE

Goto(t, from, to) == ~aborted /\ pc[t] = from /\ pc' = [pc EXCEPT ![t] = to]

\* Any of recvfrom, epoll_ctl and epoll_wait.
Call(t) ==
  /\ Goto(t, "out", "check")
  /\ UNCHANGED <<init_cnt, init_done, in_init, bound, nested, aborted>>

CheckDone(t) ==
  /\ Goto(t, "check", IF init_done THEN "through" ELSE "add")
  /\ UNCHANGED <<init_cnt, init_done, in_init, bound, nested, aborted>>

\* Mutant: init_done is set with the count.
FetchAndAddDone(t) ==
  /\ Goto(t, "add", IF init_cnt = 0 THEN "init" ELSE "wait")
  /\ init_cnt' = init_cnt + 1
  /\ in_init' = [in_init EXCEPT ![t] = init_cnt = 0]
  /\ init_done' = TRUE
  /\ UNCHANGED <<bound, nested, aborted>>

FetchAndAdd(t) ==
  /\ Goto(t, "add", IF init_cnt = 0 THEN "init" ELSE "wait")
  /\ init_cnt' = init_cnt + 1
  /\ in_init' = [in_init EXCEPT ![t] = init_cnt = 0]
  /\ UNCHANGED <<init_done, bound, nested, aborted>>

(***************************************************************************)
(* init(): the symbols in order, then the channel.                         *)
(***************************************************************************)
NextPart ==
  CASE "recvfrom" \notin bound   -> "recvfrom"
    [] "epoll_ctl" \notin bound  -> "epoll_ctl"
    [] "epoll_wait" \notin bound -> "epoll_wait"
    [] OTHER                     -> "channel"

Bind(t) ==
  /\ Goto(t, "init", "init")
  /\ nested[t] = "no"
  /\ bound # Parts
  /\ bound' = bound \cup {NextPart}
  /\ UNCHANGED <<init_cnt, init_done, in_init, nested, aborted>>

\* abort() in bind_symbol, or assert(0).
Abort(t) ==
  /\ Goto(t, "init", "init")
  /\ nested[t] = "no"
  /\ bound # Parts
  /\ aborted' = TRUE
  /\ UNCHANGED <<init_cnt, init_done, in_init, bound, nested>>

\* init() has returned: in_init is cleared, and then init_done is set.
ClearInInit(t) ==
  /\ Goto(t, "init", "finish")
  /\ nested[t] = "no"
  /\ bound = Parts
  /\ in_init' = [in_init EXCEPT ![t] = FALSE]
  /\ UNCHANGED <<init_cnt, init_done, bound, nested, aborted>>

SetDone(t) ==
  /\ Goto(t, "finish", "through")
  /\ init_done' = TRUE
  /\ UNCHANGED <<init_cnt, in_init, bound, nested, aborted>>

Wait(t) ==
  /\ init_done
  /\ Goto(t, "wait", "through")
  /\ UNCHANGED <<init_cnt, init_done, in_init, bound, nested, aborted>>

\* The loop around pthread_yield.
Spin(t) ==
  /\ ~aborted
  /\ pc[t] = "wait" \/ nested[t] = "wait"
  /\ ~init_done
  /\ UNCHANGED vars

\* The interposed function does its work and returns.
Return(t) ==
  /\ Goto(t, "through", "out")
  /\ UNCHANGED <<init_cnt, init_done, in_init, bound, nested, aborted>>

(***************************************************************************)
(* A nested call of an interposed function, made by init().                *)
(***************************************************************************)
NestedCall(t) ==
  /\ Goto(t, "init", "init")
  /\ nested[t] = "no"
  /\ nested' = [nested EXCEPT ![t] = "check"]
  /\ UNCHANGED <<init_cnt, init_done, in_init, bound, aborted>>

\* Mutant: the flag is not looked at.
NestedCheckWaits(t) ==
  /\ Goto(t, "init", "init")
  /\ nested[t] = "check"
  /\ nested' = [nested EXCEPT ![t] = "wait"]
  /\ init_cnt' = init_cnt + 1
  /\ UNCHANGED <<init_done, in_init, bound, aborted>>

\* It returns at once, or waits for what only its own thread can finish.
NestedCheck(t) ==
  /\ Goto(t, "init", "init")
  /\ nested[t] = "check"
  /\ nested' = [nested EXCEPT ![t] = IF in_init[t] THEN "no" ELSE "wait"]
  /\ init_cnt' = IF in_init[t] THEN init_cnt ELSE init_cnt + 1
  /\ UNCHANGED <<init_done, in_init, bound, aborted>>

Initialise(t) == Bind(t) \/ ClearInInit(t) \/ SetDone(t) \/ NestedCheck(t)

Step(t) ==
  CheckDone(t) \/ FetchAndAdd(t) \/ Initialise(t) \/ Wait(t) \/ Spin(t) \/ Return(t)

Aborted == aborted /\ UNCHANGED vars

Next ==
  \/ \E t \in Threads : Call(t) \/ Step(t) \/ NestedCall(t) \/ Abort(t)
  \/ Aborted

Spec == Init /\ [][Next]_vars

(***************************************************************************)
(* A thread inside a call goes on; init() makes finitely many nested       *)
(* calls.  The waiting threads yield, so the others get to run.            *)
(***************************************************************************)
FairSpec ==
  /\ Spec
  /\ \A t \in Threads : WF_vars(Step(t)) /\ SF_vars(Bind(t)) /\ SF_vars(ClearInInit(t))

(***************************************************************************)
(* Properties.                                                             *)
(***************************************************************************)
TypeOK ==
  /\ init_cnt \in Nat
  /\ init_done \in BOOLEAN
  /\ in_init \in [Threads -> BOOLEAN]
  /\ bound \subseteq Parts
  /\ pc \in [Threads -> {"out", "check", "add", "init", "finish", "wait", "through"}]
  /\ nested \in [Threads -> {"no", "check", "wait"}]
  /\ \A t \in Threads : in_init[t] <=> pc[t] = "init"

(***************************************************************************)
(* One thread runs init(), once: the channel has two places, and a second  *)
(* connection would take the runtime's.  A thread that ensure_init let     *)
(* through finds every symbol bound and the channel connected; the thread  *)
(* that initialises is the exception, in the calls that init() makes.      *)
(* (With the types.)                                                       *)
(***************************************************************************)
ReadyOnce ==
  /\ TypeOK
  /\ \A t, u \in Threads : {pc[t], pc[u]} \subseteq {"init", "finish"} => t = u
  /\ init_done => \A t \in Threads : pc[t] \notin {"init", "finish"}
  /\ \A t \in Threads : pc[t] = "through" => bound = Parts

(***************************************************************************)
(* Every call gets through, the ones that come while another thread        *)
(* initialises and the ones init() makes included: no thread waits for     *)
(* itself.                                                                 *)
(***************************************************************************)
CallsGetThrough ==
  \A t \in Threads : pc[t] = "check" ~> (pc[t] = "through" \/ aborted)
===============================================================================

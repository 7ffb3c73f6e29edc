------------------------------ MODULE Barbershop ------------------------------
(***************************************************************************)
(* The sleeping-barber simulation of src/hw2/homework.c: one barber thread *)
(* and customer threads over a pthread mutex m, the condition variables    *)
(* barber_c, wait_c and done_c, and the linked-list wait line.             *)
(*                                                                         *)
(* Every access to the shared state happens with m held, and every         *)
(* critical section ends in a pthread_cond_wait, in sleep_exp(.., &m)      *)
(* (which unlocks m for the haircut) or in an unlock.  Each section is     *)
(* therefore one action, and m itself is always free between actions.  A   *)
(* thread woken by a signal has left the condition variable but has not    *)
(* yet reacquired m: its next action is the rest of its section.           *)
(***************************************************************************)
EXTENDS Integers, SequencesExt, FiniteSets

CONSTANTS
    NumCustomers,  \* NUM_OF_CUSTOMERS
    WaitChairs,    \* NUM_OF_WAIT_CHAIRS
    BarberChairs,  \* NUM_OF_BARBER_CHAIR
    MaxTotal,      \* visits (the counter total) explored in a run
    FreedRead      \* q_poll's read of the freed head may return garbage

ASSUME NumCustomers \in Nat \ {0} /\ MaxTotal \in Nat /\ FreedRead \in BOOLEAN

\* customer_thread i is started with customer number i.
Customers == 0..(NumCustomers - 1)

\* What q_full compares the line's size with.
Capacity == WaitChairs + BarberChairs

VARIABLES
    cpc,        \* each customer: "circle", "line" (wait_c loop), "chair" (done_c)
    bpc,        \* the barber: "start", "sleep" (barber_c) or "cut" (sleep_exp)
    barber_c,   \* TRUE while the barber waits on barber_c
    wait_c,     \* customers waiting on wait_c
    done_c,     \* customers waiting on done_c
    line,       \* the wait line, head first
    is_sleep,
    total,
    turn_away,
    crashed     \* the process has died

vars == <<cpc, bpc, barber_c, wait_c, done_c, line, is_sleep, total,
          turn_away, crashed>>

-----------------------------------------------------------------------------
(* The wait line *)

\* q_peek: the head's index, or -1 for an empty line.
q_peek(q) == IF q = <<>> THEN -1 ELSE Head(q)

\* Mutation: the line counts as full one customer late.
q_full_OffByOne(q) == Len(q) = Capacity + 1

q_full(q) == Len(q) = Capacity

q_empty(q) == q = <<>>

\* pthread_cond_signal: the waiters left on the variable, one of them woken.
Signal(cv) == IF cv = {} THEN {cv} ELSE {cv \ {t} : t \in cv}

-----------------------------------------------------------------------------
(* The barber *)

\* Mutation: the barber goes to sleep without setting is_sleep.
LoopTop_NoSleepFlag(q) ==
    IF q_empty(q)
      THEN /\ barber_c' = TRUE /\ bpc' = "sleep"
           /\ is_sleep' = is_sleep
      ELSE /\ bpc' = "cut"
           /\ UNCHANGED barber_c /\ is_sleep' = is_sleep

(***************************************************************************)
(* The top of barber()'s loop with the line q, m held: sleep on barber_c   *)
(* while the line is empty, otherwise peek at the head, count the chair    *)
(* and call sleep_exp, which unlocks m for the haircut.                    *)
(***************************************************************************)
LoopTop(q) ==
    IF q_empty(q)
      THEN /\ barber_c' = TRUE /\ bpc' = "sleep"
           /\ is_sleep' = TRUE
      ELSE /\ bpc' = "cut"
           /\ UNCHANGED barber_c /\ is_sleep' = is_sleep

\* barber_thread calls barber(), which locks m and enters its loop.
BarberStart ==
    /\ bpc = "start"
    /\ LoopTop(line)
    /\ UNCHANGED <<cpc, wait_c, done_c, line, total, turn_away, crashed>>

\* Signalled on barber_c and m reacquired: is_sleep = false, then the
\* while (q_empty) test again.
BarberWake ==
    /\ bpc = "sleep" /\ ~barber_c
    /\ \/ /\ q_empty(line)
          /\ barber_c' = TRUE /\ bpc' = "sleep" /\ is_sleep' = TRUE
       \/ /\ ~q_empty(line)
          /\ bpc' = "cut" /\ is_sleep' = FALSE /\ UNCHANGED barber_c
    /\ UNCHANGED <<cpc, wait_c, done_c, line, total, turn_away, crashed>>

\* Mutation: the customer whose hair was cut stays in the line.
BarberFinish_NoPoll ==
    /\ bpc = "cut"
    /\ done_c' \in Signal(done_c)
    /\ wait_c' \in Signal(wait_c)
    /\ LoopTop(line)
    /\ UNCHANGED <<cpc, line, total, turn_away, crashed>>

(***************************************************************************)
(* sleep_exp returns with m held: signal done_c and wait_c, q_poll the     *)
(* head, and go round the loop.  q_poll reads q->head->next after          *)
(* free(q->head); here the read returns what was stored.                   *)
(***************************************************************************)
BarberFinish ==
    /\ bpc = "cut"
    /\ done_c' \in Signal(done_c)
    /\ wait_c' \in Signal(wait_c)
    /\ line' = Tail(line)
    /\ LoopTop(Tail(line))
    /\ UNCHANGED <<cpc, total, turn_away, crashed>>

\* The read of the freed node returns garbage (the allocator reuses the
\* word that held next), and the process dies on the line's next use.
BarberFinishCrash ==
    /\ bpc = "cut" /\ FreedRead
    /\ crashed' = TRUE
    /\ UNCHANGED <<cpc, bpc, barber_c, wait_c, done_c, line, is_sleep, total,
                   turn_away>>

-----------------------------------------------------------------------------
(* The customers *)

\* Block on wait_c or done_c after the while (customer_num != q_peek) test.
AwaitTurn(c, q) ==
    IF c = q_peek(q)
      THEN /\ cpc' = [cpc EXCEPT ![c] = "chair"]
           /\ done_c' = done_c \cup {c} /\ UNCHANGED wait_c
      ELSE /\ cpc' = [cpc EXCEPT ![c] = "line"]
           /\ wait_c' = wait_c \cup {c} /\ UNCHANGED done_c

\* Mutation: the barber is signalled when awake instead of when asleep.
customer_SignalWhenAwake(c) ==
    /\ cpc[c] = "circle" /\ total < MaxTotal
    /\ total' = total + 1
    /\ IF ~q_full(line)
         THEN /\ barber_c' = (barber_c /\ is_sleep)
              /\ line' = Append(line, c)
              /\ AwaitTurn(c, Append(line, c))
              /\ UNCHANGED turn_away
         ELSE /\ turn_away' = turn_away + 1
              /\ UNCHANGED <<cpc, barber_c, wait_c, done_c, line>>
    /\ UNCHANGED <<bpc, is_sleep, crashed>>

(***************************************************************************)
(* customer(): with m held count the visit; if the line is not full,       *)
(* signal barber_c when the barber sleeps, join the line and wait for the  *)
(* turn; otherwise count the turn-away and unlock.                         *)
(***************************************************************************)
customer(c) ==
    /\ cpc[c] = "circle" /\ total < MaxTotal
    /\ total' = total + 1
    /\ IF ~q_full(line)
         THEN /\ barber_c' = (barber_c /\ ~is_sleep)
              /\ line' = Append(line, c)
              /\ AwaitTurn(c, Append(line, c))
              /\ UNCHANGED turn_away
         ELSE /\ turn_away' = turn_away + 1
              /\ UNCHANGED <<cpc, barber_c, wait_c, done_c, line>>
    /\ UNCHANGED <<bpc, is_sleep, crashed>>

\* Mutation: a woken customer waits on done_c without testing the head.
CustomerRecheck_NoTest(c) ==
    /\ cpc[c] = "line" /\ c \notin wait_c
    /\ cpc' = [cpc EXCEPT ![c] = "chair"]
    /\ done_c' = done_c \cup {c} /\ UNCHANGED wait_c
    /\ UNCHANGED <<bpc, barber_c, line, is_sleep, total, turn_away, crashed>>

\* Woken on wait_c with m reacquired: test the head again.
CustomerRecheck(c) ==
    /\ cpc[c] = "line" /\ c \notin wait_c
    /\ AwaitTurn(c, line)
    /\ UNCHANGED <<bpc, barber_c, line, is_sleep, total, turn_away, crashed>>

\* Mutation: the customer leaves without waiting for done_c.
CustomerLeave_NoWait(c) ==
    /\ cpc[c] = "chair"
    /\ cpc' = [cpc EXCEPT ![c] = "circle"]
    /\ done_c' = done_c \ {c}
    /\ UNCHANGED <<bpc, barber_c, wait_c, line, is_sleep, total, turn_away,
                   crashed>>

\* Woken on done_c with m reacquired: stop the timer, unlock and go back to
\* customer_thread's circle.
CustomerLeave(c) ==
    /\ cpc[c] = "chair" /\ c \notin done_c
    /\ cpc' = [cpc EXCEPT ![c] = "circle"]
    /\ UNCHANGED <<bpc, barber_c, wait_c, done_c, line, is_sleep, total,
                   turn_away, crashed>>

-----------------------------------------------------------------------------
\* q2/q3 have created the barber and the customers; none has run yet.
Init ==
    /\ cpc = [c \in Customers |-> "circle"]
    /\ bpc = "start"
    /\ barber_c = FALSE /\ wait_c = {} /\ done_c = {}
    /\ line = <<>>
    /\ is_sleep = TRUE
    /\ total = 0 /\ turn_away = 0
    /\ crashed = FALSE

BarberStep == BarberStart \/ BarberWake \/ BarberFinish

CustomerStep(c) == customer(c) \/ CustomerRecheck(c) \/ CustomerLeave(c)

Next ==
    /\ ~crashed
    /\ \/ BarberStep
       \/ BarberFinishCrash
       \/ \E c \in Customers : CustomerStep(c)

Spec == Init /\ [][Next]_vars

(***************************************************************************)
(* A thread that holds a runnable section gets m and runs it: each section *)
(* is a few instructions and a customer spends its circle (mean 10 s) away *)
(* from m.  Arrivals are not forced, and the garbage read of q_poll is     *)
(* undefined behaviour that no fairness forces.                            *)
(***************************************************************************)
Fairness ==
    /\ WF_vars(~crashed /\ BarberStep)
    /\ \A c \in Customers :
          /\ WF_vars(~crashed /\ CustomerRecheck(c))
          /\ WF_vars(~crashed /\ CustomerLeave(c))

FairSpec == Spec /\ Fairness

-----------------------------------------------------------------------------
(* Properties *)

InShop == {"line", "chair"}

TypeOK ==
    /\ cpc \in [Customers -> {"circle"} \cup InShop]
    /\ bpc \in {"start", "sleep", "cut"}
    /\ barber_c \in BOOLEAN /\ is_sleep \in BOOLEAN /\ crashed \in BOOLEAN
    /\ wait_c \subseteq Customers /\ done_c \subseteq Customers
    /\ line \in BoundedSeq(Customers, Capacity)
    /\ total \in 0..MaxTotal /\ turn_away \in 0..total

(***************************************************************************)
(* The barber only sleeps on barber_c when the line is empty: a customer   *)
(* who joins the line finds is_sleep set and signals, whatever the order   *)
(* of the barber's wake-up and the customers' arrivals.                    *)
(***************************************************************************)
BarberSleepsOnlyWhenEmpty == barber_c => line = <<>>

(***************************************************************************)
(* The line holds each customer at most once, and only customers who are   *)
(* inside customer(), waiting on wait_c or done_c: q_poll removes exactly  *)
(* the customer whose haircut ended.                                       *)
(***************************************************************************)
LineHoldsWaitingCustomers ==
    /\ IsInjective(line)
    /\ \A k \in 1..Len(line) : cpc[line[k]] \in InShop

(***************************************************************************)
(* Only the head of the line waits on done_c, so the barber's done_c       *)
(* signal can only release the customer whose hair was cut.                *)
(***************************************************************************)
DoneWaiterIsHead == \A c \in done_c : c = q_peek(line)

(***************************************************************************)
(* A customer leaves customer() after its haircut only: when it returns,   *)
(* the barber has polled it out of the line.                               *)
(***************************************************************************)
HaircutPrecedesLeave ==
    [][\A c \in Customers :
          cpc[c] = "chair" /\ cpc'[c] = "circle" => c \notin ToSet(line')]_vars

(***************************************************************************)
(* The barber keeps cutting: the head of the line is eventually served,    *)
(* unless the process dies in q_poll.                                      *)
(***************************************************************************)
BarberServesHead ==
    \A c \in Customers :
        (line # <<>> /\ Head(line) = c)
            ~> (line = <<>> \/ Head(line) # c \/ crashed)

(***************************************************************************)
(* Every customer who joined the line eventually leaves customer(): the    *)
(* barber's done_c and wait_c signals release each waiting customer, so   *)
(* q3's "time spent in the shop" is defined for every admitted visit.      *)
(***************************************************************************)
EveryCustomerLeaves ==
    \A c \in Customers : cpc[c] \in InShop ~> (cpc[c] = "circle" \/ crashed)

=============================================================================

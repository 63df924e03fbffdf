-------------------------- MODULE OnboardingProofs --------------------------
(***************************************************************************)
(* Proofs about Onboarding, for any number of runs, orders and channels,   *)
(* any prices and any balance.                                             *)
(***************************************************************************)
EXTENDS Onboarding, FiniteSetTheorems, TLAPS

Opened == {c \in Channels : chan[c] # "none"}

\* Only a run that has ended has been refused, and for a reason.
RefusedRight(q) == q.short # None =>
    /\ q.pc \in Ended
    /\ q.short < q.spendable \/ q.spendable \in Total .. Total + Fee - 1

\* What a run has, by where it is: an order of its own, unpaid until it pays;
\* and what it saw when it started.
Right(q) ==
    /\ q.pc \in {"idle", "balance", "connect", "order"} => q.order = None
    /\ q.pc \in {"pay", "poll"} => q.order # None
    /\ q.pc = "pay" => sent[q.order] = 0
    /\ q.order # None => order[q.order] # "none" /\ q.order \notin q.before
    /\ q.before \subseteq Opened
    /\ q.baseline = Cardinality(q.before)
    /\ q.pc = "done" => \E c \in Opened : c \notin q.before
    /\ q.pc \notin Ended => q.polls < MaxPolls
    /\ RefusedRight(q)

OwnOrder == \A r, s \in Runs :
    run[r].order # None /\ run[r].order = run[s].order => r = s

\* An order nobody has placed has no money and no channel, a completed one has
\* had its channel.
OrderRight(o) ==
    /\ sent[o] \in {0, Total}
    /\ order[o] = "none" => sent[o] = 0
    /\ order[o] \in {"none", "created"} => chan[o] = "none"
    /\ order[o] = "completed" => chan[o] # "none"

IInv ==
    /\ TypeOK
    /\ \A r \in Runs : Right(run[r])
    /\ \A o \in Orders : OrderRight(o)
    /\ OwnOrder

LEMMA FiniteChannels == IsFiniteSet(Channels)
  BY OnboardingAssumption, FS_Union DEF Channels

LEMMA FiniteOpen == /\ Open \subseteq Channels /\ IsFiniteSet(Open) /\ Count \in Nat
                    /\ Open \subseteq Opened
  BY FiniteChannels, FS_Subset, FS_CardinalityType DEF Open, Count, Opened

LEMMA InitIInv == Init => IInv
  <1> SUFFICES ASSUME Init PROVE IInv
    OBVIOUS
  <1>1. Cardinality({}) = 0 BY FS_EmptySet
  <1>2. TypeOK BY OnboardingAssumption DEF Init, TypeOK, Run, NoRun
  <1>3. \A r \in Runs : run[r] = NoRun BY DEF Init
  <1>4. \A r \in Runs : Right(run[r])
    BY <1>1, <1>3, OnboardingAssumption DEF Right, RefusedRight, NoRun
  <1>5. OwnOrder BY <1>3 DEF OwnOrder, NoRun
  <1>7. \A o \in Orders : OrderRight(o)
    BY DEF Init, OrderRight, Channels
  <1> QED BY <1>2, <1>4, <1>5, <1>7 DEF IInv

-----------------------------------------------------------------------------
(* Steps of one run that change no order and no channel.                   *)

LEMMA RunStep ==
    ASSUME IInv, NEW r \in Runs, NEW n, n \in Run, Right(n),
           n.order \in {run[r].order, None},
           Becomes(r, n), wallet' \in Nat, peer' \in BOOLEAN,
           UNCHANGED <<order, sent, chan>>
    PROVE  IInv'
  <1>1. /\ run \in [Runs -> Run] /\ \A s \in Runs : Right(run[s])
        /\ \A o \in Orders : OrderRight(o)
    BY DEF IInv, TypeOK
  <1>2. \A s \in Runs : run'[s] = IF s = r THEN n ELSE run[s]
    BY <1>1 DEF Becomes
  <1>3. run' \in [Runs -> Run] BY <1>1 DEF Becomes
  <1>4. TypeOK' BY <1>3 DEF IInv, TypeOK
  <1>5. \A s \in Runs : Right(run'[s]) BY <1>1, <1>2
  <1>6. \A s \in Runs : Right(run[s])' BY <1>5 DEF Right, RefusedRight, Opened
  <1>7. \A o \in Orders : OrderRight(o)' BY <1>1 DEF OrderRight
  <1>8. OwnOrder' BY <1>2 DEF IInv, OwnOrder
  <1> QED BY <1>4, <1>6, <1>7, <1>8 DEF IInv

LEMMA Restarted ==
    ASSUME NEW k \in Nat, NEW S \in SUBSET Channels
    PROVE  [NoRun EXCEPT !.pc = "balance", !.baseline = k, !.before = S] \in Run
  <1>1. NoRun \in Run BY OnboardingAssumption DEF NoRun, Run
  <1>2. "balance" \in Ended \cup Active \cup {"idle"} BY DEF Active
  <1> HIDE DEF NoRun
  <1> QED BY <1>1, <1>2 DEF Run

LEMMA StartStep ==
    ASSUME IInv, NEW r \in Runs, Start(r) PROVE IInv'
  <1> DEFINE n == [NoRun EXCEPT !.pc = "balance", !.baseline = Count, !.before = Open]
  <1>1. /\ n.pc = "balance" /\ n.order = None /\ n.before = Open
        /\ n.baseline = Count /\ n.polls < MaxPolls /\ n.short = None
    BY OnboardingAssumption DEF NoRun
  <1>2. n \in Run BY FiniteOpen, Restarted
  <1>3. Right(n)
    <2> HIDE DEF n
    <2> QED BY <1>1, FiniteOpen, OnboardingAssumption DEF Right, RefusedRight, Count
  <1>4. Becomes(r, n) /\ UNCHANGED <<wallet, peer, order, sent, chan>>
    BY DEF Start
  <1>5. wallet' \in Nat /\ peer' \in BOOLEAN BY <1>4 DEF IInv, TypeOK
  <1> HIDE DEF n
  <1> QED BY <1>1, <1>2, <1>3, <1>4, <1>5, RunStep

\* A run goes on to a place where it still has, or has not, its order; the
\* balance and the number of polls are of no consequence.
LEMMA MoveStep ==
    ASSUME IInv, NEW r \in Runs, NEW n, n \in Run,
           n.order = run[r].order, n.before = run[r].before,
           n.baseline = run[r].baseline,
           n.pc \in {"balance", "connect", "order"} => run[r].pc \in {"balance", "connect", "order"},
           n.pc = "poll" => run[r].pc \in {"pay", "poll"},
           n.pc \notin {"idle", "pay"},
           n.pc \notin Ended => n.polls < MaxPolls,
           n.pc = "done" => \E c \in Opened : c \notin n.before,
           RefusedRight(n),
           Becomes(r, n), wallet' \in Nat, peer' \in BOOLEAN,
           UNCHANGED <<order, sent, chan>>
    PROVE  IInv'
  <1>1. Right(run[r]) /\ n.pc \in Ended \cup Active \cup {"idle"}
    BY DEF IInv, Run
  <1>2. Right(n) BY <1>1 DEF Right, Ended, Active
  <1> QED BY <1>2, RunStep

\* A run that has failed has nothing left.
Failed == [NoRun EXCEPT !.pc = "failed"]

LEMMA FailedRun ==
    /\ Failed \in Run /\ Failed.pc = "failed" /\ Failed.order = None
    /\ Failed.before = {} /\ Failed.baseline = Cardinality(Failed.before)
    /\ Failed.short = None
  <1>1. Cardinality({}) = 0 BY FS_EmptySet
  <1>2. NoRun \in Run BY OnboardingAssumption DEF NoRun, Run
  <1>3. "failed" \in Ended \cup Active \cup {"idle"} BY DEF Ended
  <1>4. Failed \in Run
    <2> HIDE DEF NoRun
    <2> QED BY <1>2, <1>3 DEF Failed, Run
  <1> QED BY <1>1, <1>4 DEF Failed, NoRun

LEMMA FailsStep ==
    ASSUME IInv, NEW r \in Runs, Fails(r),
           UNCHANGED <<order, sent, chan>>, wallet' \in Nat, peer' \in BOOLEAN
    PROVE  IInv'
  <1>1. Right(Failed) BY FailedRun DEF Right, RefusedRight, Opened, Ended
  <1>2. Becomes(r, Failed) BY DEF Fails, Failed
  <1> QED BY <1>1, <1>2, FailedRun, RunStep

LEMMA SimpleStep ==
    ASSUME IInv, NEW r \in Runs,
           \/ Balance(r) \/ Manual(r) \/ TooExpensive(r) \/ SendRefused(r)
           \/ GivesUp(r) \/ OrderRefused(r)
           \/ Connect(r, TRUE) \/ Connect(r, FALSE)
    PROVE  IInv'
  <1> DEFINE q == run[r]
  <1>1. q \in Run /\ Right(q) /\ wallet \in Nat /\ peer \in BOOLEAN
    BY DEF IInv, TypeOK
  <1>2. CASE Balance(r)
    <2>1. PICK pc \in {"connect", "order"} :
            Becomes(r, [q EXCEPT !.pc = pc, !.spendable = wallet])
      BY <1>2 DEF Balance
    <2> DEFINE n == [q EXCEPT !.pc = pc, !.spendable = wallet]
    <2>2. /\ n \in Run /\ n.pc = pc /\ n.order = q.order /\ n.before = q.before
          /\ n.baseline = q.baseline /\ n.polls = q.polls
          /\ n.short = q.short
      <3> HIDE DEF q
      <3> QED BY <1>1 DEF Run, Active
    <2>3. /\ q.pc = "balance" /\ q.polls < MaxPolls /\ q.short = None
          /\ UNCHANGED <<wallet, peer, order, sent, chan>>
      BY <1>1, <1>2 DEF Balance, At, Right, RefusedRight, Ended
    <2>4. Becomes(r, n) BY <2>1
    <2> HIDE DEF n
    <2>5. RefusedRight(n) BY <2>2, <2>3 DEF RefusedRight
    <2> QED BY <1>1, <2>2, <2>3, <2>4, <2>5, MoveStep
  <1>4. CASE Manual(r)
    <2> DEFINE n == [q EXCEPT !.pc = "printed"]
    <2>1. /\ n \in Run /\ n.pc = "printed" /\ n.order = q.order /\ n.before = q.before
          /\ n.baseline = q.baseline /\ n.pc \in Ended
          /\ n.short = q.short /\ n.spendable = q.spendable
      <3> HIDE DEF q
      <3> QED BY <1>1 DEF Run, Ended
    <2>2. Becomes(r, n) /\ UNCHANGED <<wallet, peer, order, sent, chan>>
      BY <1>4 DEF Manual
    <2> HIDE DEF n
    <2>3. RefusedRight(n) BY <1>1, <2>1 DEF Right, RefusedRight
    <2> QED BY <1>1, <2>1, <2>2, <2>3, MoveStep
  <1>5. CASE TooExpensive(r) BY <1>1, <1>5, FailsStep DEF TooExpensive
  <1>6. CASE SendRefused(r)
    <2> DEFINE n == [q EXCEPT !.pc = "failed", !.short = wallet]
    <2>1. /\ n \in Run /\ n.pc = "failed" /\ n.order = q.order
          /\ n.before = q.before /\ n.baseline = q.baseline /\ n.pc \in Ended
          /\ n.short = wallet /\ n.spendable = q.spendable
      <3> HIDE DEF q
      <3> QED BY <1>1 DEF Run, Ended
    <2>2. Becomes(r, n) /\ UNCHANGED <<wallet, peer, order, sent, chan>>
      BY <1>6 DEF SendRefused
    <2>3. /\ q.spendable \in Nat /\ q.spendable >= Total
          /\ ~(wallet >= Total + Fee)
      BY <1>1, <1>6 DEF Run, SendRefused, Covered, Affordable
    <2> HIDE DEF n, q
    <2>4. RefusedRight(n)
      BY <1>1, <2>1, <2>3, OnboardingAssumption DEF RefusedRight
    <2> QED BY <1>1, <2>1, <2>2, <2>4, MoveStep DEF q
  <1>7. CASE GivesUp(r) \/ OrderRefused(r)
    BY <1>1, <1>7, FailsStep DEF GivesUp, OrderRefused
  <1>8. CASE Connect(r, FALSE) BY <1>1, <1>8, FailsStep DEF Connect
  <1>9. CASE Connect(r, TRUE)
    <2> DEFINE n == [q EXCEPT !.pc = "order"]
    <2>1. /\ n \in Run /\ n.pc = "order" /\ n.order = q.order
          /\ n.before = q.before /\ n.baseline = q.baseline /\ n.polls = q.polls
          /\ n.short = q.short
      <3> HIDE DEF q
      <3> QED BY <1>1 DEF Run, Active
    <2>2. Becomes(r, n) /\ peer' = TRUE /\ UNCHANGED <<wallet, order, sent, chan>>
          /\ q.pc = "connect" /\ q.polls < MaxPolls /\ q.short = None
      BY <1>1, <1>9 DEF Connect, At, Right, RefusedRight, Ended
    <2> HIDE DEF n
    <2>3. RefusedRight(n) BY <2>1, <2>2 DEF RefusedRight
    <2> QED BY <1>1, <2>1, <2>2, <2>3, MoveStep
  <1> QED BY <1>2, <1>4, <1>5, <1>6, <1>7, <1>8, <1>9

\* More channels than at first, so one that was not there; or a completed
\* order, whose channel was not there when the order was placed.
LEMMA ArrivedMeansOpened ==
    ASSUME IInv, NEW r \in Runs, run[r].order # None, NEW completed \in BOOLEAN,
           completed => order[run[r].order] = "completed",
           Arrived(r, completed)
    PROVE  \E c \in Opened : c \notin run[r].before
  <1> DEFINE q == run[r]
  <1>1. q \in Run /\ Right(q) BY DEF IInv, TypeOK
  <1>2. CASE completed
    <2>1. q.order \in Orders BY <1>1 DEF Run
    <2>2. chan[q.order] # "none" BY <1>2, <2>1 DEF IInv, OrderRight
    <2> QED BY <1>1, <2>1, <2>2 DEF Right, Opened, Channels
  <1>3. CASE Count > q.baseline
    <2> SUFFICES ASSUME \A c \in Opened : c \in q.before PROVE FALSE
      OBVIOUS
    <2>1. Open \subseteq q.before BY FiniteOpen
    <2>2. q.before \subseteq Channels BY <1>1 DEF Run
    <2>3. IsFiniteSet(q.before) BY <2>2, FiniteChannels, FS_Subset
    <2>4. Cardinality(Open) <= Cardinality(q.before)
      BY <2>1, <2>3, FS_Subset
    <2>5. Cardinality(q.before) \in Nat BY <2>3, FS_CardinalityType
    <2>6. Count <= q.baseline BY <1>1, <2>4 DEF Right, Count
    <2> QED BY <1>1, <1>3, <2>5, <2>6, FiniteOpen DEF Right
  <1> QED BY <1>2, <1>3 DEF Arrived

LEMMA PollStep ==
    ASSUME IInv, NEW r \in Runs, NEW known \in BOOLEAN, Poll(r, known)
    PROVE  IInv'
  <1> DEFINE q == run[r]
             completed == Completed(r, known)
             pc == IF Arrived(r, completed) THEN "done"
                   ELSE IF q.polls + 1 = MaxPolls THEN "failed" ELSE "poll"
             n == [q EXCEPT !.polls = q.polls + 1, !.pc = pc]
  <1>1. q \in Run /\ Right(q) /\ q.pc = "poll" BY DEF IInv, TypeOK, Poll, At
  <1>2. Becomes(r, n) /\ UNCHANGED <<wallet, peer, order, sent, chan>>
    BY DEF Poll
  <1>3. q.order # None BY <1>1 DEF Right
  <1>4. completed \in BOOLEAN BY DEF Completed
  <1>5. pc = "done" => \E c \in Opened : c \notin q.before
    <2> SUFFICES ASSUME Arrived(r, completed) PROVE \E c \in Opened : c \notin q.before
      OBVIOUS
    <2> QED BY <1>3, <1>4, ArrivedMeansOpened DEF Completed
  <1>6. pc \in {"done", "failed", "poll"} OBVIOUS
  <1>7. q.polls + 1 \in 0 .. MaxPolls
    BY <1>1, OnboardingAssumption DEF Right, Run, Ended
  <1>8. /\ n \in Run /\ n.pc = pc /\ n.order = q.order /\ n.before = q.before
        /\ n.baseline = q.baseline
        /\ n.polls = q.polls + 1 /\ n.short = q.short
    <2> HIDE DEF q, pc
    <2> QED BY <1>1, <1>6, <1>7 DEF Run, Ended, Active
  <1>11. q.short = None BY <1>1 DEF Right, RefusedRight, Ended
  <1>10. n.pc \notin Ended => n.polls < MaxPolls
    <2>1. pc \notin Ended => q.polls + 1 # MaxPolls BY DEF Ended
    <2>2. MaxPolls \in Nat BY OnboardingAssumption
    <2> HIDE DEF q, pc, n
    <2> QED BY <1>7, <1>8, <2>1, <2>2
  <1>9. wallet' \in Nat /\ peer' \in BOOLEAN BY <1>2 DEF IInv, TypeOK
  <1> HIDE DEF n, pc
  <1>12. RefusedRight(n) BY <1>8, <1>11 DEF RefusedRight
  <1> QED BY <1>1, <1>2, <1>5, <1>6, <1>8, <1>9, <1>10, <1>12, MoveStep

-----------------------------------------------------------------------------
(* Steps on an order.                                                      *)

LEMMA CreateOrderStep ==
    ASSUME IInv, NEW r \in Runs, NEW o \in Orders, NEW heard \in BOOLEAN,
           CreateOrder(r, o, heard)
    PROVE  IInv'
  <1> DEFINE q == run[r]
             n == IF heard THEN [q EXCEPT !.pc = "pay", !.order = o]
                           ELSE Failed
  <1>1. /\ q \in Run /\ Right(q) /\ q.pc = "order" /\ order[o] = "none"
        /\ order' = [order EXCEPT ![o] = "created"]
        /\ UNCHANGED <<wallet, peer, sent, chan>>
    BY DEF IInv, TypeOK, CreateOrder, At
  <1>2. Becomes(r, n) BY DEF CreateOrder, Fails, Failed
  <1>14. q.short = None /\ q.polls < MaxPolls /\ q.baseline = Cardinality(q.before)
    BY <1>1 DEF Right, RefusedRight, Ended
  <1>4. q.order = None BY <1>1 DEF Right
  <1>3. /\ n \in Run /\ n.before \in {q.before, {}}
        /\ n.baseline = Cardinality(n.before)
        /\ n.pc = (IF heard THEN "pay" ELSE "failed")
        /\ n.order = (IF heard THEN o ELSE None) /\ n.short = None
        /\ heard => n.polls < MaxPolls
    <2> HIDE DEF q
    <2> QED BY <1>1, <1>14, FailedRun DEF Run, Ended, Active
  <1>15. RefusedRight(n)
    <2> HIDE DEF n
    <2> QED BY <1>3 DEF RefusedRight
  <1>5. sent[o] = 0 /\ chan[o] = "none" /\ OrderRight(o)
    BY <1>1 DEF IInv, OrderRight
  <1>6. o \notin q.before BY <1>1, <1>5 DEF Right, Opened
  <1>7. \A s \in Runs : run[s].order # o
    BY <1>1, OnboardingAssumption DEF IInv, Right
  <1>8. \A p \in Orders : order'[p] = IF p = o THEN "created" ELSE order[p]
    BY <1>1 DEF IInv, TypeOK
  <1>9. \A s \in Runs : run'[s] = IF s = r THEN n ELSE run[s]
    BY <1>2 DEF Becomes, IInv, TypeOK
  <1>10. TypeOK'
    BY <1>1, <1>2, <1>3 DEF IInv, TypeOK, Becomes
  <1> HIDE DEF n
  <1>11. \A s \in Runs : Right(run[s])'
    <2> SUFFICES ASSUME NEW s \in Runs PROVE Right(run[s])'
      OBVIOUS
    <2>1. CASE s = r
      <3>1. None # o BY OnboardingAssumption
      <3>2. RefusedRight(run[s])' BY <1>9, <1>15, <2>1 DEF RefusedRight
      <3> QED BY <1>1, <1>3, <1>4, <1>5, <1>6, <1>8, <1>9, <2>1, <3>1, <3>2
              DEF Right, Opened, Ended
    <2>2. CASE s # r
      <3>1. run'[s] = run[s] /\ Right(run[s]) /\ run[s] \in Run
        BY <1>9, <2>2 DEF IInv, TypeOK
      <3>2. run[s].order # None => run[s].order \in Orders
        BY <3>1 DEF Run
      <3> QED BY <1>1, <1>7, <1>8, <3>1, <3>2 DEF Right, RefusedRight, Opened
    <2> QED BY <2>1, <2>2
  <1>12. \A p \in Orders : OrderRight(p)'
    BY <1>1, <1>5, <1>8 DEF IInv, OrderRight
  <1>13. OwnOrder'
    BY <1>3, <1>4, <1>7, <1>9 DEF IInv, OwnOrder
  <1> QED BY <1>10, <1>11, <1>12, <1>13 DEF IInv

LEMMA SendStep ==
    ASSUME IInv, NEW r \in Runs, NEW heard \in BOOLEAN, Send(r, heard)
    PROVE  IInv'
  <1> DEFINE q == run[r]
             o == q.order
             n == IF heard THEN [q EXCEPT !.pc = "poll"] ELSE Failed
  <1>1. /\ q \in Run /\ Right(q) /\ q.pc = "pay"
        /\ wallet >= Total + Fee /\ wallet' = wallet - Total - Fee
        /\ sent' = [sent EXCEPT ![o] = @ + Total]
        /\ UNCHANGED <<peer, order, chan>>
    BY DEF IInv, TypeOK, Send, At, Affordable
  <1>2. Becomes(r, n) BY DEF Send, Fails, Failed
  <1>12. q.short = None /\ q.polls < MaxPolls /\ q.baseline = Cardinality(q.before)
    BY <1>1 DEF Right, RefusedRight, Ended
  <1>3. /\ n \in Run /\ n.before \in {q.before, {}}
        /\ n.baseline = Cardinality(n.before)
        /\ n.order = (IF heard THEN q.order ELSE None)
        /\ n.pc = (IF heard THEN "poll" ELSE "failed") /\ n.short = None
        /\ heard => n.polls < MaxPolls
    <2> HIDE DEF q
    <2> QED BY <1>1, <1>12, FailedRun DEF Run, Ended, Active
  <1>4. o \in Orders /\ sent[o] = 0 /\ order[o] # "none"
    BY <1>1 DEF Right, Run
  <1>5. \A p \in Orders : sent'[p] = IF p = o THEN Total ELSE sent[p]
    BY <1>1, <1>4, OnboardingAssumption DEF IInv, TypeOK
  <1>6. \A s \in Runs : run'[s] = IF s = r THEN n ELSE run[s]
    BY <1>2 DEF Becomes, IInv, TypeOK
  <1>7. TypeOK'
    <2>1. wallet' \in Nat
      BY <1>1, OnboardingAssumption DEF IInv, TypeOK
    <2>2. run' \in [Runs -> Run] BY <1>2, <1>3 DEF IInv, TypeOK, Becomes
    <2>3. sent' \in [Orders -> Nat]
      BY <1>1, <1>5, OnboardingAssumption DEF IInv, TypeOK
    <2> QED BY <1>1, <2>1, <2>2, <2>3 DEF IInv, TypeOK
  <1> HIDE DEF n
  <1>11. RefusedRight(n) BY <1>3 DEF RefusedRight
  <1>8. \A s \in Runs : Right(run[s])'
    <2> SUFFICES ASSUME NEW s \in Runs PROVE Right(run[s])'
      OBVIOUS
    <2>1. CASE s = r
      <3>1. RefusedRight(run[s])' BY <1>6, <1>11, <2>1 DEF RefusedRight
      <3> QED BY <1>1, <1>3, <1>4, <1>6, <2>1, <3>1 DEF Right, Opened, Ended
    <2>2. CASE s # r
      <3>1. run'[s] = run[s] /\ Right(run[s]) /\ run[s] \in Run
        BY <1>6, <2>2 DEF IInv, TypeOK
      <3>2. run[s].order # None => run[s].order \in Orders /\ run[s].order # o
        BY <1>4, <2>2, <3>1, OnboardingAssumption DEF Run, IInv, OwnOrder
      <3>3. run[s].pc = "pay" => sent'[run[s].order] = 0
        BY <1>5, <3>1, <3>2 DEF Right
      <3> QED BY <1>1, <3>1, <3>3 DEF Right, RefusedRight, Opened
    <2> QED BY <2>1, <2>2
  <1>9. \A p \in Orders : OrderRight(p)'
    <2> HIDE DEF o
    <2> QED BY <1>1, <1>4, <1>5 DEF IInv, OrderRight
  <1>10. OwnOrder' BY <1>3, <1>6 DEF IInv, OwnOrder
  <1> QED BY <1>7, <1>8, <1>9, <1>10 DEF IInv
-----------------------------------------------------------------------------

LEMMA PaidElsewhereStep ==
    ASSUME IInv, NEW o \in Orders, PaidElsewhere(o) PROVE IInv'
  <1>1. PICK holder \in Runs : At(holder, "printed") /\ run[holder].order = o
    BY DEF PaidElsewhere
  <1>2. /\ sent[o] = 0 /\ sent' = [sent EXCEPT ![o] = Total]
        /\ UNCHANGED <<wallet, peer, order, chan, run>>
    BY DEF PaidElsewhere
  <1>3. \A p \in Orders : sent'[p] = IF p = o THEN Total ELSE sent[p]
    BY <1>2 DEF IInv, TypeOK
  <1>4. TypeOK' BY <1>2, <1>3, OnboardingAssumption DEF IInv, TypeOK
  <1>5. run[holder].order # None /\ order[o] # "none"
    BY <1>1, OnboardingAssumption DEF IInv, Right
  <1>6. \A s \in Runs : Right(run[s])'
    <2> SUFFICES ASSUME NEW s \in Runs PROVE Right(run[s])'
      OBVIOUS
    <2>1. Right(run[s]) /\ run[s] \in Run BY DEF IInv, TypeOK
    <2>2. run[s].pc = "pay" => run[s].order \in Orders /\ run[s].order # o
      BY <1>1, <1>5, <2>1 DEF At, Right, Run, IInv, OwnOrder
    <2>3. run[s].pc = "pay" => sent'[run[s].order] = 0
      BY <1>3, <2>1, <2>2 DEF Right
    <2> QED BY <1>2, <2>1, <2>3 DEF Right, RefusedRight, Opened
  <1>7. \A p \in Orders : OrderRight(p)'
    BY <1>2, <1>3, <1>5 DEF IInv, OrderRight
  <1>8. OwnOrder' BY <1>2 DEF IInv, OwnOrder
  <1> QED BY <1>4, <1>6, <1>7, <1>8 DEF IInv

-----------------------------------------------------------------------------
(* Steps that no run takes and that send no money: orders and channels     *)
(* come about and never vanish.                                            *)

LEMMA WorldStep ==
    ASSUME IInv, TypeOK', UNCHANGED <<sent, run>>,
           \A o \in Orders : order[o] # "none" => order'[o] # "none",
           \A c \in Channels : chan[c] # "none" => chan'[c] # "none",
           \A o \in Orders : OrderRight(o)'
    PROVE  IInv'
  <1>1. \A s \in Runs : Right(run[s])'
    <2> SUFFICES ASSUME NEW s \in Runs PROVE Right(run[s])'
      OBVIOUS
    <2>1. Right(run[s]) /\ run[s] \in Run BY DEF IInv, TypeOK
    <2>2. Opened \subseteq Opened' BY DEF Opened
    <2>3. run[s].order # None => run[s].order \in Orders BY <2>1 DEF Run
    <2> QED BY <2>1, <2>2, <2>3 DEF Right, RefusedRight
  <1>2. OwnOrder' BY DEF IInv, OwnOrder
  <1> QED BY <1>1, <1>2 DEF IInv

LEMMA ProviderStep ==
    ASSUME IInv, NEW o \in Orders, Provider(o) PROVE IInv'
  <1>1. /\ order \in [Orders -> {"none", "created", "paid", "completed"}]
        /\ chan \in [Channels -> {"none", "pending", "usable", "closed"}]
        /\ o \in Channels
    BY DEF IInv, TypeOK, Channels
  <1>2. \A p \in Orders : OrderRight(p) BY DEF IInv
  <1>3. CASE order' = [order EXCEPT ![o] = "paid"] /\ order[o] = "created"
             /\ UNCHANGED <<wallet, peer, sent, chan, run>>
    <2>1. TypeOK' BY <1>1, <1>3 DEF IInv, TypeOK
    <2>2. \A p \in Orders : order'[p] = IF p = o THEN "paid" ELSE order[p]
      BY <1>1, <1>3
    <2> QED BY <1>2, <1>3, <2>1, <2>2, WorldStep DEF OrderRight
  <1>4. CASE chan' = [chan EXCEPT ![o] = "pending"] /\ order[o] = "paid"
             /\ UNCHANGED <<wallet, peer, sent, order, run>>
    <2>1. TypeOK' BY <1>1, <1>4 DEF IInv, TypeOK
    <2>2. \A c \in Channels : chan'[c] = IF c = o THEN "pending" ELSE chan[c]
      BY <1>1, <1>4
    <2>3. \A p \in Orders : p \in Channels BY DEF Channels
    <2> QED BY <1>2, <1>4, <2>1, <2>2, <2>3, WorldStep DEF OrderRight
  <1>5. CASE order' = [order EXCEPT ![o] = "completed"] /\ order[o] = "paid"
             /\ chan[o] # "none" /\ UNCHANGED <<wallet, peer, sent, chan, run>>
    <2>1. TypeOK' BY <1>1, <1>5 DEF IInv, TypeOK
    <2>2. \A p \in Orders : order'[p] = IF p = o THEN "completed" ELSE order[p]
      BY <1>1, <1>5
    <2> QED BY <1>2, <1>5, <2>1, <2>2, WorldStep DEF OrderRight
  <1> QED BY <1>3, <1>4, <1>5 DEF Provider

LEMMA ChannelStep ==
    ASSUME IInv, NEW c \in Channels, Channel(c) PROVE IInv'
  <1>1. PICK s \in {"pending", "usable", "closed"} : chan' = [chan EXCEPT ![c] = s]
    BY DEF Channel
  <1>2. UNCHANGED <<wallet, peer, order, sent, run>> BY DEF Channel
  <1>3. c \in Others \/ chan[c] # "none" BY DEF Channel
  <1>4. \A d \in Channels : chan'[d] = IF d = c THEN s ELSE chan[d]
    BY <1>1 DEF IInv, TypeOK
  <1>5. TypeOK' BY <1>1, <1>2 DEF IInv, TypeOK
  <1>6. \A o \in Orders : OrderRight(o)'
    <2> SUFFICES ASSUME NEW o \in Orders PROVE OrderRight(o)'
      OBVIOUS
    <2>1. OrderRight(o) /\ o \in Channels /\ o \notin Others
      BY OnboardingAssumption DEF IInv, Channels
    <2>2. chan'[o] = "none" <=> chan[o] = "none" BY <1>3, <1>4, <2>1
    <2> QED BY <1>2, <2>1, <2>2 DEF OrderRight
  <1> QED BY <1>2, <1>4, <1>5, <1>6, WorldStep

LEMMA IInvStep == IInv /\ [Next]_vars => IInv'
  <1> SUFFICES ASSUME IInv, [Next]_vars PROVE IInv'
    OBVIOUS
  <1>1. ASSUME NEW r \in Runs, Start(r) PROVE IInv'
    BY <1>1, StartStep
  <1>2. ASSUME NEW r \in Runs, Step(r) PROVE IInv'
    BY <1>2, SimpleStep, SendStep, PollStep, CreateOrderStep DEF Step
  <1>3. ASSUME NEW r \in Runs, GivesUp(r) PROVE IInv'
    BY <1>3, SimpleStep
  <1>4. ASSUME NEW o \in Orders, Provider(o) PROVE IInv'
    BY <1>4, ProviderStep
  <1>5. ASSUME NEW o \in Orders, PaidElsewhere(o) PROVE IInv'
    BY <1>5, PaidElsewhereStep
  <1>6. ASSUME NEW c \in Channels, Channel(c) PROVE IInv'
    BY <1>6, ChannelStep
  <1>7. CASE SpendsElsewhere \/ Disconnects \/ UNCHANGED vars
    <2>1. UNCHANGED <<order, sent, chan, run>>
      BY <1>7 DEF SpendsElsewhere, Disconnects, vars
    <2>2. wallet' \in Nat /\ peer' \in BOOLEAN
      BY <1>7, OnboardingAssumption
         DEF SpendsElsewhere, Disconnects, vars, IInv, TypeOK
    <2>3. TypeOK' BY <2>1, <2>2 DEF IInv, TypeOK
    <2>4. \A o \in Orders : OrderRight(o)' BY <2>1 DEF IInv, OrderRight
    <2> QED BY <2>1, <2>3, <2>4, WorldStep
  <1> QED BY <1>1, <1>2, <1>3, <1>4, <1>5, <1>6, <1>7 DEF Next

-----------------------------------------------------------------------------
(* Theorems.                                                               *)

\* A run that has an order is the only one that has it, and has not paid it
\* before its payment step; what it saw at the start is kept.
THEOREM Invariance == Spec => []IInv
  BY InitIInv, IInvStep, PTL DEF Spec

\* The wallet never goes negative, and polls stay within their bound
\* (lsps1-onboard.sh:107).
THEOREM TypeCorrect == Spec => []TypeOK
  <1>1. IInv => TypeOK BY DEF IInv
  <1> QED BY <1>1, Invariance, PTL

\* However often the script is run, by however many at a time, and whatever
\* answers are lost, no order is paid twice (lsps1-onboard.sh:97).
THEOREM OrderPaidOnceHolds == Spec => []OrderPaidOnce
  <1>1. IInv => OrderPaidOnce
    BY DEF IInv, OrderRight, OwnOrder, OrderPaidOnce
  <1> QED BY <1>1, Invariance, PTL

\* The wallet refuses a payment the script took for covered only if it has
\* been spent from since, or lacks no more than the fee (lsps1-onboard.sh:96).
THEOREM RefusedOnlyIfSpentHolds == Spec => []RefusedOnlyIfSpent
  <1>1. IInv => RefusedOnlyIfSpent
    BY DEF IInv, Right, RefusedRight, RefusedOnlyIfSpent
  <1> QED BY <1>1, Invariance, PTL

\* The script's "DONE" means that a channel was opened after it had started
\* (lsps1-onboard.sh:110), in any number of channels opened and closed.
THEOREM DoneAfterOpeningHolds == Spec => []DoneAfterOpening
  <1>1. IInv => DoneAfterOpening
    BY DEF IInv, Right, Opened, At, DoneAfterOpening
  <1> QED BY <1>1, Invariance, PTL
=============================================================================

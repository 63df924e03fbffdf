----------------------------- MODULE Onboarding -----------------------------
(***************************************************************************)
(* Buying a node its first channel: the script lsps1-onboard.sh            *)
(* (src/scripts), which drives the admin API (src/src/admin.rs), which     *)
(* drives the node's on-chain wallet and the LSPS1 provider.               *)
(*                                                                         *)
(* The handlers keep nothing.  A step of the script is one request: it may *)
(* not get there, it may be refused, or it may take effect and its answer  *)
(* be lost.  In each of these cases the script, under set -e, ends.  It    *)
(* may be run again, or twice at a time.                                   *)
(***************************************************************************)
EXTENDS Integers, FiniteSets

CONSTANTS Runs,      \* runs of the script in progress or ended last
          Orders,    \* orders the provider has numbers for
          Others,    \* channels opened otherwise: just in time, or by hand
          Total,     \* order_total_sat
          Fee,       \* of an on-chain transaction
          Deposits,  \* what the operator may leave in the wallet
          MaxPolls,  \* how often the script looks for the channel
          None

ASSUME OnboardingAssumption ==
    /\ Total \in Nat \ {0} /\ Fee \in Nat /\ Deposits \subseteq Nat
    /\ MaxPolls \in Nat \ {0}
    /\ None \notin Orders /\ Orders \cap Others = {}
    /\ IsFiniteSet(Orders) /\ IsFiniteSet(Others)

VARIABLES wallet,  \* spendable on-chain balance
          peer,    \* whether the provider is connected
          order,   \* the provider's state of each order
          sent,    \* what each order's address has received
          chan,    \* the node's channels
          run      \* one record per run

vars == <<wallet, peer, order, sent, chan, run>>

Channels == Orders \cup Others

Ended  == {"done", "failed", "printed"}
Active == {"balance", "connect", "order", "pay", "poll"}

Run == [pc : Ended \cup Active \cup {"idle"},
        baseline : Nat,           \* channels of the first /health
        spendable : Nat,          \* SPENDABLE
        order : Orders \cup {None},
        polls : 0 .. MaxPolls,
        \* history: the open channels at the first /health, and what the
        \* wallet held when it refused to pay
        before : SUBSET Channels,
        short : Nat \cup {None}]

NoRun == [pc |-> "idle", baseline |-> 0, spendable |-> 0, order |-> None,
          polls |-> 0, before |-> {}, short |-> None]

TypeOK ==
    /\ wallet \in Nat /\ peer \in BOOLEAN
    /\ order \in [Orders -> {"none", "created", "paid", "completed"}]
    /\ sent \in [Orders -> Nat]
    /\ chan \in [Channels -> {"none", "pending", "usable", "closed"}]
    /\ run \in [Runs -> Run]

Init ==
    /\ wallet \in Deposits /\ peer \in BOOLEAN
    /\ order = [o \in Orders |-> "none"]
    /\ sent = [o \in Orders |-> 0]
    /\ chan = [c \in Channels |-> "none"]
    /\ run = [r \in Runs |-> NoRun]

-----------------------------------------------------------------------------
(* What the daemon answers.                                                *)

\* Every channel counts, usable or not (health, and get_balance).
Open == {c \in Channels : chan[c] \in {"pending", "usable"}}
Count == Cardinality(Open)

\* send_to_address: the amount and the fee.
Affordable(amount) == wallet >= amount + Fee

-----------------------------------------------------------------------------
(* The script.                                                             *)

At(r, pc) == run[r].pc = pc

Becomes(r, record) == run' = [run EXCEPT ![r] = record]

\* The shell and its variables end.
Fails(r) == Becomes(r, [NoRun EXCEPT !.pc = "failed"])

\* Section 0, /health.
Start(r) ==
    /\ run[r].pc \in Ended \cup {"idle"}
    /\ Becomes(r, [NoRun EXCEPT !.pc = "balance", !.baseline = Count,
                                !.before = Open])
    /\ UNCHANGED <<wallet, peer, order, sent, chan>>

\* ... and the balance.  Section 1 is skipped without LSPS1_NODE_URI.
Balance(r) ==
    /\ At(r, "balance")
    /\ \E pc \in {"connect", "order"} :
         Becomes(r, [run[r] EXCEPT !.pc = pc, !.spendable = wallet])
    /\ UNCHANGED <<wallet, peer, order, sent, chan>>

\* post_connect
Connect(r, heard) ==
    /\ At(r, "connect")
    /\ peer' = TRUE
    /\ IF heard THEN Becomes(r, [run[r] EXCEPT !.pc = "order"]) ELSE Fails(r)
    /\ UNCHANGED <<wallet, order, sent, chan>>

\* Section 2: post_lsps1_order asks the provider, who wants the node for a peer.
CreateOrder(r, o, heard) ==
    /\ At(r, "order")
    /\ peer /\ order[o] = "none"
    /\ order' = [order EXCEPT ![o] = "created"]
    /\ IF heard THEN Becomes(r, [run[r] EXCEPT !.pc = "pay", !.order = o])
                ELSE Fails(r)
    /\ UNCHANGED <<wallet, peer, sent, chan>>

\* Section 3, PAY_MODE=manual.
Manual(r) ==
    /\ At(r, "pay")
    /\ Becomes(r, [run[r] EXCEPT !.pc = "printed"])
    /\ UNCHANGED <<wallet, peer, order, sent, chan>>

\* Mutant of Covered: the balance is left to the wallet.
CoveredUnchecked(r) == TRUE

\* By the balance read in section 0.
Covered(r) == run[r].spendable >= Total

TooExpensive(r) ==
    /\ At(r, "pay") /\ ~Covered(r)
    /\ Fails(r)
    /\ UNCHANGED <<wallet, peer, order, sent, chan>>

\* Mutant of Send: without an answer, the script pays again.
SendAgain(r, heard) ==
    LET o == run[r].order
    IN  /\ At(r, "pay") /\ Covered(r)
        /\ Affordable(Total)
        /\ wallet' = wallet - Total - Fee
        /\ sent' = [sent EXCEPT ![o] = @ + Total]
        /\ IF heard THEN Becomes(r, [run[r] EXCEPT !.pc = "poll"])
                    ELSE UNCHANGED run
        /\ UNCHANGED <<peer, order, chan>>

\* post_send_onchain
Send(r, heard) ==
    LET o == run[r].order
    IN  /\ At(r, "pay") /\ Covered(r)
        /\ Affordable(Total)
        /\ wallet' = wallet - Total - Fee
        /\ sent' = [sent EXCEPT ![o] = @ + Total]
        /\ IF heard THEN Becomes(r, [run[r] EXCEPT !.pc = "poll"]) ELSE Fails(r)
        /\ UNCHANGED <<peer, order, chan>>

SendRefused(r) ==
    /\ At(r, "pay") /\ Covered(r)
    /\ ~Affordable(Total)
    /\ Becomes(r, [run[r] EXCEPT !.pc = "failed", !.short = wallet])
    /\ UNCHANGED <<wallet, peer, order, sent, chan>>

\* get_lsps1_order.  An error for an answer does not say what the order's state
\* is, which counts as another one.
Completed(r, known) == known /\ order[run[r].order] = "completed"

\* Mutant of Arrived: an equal number of channels will do.
ArrivedAtLeast(r, completed) == completed \/ Count >= run[r].baseline

\* The order is completed, or there are more channels than at first.
Arrived(r, completed) == completed \/ Count > run[r].baseline

\* Mutant of Poll: it looks once more.
PollOnceMore(r, known) ==
    LET completed == Completed(r, known)
    IN  /\ At(r, "poll")
        /\ Becomes(r, [run[r] EXCEPT
             !.polls = @ + 1,
             !.pc = IF Arrived(r, completed) THEN "done"
                    ELSE IF run[r].polls = MaxPolls THEN "failed" ELSE "poll"])
        /\ UNCHANGED <<wallet, peer, order, sent, chan>>

\* Section 4.
Poll(r, known) ==
    LET completed == Completed(r, known)
        polls     == run[r].polls + 1
    IN  /\ At(r, "poll")
        /\ Becomes(r, [run[r] EXCEPT
             !.polls = polls,
             !.pc = IF Arrived(r, completed) THEN "done"
                    ELSE IF polls = MaxPolls THEN "failed" ELSE "poll"])
        /\ UNCHANGED <<wallet, peer, order, sent, chan>>

\* A request that does not get there, or is refused, or an operator who
\* interrupts the script: it ends where it is.
GivesUp(r) ==
    /\ run[r].pc \in Active
    /\ Fails(r)
    /\ UNCHANGED <<wallet, peer, order, sent, chan>>

\* The provider refuses a node that is not its peer (or has run out of numbers).
OrderRefused(r) ==
    /\ At(r, "order")
    /\ ~peer \/ \A o \in Orders : order[o] # "none"
    /\ GivesUp(r)

\* What the script does by itself, with any answer or without.
Step(r) ==
    \/ Balance(r) \/ OrderRefused(r) \/ Manual(r) \/ TooExpensive(r) \/ SendRefused(r)
    \/ \E heard \in BOOLEAN :
         \/ Connect(r, heard) \/ Send(r, heard) \/ Poll(r, heard)
         \/ \E o \in Orders : CreateOrder(r, o, heard)

-----------------------------------------------------------------------------
(* The provider, the network and other payments.                           *)

\* The payment of an order is seen, and leads to a channel, which takes a
\* while to become usable; the order is completed when it is funded.
Provider(o) ==
    \/ /\ order[o] = "created" /\ sent[o] >= Total
       /\ order' = [order EXCEPT ![o] = "paid"]
       /\ UNCHANGED <<wallet, peer, sent, chan, run>>
    \/ /\ order[o] = "paid" /\ peer /\ chan[o] = "none"
       /\ chan' = [chan EXCEPT ![o] = "pending"]
       /\ UNCHANGED <<wallet, peer, order, sent, run>>
    \/ /\ order[o] = "paid" /\ chan[o] # "none"
       /\ order' = [order EXCEPT ![o] = "completed"]
       /\ UNCHANGED <<wallet, peer, sent, chan, run>>

Channel(c) ==
    /\ \/ c \in Others /\ chan[c] = "none" /\ chan' = [chan EXCEPT ![c] = "pending"]
       \/ chan[c] = "pending" /\ chan' = [chan EXCEPT ![c] = "usable"]
       \/ chan[c] \in {"pending", "usable"} /\ chan' = [chan EXCEPT ![c] = "closed"]
    /\ UNCHANGED <<wallet, peer, order, sent, run>>

\* An order that was printed is paid from another wallet.
PaidElsewhere(o) ==
    /\ \E r \in Runs : At(r, "printed") /\ run[r].order = o
    /\ sent[o] = 0
    /\ sent' = [sent EXCEPT ![o] = Total]
    /\ UNCHANGED <<wallet, peer, order, chan, run>>

\* The operator spends from the wallet, or the connection is lost.
SpendsElsewhere ==
    /\ \E rest \in Deposits : rest < wallet /\ wallet' = rest
    /\ UNCHANGED <<peer, order, sent, chan, run>>

Disconnects ==
    /\ peer /\ peer' = FALSE
    /\ UNCHANGED <<wallet, order, sent, chan, run>>

Next ==
    \/ \E r \in Runs : Start(r) \/ Step(r) \/ GivesUp(r)
    \/ \E o \in Orders : Provider(o) \/ PaidElsewhere(o)
    \/ \E c \in Channels : Channel(c)
    \/ SpendsElsewhere \/ Disconnects

Spec == Init /\ [][Next]_vars

-----------------------------------------------------------------------------
(* Properties.                                                             *)

\* No order is paid twice, in part or by two runs, whatever answers are lost
\* and however often the script is run (lsps1-onboard.sh:97).
OrderPaidOnce ==
    /\ \A o \in Orders : sent[o] \in {0, Total}
    /\ \A r, s \in Runs :
         run[r].order # None /\ run[r].order = run[s].order => r = s

\* The wallet refuses to pay, after an order has been made for nothing, only if
\* it has lost money since the script looked, or the balance it saw does not
\* leave the fee, which the script does not count (lsps1-onboard.sh:96).
RefusedOnlyIfSpent == \A r \in Runs :
    run[r].short # None =>
      \/ run[r].short < run[r].spendable
      \/ run[r].spendable \in Total .. Total + Fee - 1

\* The script says that it is done only if a channel has been opened since it
\* started, be it for another order, and whatever was closed meanwhile.
DoneAfterOpening == \A r \in Runs :
    At(r, "done") => \E c \in Channels \ run[r].before : chan[c] # "none"
=============================================================================

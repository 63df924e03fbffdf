------------------------------ MODULE LdkNode ------------------------------
(***************************************************************************)
(* The embedded ldk-node library, external to this repository, as far as   *)
(* the daemon relies on it: it issues invoices with fresh payment hashes,  *)
(* keeps a durable list of payments, and delivers PaymentReceived events   *)
(* from a durable queue whose head is removed only by event_handled().     *)
(* Recording a payment as succeeded and queueing its event are two steps,  *)
(* and after a restart LDK may replay the second one.                      *)
(***************************************************************************)
EXTENDS Domain, Integers, Sequences

VARIABLES kind,     \* PaymentKind of each invoice in the payment list
          settled,  \* hashes listed with PaymentStatus::Succeeded
          pending,  \* succeeded, their event still to be queued
          queue,    \* PaymentReceived events not yet handled
          bill      \* what the wallet that holds the invoice was billed for

InvoiceKinds == {"Bolt11", "Bolt11Jit"}

nodeVars == <<kind, settled, pending, queue, bill>>

NodeTypeOK ==
    /\ kind \in [Hashes -> InvoiceKinds \cup {"none"}]
    /\ settled \in SUBSET Hashes
    /\ pending \in SUBSET Hashes
    /\ queue \in Seq(Hashes)
    /\ bill \in [Hashes -> Slugs \cup {Other, None}]

NodeInit ==
    /\ kind = [h \in Hashes |-> "none"]
    /\ settled = {}
    /\ pending = {}
    /\ queue = <<>>
    /\ bill = [h \in Hashes |-> None]

-----------------------------------------------------------------------------
\* receive and receive_via_jit_channel: a hash nobody has seen before.
Receive(h, k) ==
    /\ kind[h] = "none"
    /\ kind' = [kind EXCEPT ![h] = k]

\* The invoice reaches a wallet.
Bill(h, item) == bill' = [bill EXCEPT ![h] = item]

\* The wallet pays and the node claims the payment; it can be paid once.
Settles(h) ==
    /\ bill[h] # None
    /\ h \notin settled
    /\ settled' = settled \cup {h}
    /\ pending' = pending \cup {h}
    /\ UNCHANGED <<kind, queue, bill>>

\* The event joins the queue; a replayed event that is still queued is the
\* same event.
Announces(h) ==
    /\ h \in pending
    /\ pending' = pending \ {h}
    /\ queue' = IF \E i \in 1..Len(queue) : queue[i] = h
                THEN queue ELSE Append(queue, h)
    /\ UNCHANGED <<kind, settled, bill>>

\* event_handled(): the head of the queue is removed, durably.
PopEvent ==
    /\ queue' = Tail(queue)
    /\ UNCHANGED <<kind, settled, pending, bill>>

\* The process ends: any event may be replayed by the next one.
NodeEnds ==
    /\ \E replay \in SUBSET settled : pending' = pending \cup replay
    /\ UNCHANGED <<kind, settled, queue, bill>>
=============================================================================

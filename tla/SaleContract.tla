---------------------------- MODULE SaleContract ----------------------------
(***************************************************************************)
(* What the gate promises a buyer, without saying how it keeps records:    *)
(* whoever paid an invoice for a product is granted that product whenever  *)
(* they ask, and nobody else is.  No restart, failed write or race between *)
(* tasks shows here; a restart merely interrupts conversations.            *)
(*                                                                         *)
(* An answer is decided at one moment while the question is open, and is   *)
(* right at that moment.                                                   *)
(***************************************************************************)
EXTENDS Domain

CONSTANT Desks   \* concurrent conversations with buyers

VARIABLES bill,     \* the item each delivered invoice is for
          settled,  \* invoices that were paid
          desk      \* per conversation: the question and its answer

Closed == [slug |-> None, hash |-> None, answer |-> "none"]

Question(slug, h, answer) == [slug |-> slug, hash |-> h, answer |-> answer]

Entitled(slug, h) == bill[h] = slug /\ h \in settled

Verdict(slug, h) == IF Entitled(slug, h) THEN "granted" ELSE "refused"

Init ==
    /\ bill = [h \in Hashes |-> None]
    /\ settled = {}
    /\ desk = [d \in Desks |-> Closed]

\* The invoice of a hash is for one item, once and for all.
Issue(h) ==
    /\ bill[h] = None
    /\ \E item \in Slugs \cup {Other} : bill' = [bill EXCEPT ![h] = item]
    /\ UNCHANGED <<settled, desk>>

Settle(h) ==
    /\ bill[h] # None
    /\ settled' = settled \cup {h}
    /\ UNCHANGED <<bill, desk>>

\* A question may be answered as it is asked.
Ask(d, slug, h) ==
    /\ desk[d] = Closed
    /\ \E answer \in {"open", Verdict(slug, h)} :
         desk' = [desk EXCEPT ![d] = Question(slug, h, answer)]
    /\ UNCHANGED <<bill, settled>>

Answer(d) ==
    /\ desk[d].answer = "open"
    /\ desk' = [desk EXCEPT ![d].answer = Verdict(desk[d].slug, desk[d].hash)]
    /\ UNCHANGED <<bill, settled>>

\* The conversations of some desks end.
Leave(D) ==
    /\ desk' = [d \in Desks |-> IF d \in D THEN Closed ELSE desk[d]]
    /\ UNCHANGED <<bill, settled>>

Next ==
    \/ \E h \in Hashes : Issue(h) \/ Settle(h)
    \/ \E d \in Desks :
         Answer(d) \/ \E slug \in Slugs, h \in Hashes : Ask(d, slug, h)
    \/ \E D \in SUBSET Desks : Leave(D)

Spec == Init /\ [][Next]_<<bill, settled, desk>>

EntitledStays == \A slug \in Slugs, h \in Hashes :
    Entitled(slug, h) => bill'[h] = slug /\ h \in settled'

\* OwedForGood: the credential of who has paid is durable (gate.rs:7): what they
\* are owed once they are owed for ever.
OwedForGood == [][EntitledStays]_<<bill, settled, desk>>
=============================================================================

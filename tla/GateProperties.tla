--------------------------- MODULE GateProperties ---------------------------
(***************************************************************************)
(* What makes the purchase gate correct.                                   *)
(***************************************************************************)
EXTENDS Gate

\* The holder of this invoice has paid it for this product.
Entitled(slug, h) == bill[h] = slug /\ h \in settled

\* SoldIsDurable: once post_invoice has handed out an invoice for a product,
\* the purchase and the product are in index.json, under the same slug, and so
\* survive any crash, even when the product's own upsert had failed to persist.
SoldIsDurable == \A h \in Hashes : bill[h] \in Slugs =>
    /\ disk.purchases[h] # None
    /\ disk.purchases[h].slug = bill[h]
    /\ disk.products[bill[h]] # None

\* LedgerSound: a purchase marked paid, in memory or in index.json, was paid on
\* this node by the wallet that was billed for the same product, whichever of
\* the event loop, get_status and get_download marked it.
LedgerSound == \A h \in Hashes, ledger \in {mem, disk} :
    ledger.purchases[h] # None /\ ledger.purchases[h].paid
        => Entitled(ledger.purchases[h].slug, h)

\* NoGoodsUnpaid: get_status says "paid" and get_download streams the artifact
\* only to the one who paid for that product.
NoGoodsUnpaid == \A w \in Tasks :
    task[w].pc \in {"paid", "stream"} => Entitled(task[w].slug, task[w].hash)

LedgerKept ==
    /\ \A h \in Hashes : disk.purchases[h] # None =>
         /\ disk'.purchases[h] # None
         /\ disk'.purchases[h].slug = disk.purchases[h].slug
         /\ disk.purchases[h].paid => disk'.purchases[h].paid
    /\ \A s \in Slugs : disk.products[s] # None => disk'.products[s] # None

\* LedgerMonotone: no step, crash and restart included, takes a purchase out of
\* index.json, moves it to another product or makes it unpaid again, and no
\* product leaves the registry.
LedgerMonotone == [][LedgerKept]_vars

\* HandledIsRecorded: when event_handled() is called for the payment of a buyer
\* (main.rs:307), memory knows the purchase and calls it paid, whether or not that
\* was saved (main.rs:237), and whatever ran since mark_paid has let go of the
\* lock: no event is acknowledged before its purchase is known.
HandledIsRecorded == loop = "marked" =>
    LET h == Head(queue)
    IN  bill[h] \in Slugs => mem.purchases[h] # None /\ mem.purchases[h].paid

\* FirstUploadIntact: a file that put_product has opened for writing only once
\* is exactly the artifact its product record measured, on both sides of a
\* crash, and so is every download that streams it.
FirstUploadIntact ==
    /\ \A s \in Slugs, ledger \in {mem, disk} :
         LET p == ledger.products[s]
         IN  p # None /\ FileName(s, p.format) \notin rewritten
                => file[FileName(s, p.format)] = p.size_bytes
    /\ \A w \in Tasks :
         /\ At(w, "stream")
         /\ FileName(task[w].slug, task[w].listing.format) \notin rewritten
         => task[w].body = task[w].listing.size_bytes

\* ServedIntact: get_download "streams the artifact" (gate.rs:6): its body is
\* the artifact whose size it announces as Content-Length.
ServedIntact == \A w \in Tasks :
    At(w, "stream") => task[w].body = task[w].listing.size_bytes

-----------------------------------------------------------------------------
(* The contract with the buyers.                                           *)

\* The sections of get_status and get_download that still owe the buyer an
\* answer, the replies that grant the product and those that do not.
Asking   == {"st_node", "st_mark", "dl_lookup", "dl_node", "dl_mark", "dl_open"}
Granting == {"paid", "stream"}
Refusing == {"unpaid", "missing", "lost"}

AnswerAt(pc) == IF pc \in Granting THEN "granted"
                ELSE IF pc \in Refusing THEN "refused"
                ELSE IF pc \in Asking THEN "open" ELSE "none"

\* What a buyer sees of a request.
DeskOf(r) == IF AnswerAt(r.pc) = "none"
             THEN [slug |-> None, hash |-> None, answer |-> "none"]
             ELSE [slug |-> r.slug, hash |-> r.hash, answer |-> AnswerAt(r.pc)]

Desk == [w \in Tasks |-> DeskOf(task[w])]

Contract == INSTANCE SaleContract WITH Desks <- Tasks, desk <- Desk

\* KeepsContract: every answer of get_status and get_download is right at the
\* moment it is decided: none refuses or fails a buyer who has paid, none
\* serves one who has not, whatever crashed or failed to persist before.
KeepsContract == Contract!Spec

-----------------------------------------------------------------------------
(* Liveness.  Threads of the runtime keep running, the supervisor restarts *)
(* the daemon, LDK queues the event of a payment it has recorded.          *)

Handler(w) ==
    \/ \E h \in Hashes : InvoiceNode(w, h)
    \/ InvoiceFails(w)
    \/ \E ok \in BOOLEAN :
         InvoiceRecord(w, ok) \/ StatusMark(w, ok) \/ DownloadMark(w, ok)
    \/ StatusNode(w) \/ DownloadLookup(w) \/ DownloadNode(w) \/ DownloadOpen(w)
    \/ Finish(w)

Fairness ==
    /\ WF_vars(StartNode) /\ WF_vars(OpenStore)
    /\ WF_vars(\E ok \in BOOLEAN : EventMark(ok))
    /\ WF_vars(EventHandled \/ EventHandledFails)
    /\ \A h \in Hashes : WF_vars(Announce(h))
    /\ \A w \in Tasks : WF_vars(Handler(w))

\* A buyer's page polls the status of its claim again and again, and its
\* requests are among those that are served.
Polls(slug, h) == \E w \in Tasks : StatusRead(w, slug, h)
Polling == \A slug \in Slugs, h \in Hashes : SF_vars(Polls(slug, h))

LiveSpec == Spec /\ Fairness /\ Polling

\* From some time on the process does not end.
Stays == <>[][~(proc # "down" /\ proc' = "down")]_vars

\* EventsDrain: if the daemon stops crashing, the event of every payment is
\* queued and handled: the loop neither stalls nor dies while the rest of the
\* process goes on serving.
EventsDrain == Stays => \A h \in Hashes :
    h \in settled ~> h \notin pending /\ \A i \in 1..Len(queue) : queue[i] # h

\* PollerIsTold: if the daemon stops crashing, a buyer who has paid and keeps
\* polling is eventually told so, even if every write to index.json fails and
\* the event was handled by a process that is gone.
PollerIsTold == Stays => \A slug \in Slugs, h \in Hashes :
    Entitled(slug, h) ~> \E w \in Tasks :
        At(w, "paid") /\ task[w].slug = slug /\ task[w].hash = h
=============================================================================

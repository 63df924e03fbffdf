--------------------------- MODULE GateInvariant ---------------------------
(***************************************************************************)
(* An inductive invariant of Gate: why the properties of GateProperties    *)
(* hold.  Each part is named for what it keeps.                            *)
(***************************************************************************)
EXTENDS GateProperties

\* While the store is open memory is at least as new as index.json, so a later
\* successful write never loses an entry; otherwise memory is empty.
MemoryAhead ==
    IF proc = "serving"
    THEN /\ \A h \in Hashes : disk.purchases[h] # None =>
              /\ mem.purchases[h] # None
              /\ mem.purchases[h].slug = disk.purchases[h].slug
              /\ disk.purchases[h].paid => mem.purchases[h].paid
         /\ \A s \in Slugs : disk.products[s] # None => mem.products[s] # None
    ELSE mem = Default

\* Only a running process has requests, uploads and an event loop.
OnlyWhileServing == proc # "serving" =>
    /\ loop = "down"
    /\ \A w \in Tasks : task[w] = Idle
    /\ \A u \in Uploaders : upload[u] = NoUpload

\* What the node knows: a payment was billed, an invoice is in its list.
NodeSound ==
    /\ \A h \in settled : bill[h] # None
    /\ \A h \in Hashes : bill[h] # None => kind[h] \in InvoiceKinds
    /\ pending \subseteq settled
    /\ \A i \in 1..Len(queue) : queue[i] \in settled
    /\ loop = "marked" => queue # <<>>

\* A purchase's hash is an invoice of the node, never that of another bill.
PurchaseInvoiced == \A h \in Hashes, ledger \in {mem, disk} :
    ledger.purchases[h] # None =>
        /\ kind[h] \in InvoiceKinds
        /\ bill[h] \in Slugs => bill[h] = ledger.purchases[h].slug
        /\ bill[h] # Other

PaidSettled == \A h \in Hashes, ledger \in {mem, disk} :
    ledger.purchases[h] # None /\ ledger.purchases[h].paid => h \in settled

\* post_invoice: what a request has established by each section.
Owning(r) == r.pc \in {"inv_record", "inv_reply"}

InvoiceOK(r) ==
    /\ r.pc \in {"inv_node", "inv_record"} =>
         r.slug \in Slugs /\ mem.products[r.slug] # None
    /\ Owning(r) => /\ r.hash \in Hashes
                    /\ kind[r.hash] \in InvoiceKinds
                    /\ bill[r.hash] = None
    /\ r.pc = "inv_record" => /\ mem.purchases[r.hash] = None
                              /\ disk.purchases[r.hash] = None
    /\ r.pc = "inv_reply" => /\ r.slug \in Slugs
                             /\ disk.purchases[r.hash] # None
                             /\ disk.purchases[r.hash].slug = r.slug
                             /\ disk.products[r.slug] # None

\* The hash of an invoice in the making belongs to one request.
InvoiceOwned ==
    /\ \A w \in Tasks : InvoiceOK(task[w])
    /\ \A v, w \in Tasks :
         Owning(task[v]) /\ Owning(task[w]) /\ task[v].hash = task[w].hash
             => v = w

\* get_status and get_download: what a request has established by each section.
Answered == Granting \cup Refusing

RequestOK(r) ==
    /\ r.pc \in Asking \cup Answered => r.slug \in Slugs /\ r.hash \in Hashes
    /\ r.pc \in (Asking \ {"dl_lookup"}) \cup {"paid", "stream"} =>
         PurchaseFor(r.hash, r.slug)
    /\ r.pc \in {"st_mark", "dl_mark", "dl_open", "paid", "stream"} =>
         r.hash \in settled
    /\ r.pc \in {"dl_node", "dl_mark", "dl_open", "stream"} => r.listing # None
    /\ r.listing # None =>
         /\ r.slug \in Slugs
         /\ file[FileName(r.slug, r.listing.format)] # None

RequestSound == \A w \in Tasks : RequestOK(task[w])

\* put_product registers an artifact after it has been written.
FileExists ==
    /\ \A s \in Slugs, ledger \in {mem, disk} : ledger.products[s] # None =>
         file[FileName(s, ledger.products[s].format)] # None
    /\ \A u \in Uploaders : upload[u].pc # "idle" =>
         /\ upload[u].slug \in Slugs /\ upload[u].record \in Product
         /\ file[FileOf(u)] # None

IInv ==
    /\ TypeOK
    /\ MemoryAhead /\ OnlyWhileServing
    /\ NodeSound /\ PurchaseInvoiced /\ PaidSettled /\ SoldIsDurable
    /\ InvoiceOwned /\ RequestSound /\ FileExists
=============================================================================

------------------------------- MODULE Store -------------------------------
(***************************************************************************)
(* Product registry and purchase ledger (src/src/store.rs).  The struct    *)
(* lives behind one Mutex, so every operation is one atomic step of the    *)
(* modules that use it: it changes the copy in memory first and then       *)
(* writes the whole copy to index.json, and the write may fail.            *)
(***************************************************************************)
EXTENDS Domain

VARIABLES mem,   \* Store.state, the copy every handler reads
          disk   \* index.json

\* struct Persisted, the two maps; an absent key maps to None.
Persisted == [products  : [Slugs -> Product \cup {None}],
              purchases : [Hashes -> Purchase \cup {None}]]

\* Persisted::default(), and what memory holds while no store is open.
Default == [products  |-> [s \in Slugs |-> None],
            purchases |-> [h \in Hashes |-> None]]

StoreTypeOK == mem \in Persisted /\ disk \in Persisted

StoreInit == mem = Default /\ disk = Default

-----------------------------------------------------------------------------
\* index.json.tmp is written and renamed over index.json: all of memory, or,
\* when any of the three calls fails, nothing.
Persist(ok) == disk' = IF ok THEN mem' ELSE disk

\* Mutant of Open: the purchases are not read back (a skipped field).
OpenProductsOnly ==
    /\ mem' = [disk EXCEPT !.purchases = Default.purchases]
    /\ UNCHANGED disk

Open == mem' = disk /\ UNCHANGED disk

UpsertProduct(slug, record, ok) ==
    /\ mem' = [mem EXCEPT !.products[slug] = record]
    /\ Persist(ok)

CreatePurchase(hash, slug, ok) ==
    /\ mem' = [mem EXCEPT !.purchases[hash] = [slug |-> slug, paid |-> FALSE]]
    /\ Persist(ok)

\* Mutant of MarkPaid: entry(hash).or_default(), which adds unknown hashes.
MarkPaidInserting(hash, ok) ==
    /\ mem' = [mem EXCEPT !.purchases[hash] =
                 [slug |-> IF @ = None THEN None ELSE @.slug, paid |-> TRUE]]
    /\ Persist(ok)

\* Mutant of MarkPaid: memory is changed only once the file is.
MarkPaidIfSaved(hash, ok) ==
    IF ok /\ mem.purchases[hash] # None /\ ~mem.purchases[hash].paid
    THEN /\ mem' = [mem EXCEPT !.purchases[hash].paid = TRUE]
         /\ Persist(ok)
    ELSE UNCHANGED <<mem, disk>>

\* A purchase that memory already calls paid is not written again, whether or
\* not the write that marked it succeeded.
MarkPaid(hash, ok) ==
    IF mem.purchases[hash] # None /\ ~mem.purchases[hash].paid
    THEN /\ mem' = [mem EXCEPT !.purchases[hash].paid = TRUE]
         /\ Persist(ok)
    ELSE UNCHANGED <<mem, disk>>

\* Mutant of PurchaseFor: the slug of the request is not compared.
PurchaseForAny(hash, slug) == mem.purchases[hash] # None

\* get_purchase, and get_purchase_by_claim filtered on the slug
PurchaseFor(hash, slug) ==
    mem.purchases[hash] # None /\ mem.purchases[hash].slug = slug
=============================================================================

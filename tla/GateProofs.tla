----------------------------- MODULE GateProofs -----------------------------
(***************************************************************************)
(* Machine-checked proofs about Gate, for any number of slugs, formats,    *)
(* artifacts, hashes, requests and uploads.                                *)
(*                                                                         *)
(* IInv is inductive: it holds initially (InitInv) and every action keeps  *)
(* it (one lemma per action, most of them by TaskStep or by LedgerStep).   *)
(* From it follow that the ledger loses nothing, that the gate implements  *)
(* the contract with the buyers (SaleContract), and that a file which      *)
(* put_product has opened for writing only once is whole wherever it is    *)
(* offered or streamed.                                                    *)
(***************************************************************************)
EXTENDS GateInvariant, TLAPS, SequenceTheorems

-----------------------------------------------------------------------------
(* Steps of one request that leave the ledger and the node alone.          *)

\* A request moves on to the record r, which satisfies what its section
\* promises and owns no hash that another request owns.
LEMMA TaskStep ==
    ASSUME IInv, proc = "serving", NEW w \in Tasks, NEW r \in Task,
           Proceed(w, r), UNCHANGED <<mem, disk, kind, settled, pending, queue, bill>>,
           InvoiceOK(r), RequestOK(r),
           \A v \in Tasks \ {w} : Owning(r) /\ Owning(task[v]) => r.hash # task[v].hash
    PROVE  IInv'
<1>0. /\ task \in [Tasks -> Task]
      /\ task' = [task EXCEPT ![w] = r]
      /\ UNCHANGED <<upload, file, rewritten, proc, loop>>
      /\ UNCHANGED <<mem, disk, kind, settled, pending, queue, bill>>
  BY DEF IInv, TypeOK, GateTypeOK, Proceed
<1>1. task'[w] = r /\ \A v \in Tasks \ {w} : task'[v] = task[v]
  BY <1>0
<1>2. TypeOK'
  BY <1>0 DEF IInv, TypeOK, StoreTypeOK, NodeTypeOK, GateTypeOK
<1>3. MemoryAhead' /\ PaidSettled' /\ SoldIsDurable' /\ PurchaseInvoiced'
  BY <1>0 DEF IInv, MemoryAhead, PaidSettled, SoldIsDurable, PurchaseInvoiced
<1>4. OnlyWhileServing' /\ NodeSound' 
  BY <1>0 DEF IInv, OnlyWhileServing, NodeSound
<1>5. FileExists'
  BY <1>0 DEF IInv, FileExists, FileOf
<1>6. InvoiceOwned'
  <2>1. \A v \in Tasks : InvoiceOK(task[v])'
    BY <1>0, <1>1 DEF IInv, InvoiceOwned, InvoiceOK, Owning
  <2> QED BY <1>0, <1>1, <2>1 DEF IInv, InvoiceOwned, Owning
<1>7. RequestSound'
  BY <1>0, <1>1 DEF IInv, RequestSound, RequestOK, PurchaseFor
<1> QED BY <1>2, <1>3, <1>4, <1>5, <1>6, <1>7 DEF IInv


\* The empty slot promises nothing.
LEMMA IdleOK == Idle \in Task /\ InvoiceOK(Idle) /\ RequestOK(Idle) /\ ~Owning(Idle)
<1>1. /\ Idle.pc = "idle" /\ Idle.slug = None /\ Idle.hash = None
      /\ Idle.listing = None /\ Idle.body = None
  BY DEF Idle
<1>2. Idle \in Task
  BY DEF Idle, Task
<1> QED BY <1>1, <1>2 DEF InvoiceOK, RequestOK, Owning, Asking,
   Answered, Granting, Refusing

\* A slot that is in use belongs to a process that is serving.
LEMMA BusyServing ==
    ASSUME IInv, NEW w \in Tasks, task[w].pc # "idle"
    PROVE  proc = "serving" /\ task[w] \in Task
BY DEF IInv, OnlyWhileServing, Idle, TypeOK, GateTypeOK

\* Finish, InvoiceFails and DownloadCancelled: the slot is given up.
LEMMA GiveUp ==
    ASSUME IInv, NEW w \in Tasks, task[w].pc # "idle", Proceed(w, Idle),
           UNCHANGED <<mem, disk, kind, settled, pending, queue, bill>>
    PROVE  IInv'
<1>1. proc = "serving"
  BY BusyServing
<1> QED BY <1>1, IdleOK, TaskStep

LEMMA FinishInv ==
    ASSUME IInv, NEW w \in Tasks, Finish(w)
    PROVE  IInv'
BY GiveUp DEF Finish, Replies, nodeVars

LEMMA InvoiceFailsInv ==
    ASSUME IInv, NEW w \in Tasks, InvoiceFails(w)
    PROVE  IInv'
BY GiveUp DEF InvoiceFails, nodeVars

LEMMA DownloadCancelledInv ==
    ASSUME IInv, NEW w \in Tasks, DownloadCancelled(w)
    PROVE  IInv'
BY GiveUp DEF DownloadCancelled, At, nodeVars

\* A request that has just arrived for product slug with the credential h.
LEMMA Arrives ==
    ASSUME IInv, proc = "serving", NEW w \in Tasks,
           NEW slug \in Slugs, NEW h \in Hashes \cup {None},
           NEW pc \in {"inv_node", "missing", "paid", "st_node", "dl_lookup"},
           Request(w, pc, slug, h),
           UNCHANGED <<mem, disk, kind, settled, pending, queue, bill>>,
           pc = "inv_node" => mem.products[slug] # None,
           pc # "inv_node" => h \in Hashes,
           pc \in {"paid", "st_node"} => PurchaseFor(h, slug),
           pc = "paid" => h \in settled
    PROVE  IInv'
<1> DEFINE r == [pc |-> pc, slug |-> slug, hash |-> h,
                 listing |-> None, body |-> None]
<1>1. r \in Task
  BY DEF Task, Sections, Replies
<1>2. InvoiceOK(r) /\ ~Owning(r)
  BY DEF InvoiceOK, Owning
<1>3. RequestOK(r)
  BY DEF RequestOK, Asking,
     Answered, Granting, Refusing
<1>4. Proceed(w, r)
  BY DEF Request
<1> HIDE DEF r
<1> QED BY <1>1, <1>2, <1>3, <1>4, TaskStep

LEMMA InvoiceReadInv ==
    ASSUME IInv, NEW w \in Tasks, NEW slug \in Slugs, InvoiceRead(w, slug)
    PROVE  IInv'
BY Arrives DEF InvoiceRead, nodeVars

LEMMA StatusReadInv ==
    ASSUME IInv, NEW w \in Tasks, NEW slug \in Slugs, NEW h \in Hashes,
           StatusRead(w, slug, h)
    PROVE  IInv'
<1> DEFINE pc == IF ~PurchaseFor(h, slug) THEN "missing"
                 ELSE IF mem.purchases[h].paid THEN "paid" ELSE "st_node"
<1>1. /\ pc \in {"missing", "paid", "st_node"}
      /\ pc \in {"paid", "st_node"} => PurchaseFor(h, slug)
  OBVIOUS
<1>2. pc = "paid" => h \in settled
  BY DEF IInv, PaidSettled, PurchaseFor
<1>3. /\ proc = "serving" /\ Request(w, pc, slug, h)
      /\ UNCHANGED <<mem, disk, kind, settled, pending, queue, bill>>
  BY DEF StatusRead, nodeVars
<1> HIDE DEF pc
<1> QED BY <1>1, <1>2, <1>3, Arrives

LEMMA DownloadByPreimageInv ==
    ASSUME IInv, NEW w \in Tasks, NEW slug \in Slugs, NEW h \in Hashes,
           DownloadByPreimage(w, slug, h)
    PROVE  IInv'
BY Arrives DEF DownloadByPreimage, nodeVars

LEMMA DownloadByClaimInv ==
    ASSUME IInv, NEW w \in Tasks, NEW slug \in Slugs, NEW h \in Hashes,
           DownloadByClaim(w, slug, h)
    PROVE  IInv'
<1> DEFINE pc == IF mem.purchases[h] = None THEN "missing" ELSE "dl_lookup"
<1>1. pc \in {"missing", "dl_lookup"}
  OBVIOUS
<1>2. /\ proc = "serving" /\ Request(w, pc, slug, h)
      /\ UNCHANGED <<mem, disk, kind, settled, pending, queue, bill>>
  BY DEF DownloadByClaim, nodeVars
<1> HIDE DEF pc
<1> QED BY <1>1, <1>2, Arrives

\* A request of a buyer moves on to the section or reply pc.
LEMMA MovesOn ==
    ASSUME IInv, NEW w \in Tasks, task[w].pc \in Asking,
           NEW pc \in Asking \cup Answered,
           NEW listing \in Product \cup {None},
           NEW body \in Artifacts \cup {None, Torn},
           NEW r, r = [pc |-> pc, slug |-> task[w].slug, hash |-> task[w].hash,
                       listing |-> listing, body |-> body],
           Proceed(w, r),
           UNCHANGED <<mem, disk, kind, settled, pending, queue, bill>>,
           RequestOK(r)
    PROVE  IInv'
<1>1. proc = "serving" /\ task[w] \in Task
  BY BusyServing DEF Asking
<1>2. r \in Task
  BY <1>1 DEF Task, Sections, Replies, Asking,
     Answered, Granting, Refusing
<1>3. InvoiceOK(r) /\ ~Owning(r)
  BY DEF InvoiceOK, Owning, Asking,
     Answered, Granting, Refusing
<1> QED BY <1>1, <1>2, <1>3, TaskStep

\* Goto changes one field of a request, DownloadLookup and DownloadOpen two.
LEMMA GotoRecord ==
    ASSUME NEW r \in Task, NEW pc
    PROVE  [r EXCEPT !.pc = pc] =
             [pc |-> pc, slug |-> r.slug, hash |-> r.hash,
              listing |-> r.listing, body |-> r.body]
BY DEF Task

LEMMA LookupRecord ==
    ASSUME NEW r \in Task, NEW pc, NEW listing
    PROVE  [r EXCEPT !.pc = pc, !.listing = listing] =
             [pc |-> pc, slug |-> r.slug, hash |-> r.hash,
              listing |-> listing, body |-> r.body]
<1> DEFINE q == [r EXCEPT !.pc = pc]
<1>1. q = [pc |-> pc, slug |-> r.slug, hash |-> r.hash,
           listing |-> r.listing, body |-> r.body]
  BY GotoRecord
<1> HIDE DEF q
<1>2. [q EXCEPT !.listing = listing] =
        [pc |-> pc, slug |-> r.slug, hash |-> r.hash,
         listing |-> listing, body |-> r.body]
  BY <1>1
<1> QED BY <1>2 DEF q

LEMMA OpenRecord ==
    ASSUME NEW r \in Task, NEW pc, NEW body
    PROVE  [r EXCEPT !.pc = pc, !.body = body] =
             [pc |-> pc, slug |-> r.slug, hash |-> r.hash,
              listing |-> r.listing, body |-> body]
<1> DEFINE q == [r EXCEPT !.pc = pc]
<1>1. q = [pc |-> pc, slug |-> r.slug, hash |-> r.hash,
           listing |-> r.listing, body |-> r.body]
  BY GotoRecord
<1> HIDE DEF q
<1>2. [q EXCEPT !.body = body] =
        [pc |-> pc, slug |-> r.slug, hash |-> r.hash,
         listing |-> r.listing, body |-> body]
  BY <1>1
<1> QED BY <1>2 DEF q

LEMMA StatusNodeInv ==
    ASSUME IInv, NEW w \in Tasks, StatusNode(w)
    PROVE  IInv'
<1> DEFINE pc == IF SettledOnNode(task[w].hash) THEN "st_mark" ELSE "unpaid"
           r  == [task[w] EXCEPT !.pc = pc]
<1>1. task[w].pc = "st_node" /\ task[w] \in Task
  BY BusyServing DEF StatusNode, At
<1>2. r = [pc |-> pc, slug |-> task[w].slug, hash |-> task[w].hash,
           listing |-> task[w].listing, body |-> task[w].body]
  BY <1>1, GotoRecord
<1>3. RequestOK(task[w])
  BY DEF IInv, RequestSound
<1>4. RequestOK(r)
  BY <1>1, <1>2, <1>3 DEF RequestOK, SettledOnNode, Asking,
     Answered, Granting, Refusing
<1>5. /\ Proceed(w, r)
      /\ UNCHANGED <<mem, disk, kind, settled, pending, queue, bill>>
  BY DEF StatusNode, Goto, nodeVars
<1>6. pc \in Asking \cup Answered /\ task[w].pc \in Asking
  BY <1>1 DEF Asking,
     Answered, Granting, Refusing
<1>7. /\ task[w].listing \in Product \cup {None}
      /\ task[w].body \in Artifacts \cup {None, Torn}
  BY <1>1 DEF Task
<1> HIDE DEF pc, r
<1> QED BY <1>2, <1>4, <1>5, <1>6, <1>7, MovesOn

LEMMA DownloadNodeInv ==
    ASSUME IInv, NEW w \in Tasks, DownloadNode(w)
    PROVE  IInv'
<1> DEFINE pc == IF SettledOnNode(task[w].hash) THEN "dl_mark" ELSE "unpaid"
           r  == [task[w] EXCEPT !.pc = pc]
<1>1. task[w].pc = "dl_node" /\ task[w] \in Task
  BY BusyServing DEF DownloadNode, At
<1>2. r = [pc |-> pc, slug |-> task[w].slug, hash |-> task[w].hash,
           listing |-> task[w].listing, body |-> task[w].body]
  BY <1>1, GotoRecord
<1>3. RequestOK(task[w])
  BY DEF IInv, RequestSound
<1>4. RequestOK(r)
  BY <1>1, <1>2, <1>3 DEF RequestOK, SettledOnNode, Asking,
     Answered, Granting, Refusing
<1>5. /\ Proceed(w, r)
      /\ UNCHANGED <<mem, disk, kind, settled, pending, queue, bill>>
  BY DEF DownloadNode, Goto, nodeVars
<1>6. pc \in Asking \cup Answered /\ task[w].pc \in Asking
  BY <1>1 DEF Asking,
     Answered, Granting, Refusing
<1>7. /\ task[w].listing \in Product \cup {None}
      /\ task[w].body \in Artifacts \cup {None, Torn}
  BY <1>1 DEF Task
<1> HIDE DEF pc, r
<1> QED BY <1>2, <1>4, <1>5, <1>6, <1>7, MovesOn

\* The product read under the lock has a file, which nothing removes later.
LEMMA PurchaseFound ==
    ASSUME IInv, NEW w \in Tasks, task[w].pc = "dl_lookup",
           NEW pc \in {"dl_open", "dl_node"}, NEW p \in Product,
           PurchaseFor(task[w].hash, task[w].slug),
           pc = "dl_open" => task[w].hash \in settled,
           file[FileName(task[w].slug, p.format)] # None,
           Proceed(w, [task[w] EXCEPT !.pc = pc, !.listing = p]),
           UNCHANGED <<mem, disk, kind, settled, pending, queue, bill>>
    PROVE  IInv'
<1> DEFINE r == [task[w] EXCEPT !.pc = pc, !.listing = p]
<1>1. task[w] \in Task
  BY BusyServing
<1>2. r = [pc |-> pc, slug |-> task[w].slug, hash |-> task[w].hash,
           listing |-> p, body |-> task[w].body]
  BY <1>1, LookupRecord
<1>3. RequestOK(task[w])
  BY DEF IInv, RequestSound
<1>4. task[w].slug \in Slugs /\ task[w].hash \in Hashes /\ p # None
  BY <1>3, DomainAssumption DEF RequestOK, Asking
<1>5. RequestOK(r)
  BY <1>2, <1>4 DEF RequestOK, Asking,
     Answered, Granting, Refusing
<1>6. task[w].pc \in Asking /\ pc \in Asking \cup Answered
  BY DEF Asking
<1>7. task[w].body \in Artifacts \cup {None, Torn}
  BY <1>1 DEF Task
<1>8. Proceed(w, r)
  OBVIOUS
<1> HIDE DEF r
<1> QED BY <1>2, <1>5, <1>6, <1>7, <1>8, MovesOn

LEMMA DownloadLookupInv ==
    ASSUME IInv, NEW w \in Tasks, DownloadLookup(w)
    PROVE  IInv'
<1> DEFINE slug == task[w].slug
           h    == task[w].hash
<1>1. task[w].pc = "dl_lookup" /\ task[w] \in Task
  BY BusyServing DEF DownloadLookup, At
<1>2. RequestOK(task[w]) /\ slug \in Slugs /\ h \in Hashes
  BY <1>1 DEF IInv, RequestSound, RequestOK, Asking
<1>3. UNCHANGED <<mem, disk, kind, settled, pending, queue, bill>>
  BY DEF DownloadLookup, nodeVars
<1>4. /\ mem.products[slug] \in Product \cup {None}
      /\ mem.products[slug] # None =>
           file[FileName(slug, mem.products[slug].format)] # None
  BY <1>2 DEF IInv, TypeOK, StoreTypeOK, Persisted, FileExists
<1>5. mem.purchases[h] # None /\ mem.purchases[h].paid => h \in settled
  BY <1>2 DEF IInv, PaidSettled
<1>6. task[w].pc \in Asking /\ task[w].body \in Artifacts \cup {None, Torn}
  BY <1>1 DEF Asking, Task
<1>7. CASE PurchaseFor(h, slug) /\ mem.products[slug] # None
  <2> DEFINE pc == IF mem.purchases[h].paid THEN "dl_open" ELSE "dl_node"
  <2>1. Proceed(w, [task[w] EXCEPT !.pc = pc, !.listing = mem.products[slug]])
    BY <1>7 DEF DownloadLookup
  <2>2. pc \in {"dl_open", "dl_node"} /\ (pc = "dl_open" => h \in settled)
    BY <1>5, <1>7 DEF PurchaseFor
  <2>3. mem.products[slug] \in Product
    BY <1>4, <1>7
  <2>4. file[FileName(slug, mem.products[slug].format)] # None
    BY <1>4, <1>7
  <2> HIDE DEF pc
  <2> QED BY <1>1, <1>3, <1>7, <2>1, <2>2, <2>3, <2>4, PurchaseFound
<1>8. CASE ~(PurchaseFor(h, slug) /\ mem.products[slug] # None)
  <2> DEFINE r == [task[w] EXCEPT !.pc = "missing"]
  <2>1. Proceed(w, r)
    BY <1>8 DEF DownloadLookup, Goto
  <2>2. r = [pc |-> "missing", slug |-> task[w].slug, hash |-> task[w].hash,
             listing |-> task[w].listing, body |-> task[w].body]
    BY <1>1, GotoRecord
  <2>3. RequestOK(r)
    BY <1>2, <2>2 DEF RequestOK, Asking,
       Answered, Granting, Refusing
  <2>4. "missing" \in Asking \cup Answered /\ task[w].listing \in Product \cup {None}
    BY <1>1 DEF Asking, Answered, Granting, Refusing, Task
  <2> HIDE DEF r
  <2> QED BY <1>3, <1>6, <2>1, <2>2, <2>3, <2>4, MovesOn
<1> QED BY <1>7, <1>8

LEMMA DownloadOpenInv ==
    ASSUME IInv, NEW w \in Tasks, DownloadOpen(w)
    PROVE  IInv'
<1> DEFINE f == FileName(task[w].slug, task[w].listing.format)
           r == [task[w] EXCEPT !.pc = "stream", !.body = file[f]]
<1>1. task[w].pc = "dl_open" /\ task[w] \in Task
  BY BusyServing DEF DownloadOpen, At
<1>2. RequestOK(task[w])
  BY DEF IInv, RequestSound
<1>3. /\ task[w].slug \in Slugs /\ task[w].listing \in Product
      /\ file[f] # None
  BY <1>1, <1>2 DEF RequestOK, Asking, Task
<1>4. file[f] \in Artifacts \cup {None, Torn}
  BY <1>3 DEF IInv, TypeOK, GateTypeOK, Files, FileName, Product
<1>5. /\ Proceed(w, r)
      /\ UNCHANGED <<mem, disk, kind, settled, pending, queue, bill>>
  BY <1>3 DEF DownloadOpen, nodeVars
<1>6. r = [pc |-> "stream", slug |-> task[w].slug, hash |-> task[w].hash,
           listing |-> task[w].listing, body |-> file[f]]
  BY <1>1, OpenRecord
<1>7. RequestOK(r)
  BY <1>1, <1>2, <1>6 DEF RequestOK, Asking,
     Answered, Granting, Refusing
<1>8. task[w].pc \in Asking /\ "stream" \in Asking \cup Answered
  BY <1>1 DEF Asking,
     Answered, Granting, Refusing
<1> HIDE DEF f, r
<1> QED BY <1>3, <1>4, <1>5, <1>6, <1>7, <1>8, MovesOn

-----------------------------------------------------------------------------
(* Steps that change the ledger while the store is open.                   *)

\* Memory gains at most the purchases of X and loses nothing; the file is left
\* alone or receives all of memory.
GrowsBy(X) ==
    /\ mem' \in Persisted
    /\ \A h \in Hashes : mem.purchases[h] # None =>
         /\ mem'.purchases[h] # None
         /\ mem'.purchases[h].slug = mem.purchases[h].slug
         /\ mem.purchases[h].paid => mem'.purchases[h].paid
    /\ \A h \in Hashes \ X : mem.purchases[h] = None => mem'.purchases[h] = None
    /\ \A s \in Slugs : mem.products[s] # None => mem'.products[s] # None
    /\ disk' = disk \/ disk' = mem'

LEMMA LedgerGrows ==
    ASSUME IInv, proc = "serving", UNCHANGED <<proc, kind, settled, bill>>,
           NEW X, GrowsBy(X),
           \A h \in X : kind[h] \in InvoiceKinds /\ bill[h] = None,
           \A h \in Hashes : mem'.purchases[h] # None /\ mem'.purchases[h].paid
                                => h \in settled
    PROVE  /\ StoreTypeOK' /\ MemoryAhead' /\ PurchaseInvoiced'
           /\ PaidSettled' /\ SoldIsDurable'
<1> USE DEF GrowsBy
<1>1. StoreTypeOK'
  BY DEF IInv, TypeOK, StoreTypeOK
<1>2. MemoryAhead'
  BY DEF IInv, MemoryAhead
<1>3. PaidSettled'
  BY DEF IInv, PaidSettled
<1>4. SoldIsDurable'
  <2> SUFFICES ASSUME NEW h \in Hashes, bill[h] \in Slugs
               PROVE  /\ disk'.purchases[h] # None
                      /\ disk'.purchases[h].slug = bill[h]
                      /\ disk'.products[bill[h]] # None
    BY DEF SoldIsDurable
  <2>1. /\ disk.purchases[h] # None
        /\ disk.purchases[h].slug = bill[h]
        /\ disk.products[bill[h]] # None
    BY DEF IInv, SoldIsDurable
  <2> QED BY <2>1 DEF IInv, MemoryAhead
<1>5. PurchaseInvoiced'
  <2> SUFFICES ASSUME NEW h \in Hashes, NEW ledger \in {mem', disk'},
                      ledger.purchases[h] # None
               PROVE  /\ kind[h] \in InvoiceKinds
                      /\ bill[h] \in Slugs => bill[h] = ledger.purchases[h].slug
                      /\ bill[h] # Other
    BY DEF PurchaseInvoiced
  <2>1. CASE mem.purchases[h] # None
    <3>1. /\ kind[h] \in InvoiceKinds
          /\ bill[h] \in Slugs => bill[h] = mem.purchases[h].slug
          /\ bill[h] # Other
      BY <2>1 DEF IInv, PurchaseInvoiced
    <3>2. CASE ledger = mem'
      BY <2>1, <3>1, <3>2
    <3>3. CASE ledger = disk /\ disk' = disk
      BY <3>3 DEF IInv, PurchaseInvoiced
    <3> QED BY <3>2, <3>3
  <2>2. CASE mem.purchases[h] = None
    <3>1. disk.purchases[h] = None
      BY <2>2 DEF IInv, MemoryAhead
    <3>2. h \in X
      BY <2>2, <3>1
    <3> QED BY <3>2, DomainAssumption
  <2> QED BY <2>1, <2>2
<1> QED BY <1>1, <1>2, <1>3, <1>4, <1>5

\* What a request has established stays true when the ledger grows.
LEMMA RecordsStay ==
    ASSUME IInv, proc = "serving", UNCHANGED <<kind, settled, bill, file>>,
           NEW X, GrowsBy(X), NEW r, RequestOK(r), InvoiceOK(r),
           Owning(r) => r.hash \notin X
    PROVE  RequestOK(r)' /\ InvoiceOK(r)'
<1>1. RequestOK(r)'
  BY DEF GrowsBy, RequestOK, PurchaseFor, Asking,
     Answered, Granting, Refusing
<1>2. InvoiceOK(r)'
  BY DEF IInv, MemoryAhead, GrowsBy, InvoiceOK, Owning
<1> QED BY <1>1, <1>2

\* A step of one request that makes the ledger grow.
LEMMA LedgerStep ==
    ASSUME IInv, proc = "serving", NEW w \in Tasks, NEW r \in Task,
           Proceed(w, r), UNCHANGED <<kind, settled, pending, queue, bill>>,
           NEW X, GrowsBy(X), mem'.products = mem.products,
           \A h \in X : kind[h] \in InvoiceKinds /\ bill[h] = None,
           \A h \in Hashes : mem'.purchases[h] # None /\ mem'.purchases[h].paid
                                => h \in settled,
           \A v \in Tasks \ {w} : Owning(task[v]) => task[v].hash \notin X,
           RequestOK(r)', InvoiceOK(r)',
           \A v \in Tasks \ {w} :
             Owning(r) /\ Owning(task[v]) => r.hash # task[v].hash
    PROVE  IInv'
<1>0. /\ task \in [Tasks -> Task]
      /\ task' = [task EXCEPT ![w] = r]
      /\ UNCHANGED <<upload, file, rewritten, proc, loop>>
      /\ UNCHANGED <<kind, settled, pending, queue, bill>>
  BY DEF IInv, TypeOK, GateTypeOK, Proceed
<1>1. task'[w] = r /\ \A v \in Tasks \ {w} : task'[v] = task[v]
  BY <1>0
<1>2. /\ StoreTypeOK' /\ MemoryAhead' /\ PurchaseInvoiced'
      /\ PaidSettled' /\ SoldIsDurable'
  BY <1>0, LedgerGrows
<1>3. TypeOK'
  BY <1>0, <1>2 DEF IInv, TypeOK, NodeTypeOK, GateTypeOK
<1>4. OnlyWhileServing' /\ NodeSound'
  BY <1>0 DEF IInv, OnlyWhileServing, NodeSound
<1>5. FileExists'
  BY <1>0 DEF IInv, FileExists, FileOf, GrowsBy
<1>6. \A v \in Tasks \ {w} : RequestOK(task[v])' /\ InvoiceOK(task[v])'
  <2> SUFFICES ASSUME NEW v \in Tasks \ {w}
               PROVE  RequestOK(task[v])' /\ InvoiceOK(task[v])'
    OBVIOUS
  <2>1. RequestOK(task[v]) /\ InvoiceOK(task[v])
    BY DEF IInv, RequestSound, InvoiceOwned
  <2>2. task'[v] = task[v]
    BY <1>1
  <2>3. RequestOK(task[v])'
    BY <1>0, <2>1, <2>2 DEF GrowsBy, RequestOK, PurchaseFor, Asking,
       Answered, Granting, Refusing
  <2>4. InvoiceOK(task[v])'
    BY <1>0, <2>1, <2>2 DEF IInv, MemoryAhead, GrowsBy, InvoiceOK, Owning
  <2> QED BY <2>3, <2>4
<1>7. RequestOK(task[w])' /\ InvoiceOK(task[w])'
  BY <1>1 DEF RequestOK, InvoiceOK, Owning
<1>8. RequestSound'
  BY <1>6, <1>7 DEF RequestSound
<1>9. InvoiceOwned'
  BY <1>0, <1>1, <1>6, <1>7 DEF IInv, InvoiceOwned, Owning
<1> QED BY <1>2, <1>3, <1>4, <1>5, <1>8, <1>9 DEF IInv

\* mark_paid of a settled hash, whether or not it can be persisted.
LEMMA MarkPaidGrows ==
    ASSUME IInv, NEW h \in settled, NEW ok \in BOOLEAN, MarkPaid(h, ok)
    PROVE  /\ GrowsBy({}) /\ mem'.products = mem.products
           /\ \A g \in Hashes : mem'.purchases[g] # None /\ mem'.purchases[g].paid
                                  => g \in settled
<1>1. mem \in Persisted /\ h \in Hashes
  BY DEF IInv, TypeOK, StoreTypeOK, NodeTypeOK
<1>2. \A g \in Hashes : mem.purchases[g] # None /\ mem.purchases[g].paid
                          => g \in settled
  BY DEF IInv, PaidSettled
<1>3. CASE mem.purchases[h] # None /\ ~mem.purchases[h].paid
  <2>1. /\ mem' = [mem EXCEPT !.purchases[h].paid = TRUE]
        /\ disk' = disk \/ disk' = mem'
    BY <1>3 DEF MarkPaid, Persist
  <2>2. mem.purchases[h] \in Purchase
    BY <1>1, <1>3 DEF Persisted
  <2>3. /\ mem'.products = mem.products
        /\ mem'.purchases \in [Hashes -> Purchase \cup {None}]
        /\ mem'.purchases[h] = [slug |-> mem.purchases[h].slug, paid |-> TRUE]
        /\ \A g \in Hashes \ {h} : mem'.purchases[g] = mem.purchases[g]
        /\ mem' \in Persisted
    BY <1>1, <2>1, <2>2 DEF Persisted, Purchase
  <2>4. mem'.purchases[h] \in Purchase
    BY <2>2, <2>3 DEF Purchase
  <2>5. mem'.purchases[h] # None
    BY <2>4, DomainAssumption
  <2> QED BY <1>2, <1>3, <2>1, <2>3, <2>5 DEF GrowsBy
<1>4. CASE ~(mem.purchases[h] # None /\ ~mem.purchases[h].paid)
  BY <1>1, <1>2, <1>4 DEF MarkPaid, GrowsBy
<1> QED BY <1>3, <1>4

LEMMA StatusMarkInv ==
    ASSUME IInv, NEW w \in Tasks, NEW ok \in BOOLEAN, StatusMark(w, ok)
    PROVE  IInv'
<1>1. task[w].pc = "st_mark" /\ task[w] \in Task /\ proc = "serving"
  BY BusyServing DEF StatusMark, At
<1>2. RequestOK(task[w])
  BY DEF IInv, RequestSound
<1> PICK r : r = [pc |-> "paid", slug |-> task[w].slug, hash |-> task[w].hash,
                  listing |-> task[w].listing, body |-> task[w].body]
  OBVIOUS
<1>3. r \in Task
  BY <1>1 DEF Task, Replies
<1>4. /\ Proceed(w, r) /\ MarkPaid(task[w].hash, ok)
      /\ UNCHANGED <<kind, settled, pending, queue, bill, file>>
  BY <1>1, GotoRecord DEF StatusMark, Goto, nodeVars, Proceed
<1>5. /\ GrowsBy({}) /\ mem'.products = mem.products
      /\ \A g \in Hashes : mem'.purchases[g] # None /\ mem'.purchases[g].paid
                             => g \in settled
  BY <1>1, <1>2, <1>4, MarkPaidGrows DEF RequestOK, Asking
<1>6. RequestOK(r)
  BY <1>1, <1>2 DEF RequestOK, Asking,
     Answered, Granting, Refusing
<1>7. InvoiceOK(r) /\ ~Owning(r)
  BY DEF InvoiceOK, Owning
<1>8. RequestOK(r)' /\ InvoiceOK(r)'
  BY <1>1, <1>4, <1>5, <1>6, <1>7, RecordsStay
<1> QED BY <1>1, <1>3, <1>4, <1>5, <1>7, <1>8, LedgerStep

LEMMA DownloadMarkInv ==
    ASSUME IInv, NEW w \in Tasks, NEW ok \in BOOLEAN, DownloadMark(w, ok)
    PROVE  IInv'
<1>1. task[w].pc = "dl_mark" /\ task[w] \in Task /\ proc = "serving"
  BY BusyServing DEF DownloadMark, At
<1>2. RequestOK(task[w])
  BY DEF IInv, RequestSound
<1> PICK r : r = [pc |-> "dl_open", slug |-> task[w].slug, hash |-> task[w].hash,
                  listing |-> task[w].listing, body |-> task[w].body]
  OBVIOUS
<1>3. r \in Task
  BY <1>1 DEF Task, Sections
<1>4. /\ Proceed(w, r) /\ MarkPaid(task[w].hash, ok)
      /\ UNCHANGED <<kind, settled, pending, queue, bill, file>>
  BY <1>1, GotoRecord DEF DownloadMark, Goto, nodeVars, Proceed
<1>5. /\ GrowsBy({}) /\ mem'.products = mem.products
      /\ \A g \in Hashes : mem'.purchases[g] # None /\ mem'.purchases[g].paid
                             => g \in settled
  BY <1>1, <1>2, <1>4, MarkPaidGrows DEF RequestOK, Asking
<1>6. RequestOK(r)
  BY <1>1, <1>2 DEF RequestOK, Asking,
     Answered, Granting, Refusing
<1>7. InvoiceOK(r) /\ ~Owning(r)
  BY DEF InvoiceOK, Owning
<1>8. RequestOK(r)' /\ InvoiceOK(r)'
  BY <1>1, <1>4, <1>5, <1>6, <1>7, RecordsStay
<1> QED BY <1>1, <1>3, <1>4, <1>5, <1>7, <1>8, LedgerStep

\* create_purchase under the hash that this request owns.
LEMMA CreateGrows ==
    ASSUME IInv, NEW w \in Tasks, NEW ok \in BOOLEAN, InvoiceRecord(w, ok),
           NEW h, NEW slug, h = task[w].hash, slug = task[w].slug
    PROVE  /\ task[w].pc = "inv_record" /\ proc = "serving"
           /\ h \in Hashes /\ slug \in Slugs /\ mem.products[slug] # None
           /\ kind[h] \in InvoiceKinds /\ bill[h] = None
           /\ GrowsBy({h}) /\ mem'.products = mem.products
           /\ mem'.purchases[h] # None /\ mem'.purchases[h].slug = slug
           /\ \A g \in Hashes : mem'.purchases[g] # None /\ mem'.purchases[g].paid
                                  => g \in settled
<1>1. task[w].pc = "inv_record" /\ task[w] \in Task /\ proc = "serving"
  BY BusyServing DEF InvoiceRecord, At
<1>2. /\ h \in Hashes /\ slug \in Slugs
      /\ mem.products[slug] # None
      /\ kind[h] \in InvoiceKinds /\ bill[h] = None
      /\ mem.purchases[h] = None /\ disk.purchases[h] = None
  BY <1>1 DEF IInv, InvoiceOwned, InvoiceOK, Owning
<1>3. /\ mem' = [mem EXCEPT !.purchases[h] = [slug |-> slug, paid |-> FALSE]]
      /\ disk' = IF ok THEN mem' ELSE disk
  BY DEF InvoiceRecord, CreatePurchase, Persist
<1>4. mem \in Persisted
  BY DEF IInv, TypeOK, StoreTypeOK
<1>5. [slug |-> slug, paid |-> FALSE] \in Purchase
  BY <1>2 DEF Purchase
<1>6. /\ mem'.products = mem.products
      /\ mem'.purchases[h] = [slug |-> slug, paid |-> FALSE]
      /\ \A g \in Hashes \ {h} : mem'.purchases[g] = mem.purchases[g]
      /\ mem' \in Persisted
  BY <1>2, <1>3, <1>4, <1>5 DEF Persisted
<1>7. mem'.purchases[h] # None
  BY <1>5, <1>6, DomainAssumption
<1>8. GrowsBy({h})
  BY <1>2, <1>3, <1>6, <1>7 DEF GrowsBy
<1>9. \A g \in Hashes : mem'.purchases[g] # None /\ mem'.purchases[g].paid
                          => g \in settled
  BY <1>6 DEF IInv, PaidSettled
<1> QED BY <1>1, <1>2, <1>6, <1>7, <1>8, <1>9

LEMMA InvoiceRecordInv ==
    ASSUME IInv, NEW w \in Tasks, NEW ok \in BOOLEAN, InvoiceRecord(w, ok)
    PROVE  IInv'
<1> PICK h, slug : h = task[w].hash /\ slug = task[w].slug
  OBVIOUS
<1>1. /\ task[w].pc = "inv_record" /\ proc = "serving"
      /\ h \in Hashes /\ slug \in Slugs /\ mem.products[slug] # None
      /\ kind[h] \in InvoiceKinds /\ bill[h] = None
      /\ GrowsBy({h}) /\ mem'.products = mem.products
      /\ mem'.purchases[h] # None /\ mem'.purchases[h].slug = slug
      /\ \A g \in Hashes : mem'.purchases[g] # None /\ mem'.purchases[g].paid
                             => g \in settled
  BY CreateGrows
<1>2. task[w] \in Task
  BY <1>1, BusyServing
<1>3. \A v \in Tasks \ {w} : Owning(task[v]) => task[v].hash # h
  BY <1>1 DEF IInv, InvoiceOwned, Owning
<1>4. /\ disk' = IF ok THEN mem' ELSE disk
      /\ UNCHANGED <<kind, settled, pending, queue, bill>>
  BY DEF InvoiceRecord, CreatePurchase, Persist, nodeVars
<1>5. CASE ok
  <2> PICK r : r = [pc |-> "inv_reply", slug |-> slug, hash |-> h,
                    listing |-> task[w].listing, body |-> task[w].body]
    OBVIOUS
  <2>1. r \in Task /\ Proceed(w, r)
    BY <1>1, <1>2, <1>5, GotoRecord DEF Task, Replies, InvoiceRecord, Goto
  <2>2. InvoiceOK(r)'
    BY <1>1, <1>4, <1>5 DEF InvoiceOK, Owning
  <2>3. RequestOK(task[w])
    BY DEF IInv, RequestSound
  <2>4. RequestOK(r)'
    BY <2>1, <2>3 DEF RequestOK, Asking, Answered, Granting, Refusing, Proceed
  <2> QED BY <1>1, <1>3, <1>4, <2>1, <2>2, <2>4, LedgerStep DEF Owning
<1>6. CASE ~ok
  <2> PICK r : r = Idle
    OBVIOUS
  <2>1. Proceed(w, r)
    BY <1>6 DEF InvoiceRecord
  <2>2. r \in Task /\ RequestOK(r)' /\ InvoiceOK(r)' /\ ~Owning(r)
    BY IdleOK DEF Idle, InvoiceOK, RequestOK, Owning, Asking,
       Answered, Granting, Refusing
  <2> QED BY <1>1, <1>3, <1>4, <2>1, <2>2, LedgerStep
<1> QED BY <1>5, <1>6

-----------------------------------------------------------------------------
(* Steps of the node.                                                      *)

\* The node issues an invoice for a hash that no purchase and no wallet has.
LEMMA InvoiceNodeInv ==
    ASSUME IInv, NEW w \in Tasks, NEW h \in Hashes, InvoiceNode(w, h)
    PROVE  IInv'
<1>1. task[w].pc = "inv_node" /\ task[w] \in Task /\ proc = "serving"
  BY BusyServing DEF InvoiceNode, At
<1>2. PICK k \in InvoiceKinds : kind' = [kind EXCEPT ![h] = k]
  BY DEF InvoiceNode, Receive
<1>3. /\ kind[h] = "none"
      /\ UNCHANGED <<mem, disk, settled, pending, queue, bill>>
  BY DEF InvoiceNode, Receive
<1> PICK r : r = [pc |-> "inv_record", slug |-> task[w].slug, hash |-> h,
                  listing |-> task[w].listing, body |-> task[w].body]
  OBVIOUS
<1>4. [task[w] EXCEPT !.pc = "inv_record", !.hash = h] = r
  <2> DEFINE q == [task[w] EXCEPT !.pc = "inv_record"]
  <2>1. q = [pc |-> "inv_record", slug |-> task[w].slug, hash |-> task[w].hash,
             listing |-> task[w].listing, body |-> task[w].body]
    BY <1>1, GotoRecord
  <2> HIDE DEF q
  <2>2. [q EXCEPT !.hash = h] = r
    BY <2>1
  <2> QED BY <2>2 DEF q
<1>5. /\ r \in Task /\ task \in [Tasks -> Task]
      /\ task' = [task EXCEPT ![w] = r]
      /\ UNCHANGED <<upload, file, rewritten, proc, loop>>
  BY <1>1, <1>4 DEF InvoiceNode, Proceed, Task, Sections, IInv, TypeOK, GateTypeOK
<1>6. task'[w] = r /\ \A v \in Tasks \ {w} : task'[v] = task[v]
  BY <1>5
<1>7. /\ kind \in [Hashes -> InvoiceKinds \cup {"none"}]
      /\ kind'[h] \in InvoiceKinds
      /\ \A g \in Hashes \ {h} : kind'[g] = kind[g]
      /\ kind' \in [Hashes -> InvoiceKinds \cup {"none"}]
  BY <1>2 DEF IInv, TypeOK, NodeTypeOK
<1>8. /\ bill[h] = None
      /\ mem.purchases[h] = None /\ disk.purchases[h] = None
      /\ \A v \in Tasks : Owning(task[v]) => task[v].hash # h
  BY <1>3 DEF IInv, NodeSound, PurchaseInvoiced, InvoiceOwned, InvoiceOK, InvoiceKinds
<1>9. TypeOK'
  BY <1>3, <1>5, <1>7 DEF IInv, TypeOK, StoreTypeOK, NodeTypeOK, GateTypeOK
<1>10. /\ MemoryAhead' /\ OnlyWhileServing' /\ PaidSettled' /\ SoldIsDurable'
       /\ FileExists'
  BY <1>1, <1>3, <1>5 DEF IInv, MemoryAhead, OnlyWhileServing, PaidSettled,
     SoldIsDurable, FileExists, FileOf
<1>11. NodeSound' /\ PurchaseInvoiced'
  BY <1>3, <1>5, <1>7 DEF IInv, NodeSound, PurchaseInvoiced
<1>12. RequestSound'
  <2>1. RequestOK(task[w])
    BY DEF IInv, RequestSound
  <2> QED BY <1>3, <1>5, <1>6, <2>1 DEF IInv, RequestSound, RequestOK, PurchaseFor,
          Asking, Answered, Granting, Refusing
<1>13. InvoiceOwned'
  <2>1. \A v \in Tasks \ {w} : InvoiceOK(task[v])'
    BY <1>3, <1>5, <1>6, <1>7, <1>8 DEF IInv, InvoiceOwned, InvoiceOK, Owning
  <2>2. InvoiceOK(task[w])'
    <3>1. task[w].slug \in Slugs /\ mem.products[task[w].slug] # None
      BY <1>1 DEF IInv, InvoiceOwned, InvoiceOK
    <3> QED BY <1>3, <1>6, <1>7, <1>8, <3>1 DEF InvoiceOK, Owning
  <2> QED BY <1>6, <1>8, <2>1, <2>2 DEF IInv, InvoiceOwned, Owning
<1> QED BY <1>9, <1>10, <1>11, <1>12, <1>13 DEF IInv

\* The invoice of a recorded purchase reaches its wallet.
LEMMA InvoiceDeliveredInv ==
    ASSUME IInv, NEW w \in Tasks, InvoiceDelivered(w)
    PROVE  IInv'
<1>1. task[w].pc = "inv_reply" /\ task[w] \in Task /\ proc = "serving"
  BY BusyServing DEF InvoiceDelivered, At
<1> PICK h, slug : h = task[w].hash /\ slug = task[w].slug
  OBVIOUS
<1>2. /\ h \in Hashes /\ slug \in Slugs
      /\ kind[h] \in InvoiceKinds /\ bill[h] = None
      /\ disk.purchases[h] # None /\ disk.purchases[h].slug = slug
      /\ disk.products[slug] # None
  BY <1>1 DEF IInv, InvoiceOwned, InvoiceOK, Owning
<1>3. \A v \in Tasks \ {w} : Owning(task[v]) => task[v].hash # h
  BY <1>1 DEF IInv, InvoiceOwned, Owning
<1>4. /\ bill' = [bill EXCEPT ![h] = slug]
      /\ UNCHANGED <<mem, disk, kind, settled, pending, queue>>
      /\ UNCHANGED <<upload, file, rewritten, proc, loop>>
      /\ task' = [task EXCEPT ![w] = Idle]
  BY DEF InvoiceDelivered, Bill, Proceed
<1>5. /\ bill'[h] = slug /\ bill' \in [Hashes -> Slugs \cup {Other, None}]
      /\ \A g \in Hashes \ {h} : bill'[g] = bill[g]
  BY <1>2, <1>4 DEF IInv, TypeOK, NodeTypeOK
<1>6. /\ task \in [Tasks -> Task] /\ task' \in [Tasks -> Task]
      /\ task'[w] = Idle /\ \A v \in Tasks \ {w} : task'[v] = task[v]
  BY <1>4, IdleOK DEF IInv, TypeOK, GateTypeOK
<1>7. mem.purchases[h] # None /\ mem.purchases[h].slug = slug
  BY <1>1, <1>2 DEF IInv, MemoryAhead
<1>8. TypeOK'
  BY <1>4, <1>5, <1>6 DEF IInv, TypeOK, StoreTypeOK, NodeTypeOK, GateTypeOK
<1>9. /\ MemoryAhead' /\ OnlyWhileServing' /\ PaidSettled' /\ FileExists'
  BY <1>1, <1>4 DEF IInv, MemoryAhead, OnlyWhileServing, PaidSettled, FileExists, FileOf
<1>10. SoldIsDurable'
  BY <1>2, <1>4, <1>5 DEF IInv, SoldIsDurable
<1>11. NodeSound'
  BY <1>2, <1>4, <1>5, DomainAssumption DEF IInv, NodeSound, TypeOK, NodeTypeOK
<1>12. PurchaseInvoiced'
  BY <1>2, <1>4, <1>5, <1>7, DomainAssumption DEF IInv, PurchaseInvoiced
<1>13. InvoiceOwned'
  <2>1. \A v \in Tasks \ {w} : InvoiceOK(task[v])'
    BY <1>3, <1>4, <1>5, <1>6 DEF IInv, InvoiceOwned, InvoiceOK, Owning
  <2>2. InvoiceOK(task[w])' /\ ~Owning(task'[w])
    BY <1>6 DEF InvoiceOK, Owning, Idle
  <2> QED BY <1>6, <2>1, <2>2 DEF IInv, InvoiceOwned, Owning
<1>14. RequestSound'
  <2>1. RequestOK(task[w])'
    BY <1>6 DEF RequestOK, Idle, Asking,
       Answered, Granting, Refusing
  <2> QED BY <1>4, <1>6, <2>1 DEF IInv, RequestSound, RequestOK, PurchaseFor
<1> QED BY <1>8, <1>9, <1>10, <1>11, <1>12, <1>13, <1>14 DEF IInv

\* An invoice for no product takes a hash that no purchase has.
LEMMA OtherInvoiceInv ==
    ASSUME IInv, NEW h \in Hashes, OtherInvoice(h)
    PROVE  IInv'
<1>1. PICK k \in InvoiceKinds : kind' = [kind EXCEPT ![h] = k]
  BY DEF OtherInvoice, Receive
<1>2. /\ kind[h] = "none" /\ proc = "serving"
      /\ bill' = [bill EXCEPT ![h] = Other]
      /\ UNCHANGED <<mem, disk, settled, pending, queue>>
      /\ UNCHANGED <<proc, loop, task, upload, file, rewritten>>
  BY DEF OtherInvoice, Receive, Bill, gateVars
<1>3. /\ kind \in [Hashes -> InvoiceKinds \cup {"none"}]
      /\ kind' \in [Hashes -> InvoiceKinds \cup {"none"}]
      /\ kind'[h] \in InvoiceKinds
      /\ \A g \in Hashes \ {h} : kind'[g] = kind[g]
      /\ bill' \in [Hashes -> Slugs \cup {Other, None}]
      /\ bill'[h] = Other
      /\ \A g \in Hashes \ {h} : bill'[g] = bill[g]
  BY <1>1, <1>2 DEF IInv, TypeOK, NodeTypeOK
<1>4. /\ bill[h] = None
      /\ mem.purchases[h] = None /\ disk.purchases[h] = None
      /\ \A v \in Tasks : Owning(task[v]) => task[v].hash # h
  BY <1>2 DEF IInv, NodeSound, PurchaseInvoiced, InvoiceOwned, InvoiceOK, InvoiceKinds
<1>5. TypeOK'
  BY <1>2, <1>3 DEF IInv, TypeOK, StoreTypeOK, NodeTypeOK, GateTypeOK
<1>6. /\ MemoryAhead' /\ OnlyWhileServing' /\ PaidSettled' /\ FileExists'
  BY <1>2 DEF IInv, MemoryAhead, OnlyWhileServing, PaidSettled, FileExists, FileOf
<1>7. SoldIsDurable'
  BY <1>2, <1>3, DomainAssumption DEF IInv, SoldIsDurable
<1>8. NodeSound'
  BY <1>2, <1>3, DomainAssumption DEF IInv, NodeSound, TypeOK, NodeTypeOK
<1>9. PurchaseInvoiced'
  BY <1>2, <1>3, <1>4 DEF IInv, PurchaseInvoiced
<1>10. InvoiceOwned'
  BY <1>2, <1>3, <1>4 DEF IInv, InvoiceOwned, InvoiceOK, Owning
<1>11. RequestSound'
  BY <1>2 DEF IInv, RequestSound, RequestOK, PurchaseFor
<1> QED BY <1>5, <1>6, <1>7, <1>8, <1>9, <1>10, <1>11 DEF IInv

LEMMA SettleInv ==
    ASSUME IInv, NEW h \in Hashes, Settle(h)
    PROVE  IInv'
<1>1. /\ bill[h] # None
      /\ settled' = settled \cup {h} /\ pending' = pending \cup {h}
      /\ UNCHANGED <<mem, disk, kind, queue, bill>>
      /\ UNCHANGED <<proc, loop, task, upload, file, rewritten>>
  BY DEF Settle, Settles, gateVars
<1>2. TypeOK'
  BY <1>1 DEF IInv, TypeOK, StoreTypeOK, NodeTypeOK, GateTypeOK
<1>3. /\ MemoryAhead' /\ OnlyWhileServing' /\ SoldIsDurable' /\ PurchaseInvoiced'
      /\ FileExists'
  BY <1>1 DEF IInv, MemoryAhead, OnlyWhileServing, SoldIsDurable, PurchaseInvoiced,
     FileExists, FileOf
<1>4. NodeSound'
  BY <1>1 DEF IInv, NodeSound
<1>5. PaidSettled'
  BY <1>1 DEF IInv, PaidSettled
<1>6. InvoiceOwned'
  BY <1>1 DEF IInv, InvoiceOwned, InvoiceOK, Owning
<1>7. RequestSound'
  BY <1>1 DEF IInv, RequestSound, RequestOK, PurchaseFor
<1> QED BY <1>2, <1>3, <1>4, <1>5, <1>6, <1>7 DEF IInv

\* Steps that change nothing but the events.
LEMMA EventsStep ==
    ASSUME IInv, UNCHANGED <<mem, disk, kind, settled, bill>>,
           UNCHANGED <<proc, task, upload, file, rewritten>>,
           proc # "serving" => loop' = loop,
           loop' \in {"down", "wait", "marked"},
           pending' \subseteq settled,
           queue' \in Seq(Hashes),
           \A i \in 1..Len(queue') : queue'[i] \in settled,
           loop' = "marked" => queue' # <<>>
    PROVE  IInv'
<1>1. TypeOK'
  BY DEF IInv, TypeOK, StoreTypeOK, NodeTypeOK, GateTypeOK
<1>2. /\ MemoryAhead' /\ OnlyWhileServing' /\ SoldIsDurable' /\ PurchaseInvoiced'
      /\ FileExists' /\ PaidSettled'
  BY DEF IInv, MemoryAhead, OnlyWhileServing, SoldIsDurable, PurchaseInvoiced,
     FileExists, FileOf, PaidSettled
<1>3. NodeSound'
  BY DEF IInv, NodeSound
<1>4. InvoiceOwned'
  BY DEF IInv, InvoiceOwned, InvoiceOK, Owning
<1>5. RequestSound'
  BY DEF IInv, RequestSound, RequestOK, PurchaseFor
<1> QED BY <1>1, <1>2, <1>3, <1>4, <1>5 DEF IInv

LEMMA AnnounceInv ==
    ASSUME IInv, NEW h \in Hashes, Announce(h)
    PROVE  IInv'
<1>1. /\ h \in pending /\ pending' = pending \ {h}
      /\ queue' = queue \/ queue' = Append(queue, h)
      /\ UNCHANGED <<mem, disk, kind, settled, bill>>
      /\ UNCHANGED <<proc, loop, task, upload, file, rewritten>>
  BY DEF Announce, Announces, gateVars
<1>2. /\ queue \in Seq(Hashes) /\ pending \subseteq settled
      /\ \A i \in 1..Len(queue) : queue[i] \in settled
      /\ loop \in {"down", "wait", "marked"}
      /\ loop = "marked" => queue # <<>>
  BY DEF IInv, TypeOK, NodeTypeOK, GateTypeOK, NodeSound
<1>3. /\ queue' \in Seq(Hashes)
      /\ \A i \in 1..Len(queue') : queue'[i] \in settled
      /\ loop' = "marked" => queue' # <<>>
  <2>1. CASE queue' = queue
    BY <1>1, <1>2, <2>1
  <2>2. CASE queue' = Append(queue, h)
    BY <1>1, <1>2, <2>2, AppendProperties
  <2> QED BY <1>1, <2>1, <2>2
<1> QED BY <1>1, <1>2, <1>3, EventsStep

LEMMA EventHandledInv ==
    ASSUME IInv, EventHandled
    PROVE  IInv'
<1>1. /\ loop = "marked" /\ loop' = "wait" /\ queue' = Tail(queue)
      /\ UNCHANGED <<mem, disk, kind, settled, pending, bill>>
      /\ UNCHANGED <<proc, task, upload, file, rewritten>>
  BY DEF EventHandled, PopEvent, gateVars
<1>2. /\ queue \in Seq(Hashes) /\ pending \subseteq settled /\ queue # <<>>
      /\ \A i \in 1..Len(queue) : queue[i] \in settled
      /\ proc = "serving"
  BY <1>1 DEF IInv, TypeOK, NodeTypeOK, NodeSound, OnlyWhileServing
<1>3. /\ queue' \in Seq(Hashes)
      /\ \A i \in 1..Len(queue') : queue'[i] \in settled
  BY <1>1, <1>2, HeadTailProperties
<1> QED BY <1>1, <1>2, <1>3, EventsStep

LEMMA EventMarkInv ==
    ASSUME IInv, NEW ok \in BOOLEAN, EventMark(ok)
    PROVE  IInv'
<1>1. /\ loop = "wait" /\ queue # <<>> /\ loop' = "marked"
      /\ UNCHANGED <<kind, settled, pending, queue, bill>>
      /\ UNCHANGED <<proc, task, upload, file, rewritten>>
  BY DEF EventMark, nodeVars, gateVars
<1>2. proc = "serving"
  BY <1>1 DEF IInv, OnlyWhileServing
<1>3. Head(queue) \in settled
  BY <1>1 DEF IInv, TypeOK, NodeTypeOK, NodeSound
<1>4. /\ GrowsBy({}) /\ mem'.products = mem.products
      /\ \A g \in Hashes : mem'.purchases[g] # None /\ mem'.purchases[g].paid
                             => g \in settled
  BY <1>3, MarkPaidGrows DEF EventMark
<1>5. /\ StoreTypeOK' /\ MemoryAhead' /\ PurchaseInvoiced'
      /\ PaidSettled' /\ SoldIsDurable'
  BY <1>1, <1>2, <1>4, LedgerGrows
<1>6. TypeOK'
  BY <1>1, <1>5 DEF IInv, TypeOK, NodeTypeOK, GateTypeOK
<1>7. OnlyWhileServing' /\ NodeSound'
  BY <1>1, <1>2 DEF IInv, OnlyWhileServing, NodeSound
<1>8. FileExists'
  BY <1>1, <1>4 DEF IInv, FileExists, FileOf, GrowsBy
<1>9. RequestSound'
  BY <1>1, <1>4 DEF IInv, RequestSound, GrowsBy, RequestOK, PurchaseFor, Asking,
     Answered, Granting, Refusing
<1>10. InvoiceOwned'
  BY <1>1, <1>2, <1>4 DEF IInv, InvoiceOwned, MemoryAhead, GrowsBy, InvoiceOK, Owning
<1> QED BY <1>5, <1>6, <1>7, <1>8, <1>9, <1>10 DEF IInv

-----------------------------------------------------------------------------
(* The life of the process.                                                *)

LEMMA StartNodeInv ==
    ASSUME IInv, StartNode
    PROVE  IInv'
<1>1. /\ proc = "down" /\ proc' = "node"
      /\ UNCHANGED <<mem, disk, kind, settled, pending, queue, bill>>
      /\ UNCHANGED <<loop, task, upload, file, rewritten>>
  BY DEF StartNode, nodeVars, gateVars
<1>2. TypeOK'
  BY <1>1 DEF IInv, TypeOK, StoreTypeOK, NodeTypeOK, GateTypeOK
<1>3. /\ MemoryAhead' /\ OnlyWhileServing' /\ SoldIsDurable' /\ PurchaseInvoiced'
      /\ FileExists' /\ PaidSettled' /\ NodeSound'
  BY <1>1 DEF IInv, MemoryAhead, OnlyWhileServing, SoldIsDurable, PurchaseInvoiced,
     FileExists, FileOf, PaidSettled, NodeSound
<1>4. InvoiceOwned'
  BY <1>1 DEF IInv, InvoiceOwned, InvoiceOK, Owning
<1>5. RequestSound'
  BY <1>1 DEF IInv, RequestSound, RequestOK, PurchaseFor
<1> QED BY <1>2, <1>3, <1>4, <1>5 DEF IInv

LEMMA OpenStoreInv ==
    ASSUME IInv, OpenStore
    PROVE  IInv'
<1>1. /\ proc = "node" /\ proc' = "serving" /\ loop' = "wait"
      /\ mem' = disk
      /\ UNCHANGED <<disk, kind, settled, pending, queue, bill>>
      /\ UNCHANGED <<task, upload, file, rewritten>>
  BY DEF OpenStore, Open, nodeVars, gateVars
<1>2. \A w \in Tasks : task[w] = Idle
  BY <1>1 DEF IInv, OnlyWhileServing
<1>3. TypeOK'
  BY <1>1 DEF IInv, TypeOK, StoreTypeOK, NodeTypeOK, GateTypeOK
<1>4. /\ MemoryAhead' /\ OnlyWhileServing' /\ SoldIsDurable' /\ NodeSound'
  BY <1>1 DEF IInv, MemoryAhead, OnlyWhileServing, SoldIsDurable, NodeSound
<1>5. PurchaseInvoiced' /\ PaidSettled' /\ FileExists'
  BY <1>1 DEF IInv, PurchaseInvoiced, PaidSettled, FileExists, FileOf
<1>6. InvoiceOwned' /\ RequestSound'
  BY <1>1, <1>2 DEF InvoiceOwned, RequestSound, InvoiceOK, RequestOK, Owning,
     Asking, Answered, Granting, Refusing, Idle
<1> QED BY <1>3, <1>4, <1>5, <1>6 DEF IInv

LEMMA ProcessEndsInv ==
    ASSUME IInv, ProcessEnds
    PROVE  IInv'
<1>1. /\ proc' = "down" /\ loop' = "down" /\ mem' = Default
      /\ task' = [w \in Tasks |-> Idle]
      /\ upload' = [u \in Uploaders |-> NoUpload]
      /\ UNCHANGED <<disk, kind, settled, queue, bill, file, rewritten>>
  BY DEF ProcessEnds, NodeEnds
<1>2. PICK replay \in SUBSET settled : pending' = pending \cup replay
  BY DEF ProcessEnds, NodeEnds
<1>3. Default \in Persisted /\ NoUpload \in Upload /\ Idle \in Task
  BY IdleOK DEF Default, Persisted, NoUpload, Upload
<1>4. TypeOK'
  BY <1>1, <1>2, <1>3 DEF IInv, TypeOK, StoreTypeOK, NodeTypeOK, GateTypeOK
<1>5. /\ MemoryAhead' /\ OnlyWhileServing' /\ SoldIsDurable'
  BY <1>1 DEF IInv, MemoryAhead, OnlyWhileServing, SoldIsDurable
<1>6. NodeSound'
  BY <1>1, <1>2 DEF IInv, NodeSound
<1>7. /\ \A h \in Hashes : Default.purchases[h] = None
      /\ \A s \in Slugs : Default.products[s] = None
  BY DEF Default
<1>8. PurchaseInvoiced' /\ PaidSettled'
  BY <1>1, <1>7 DEF IInv, PurchaseInvoiced, PaidSettled
<1>9. FileExists'
  BY <1>1, <1>7 DEF IInv, FileExists, FileOf, NoUpload
<1>10. InvoiceOwned' /\ RequestSound'
  BY <1>1 DEF InvoiceOwned, RequestSound, InvoiceOK, RequestOK, Owning,
     Asking, Answered, Granting, Refusing, Idle
<1> QED BY <1>4, <1>5, <1>6, <1>8, <1>9, <1>10 DEF IInv

-----------------------------------------------------------------------------
(* Uploads.                                                                *)

\* An upload step that touches files: none disappears, and requests keep what
\* they know but for the bytes they have yet to read.
LEMMA FilesStep ==
    ASSUME IInv, UNCHANGED <<mem, disk, kind, settled, pending, queue, bill>>,
           UNCHANGED <<proc, loop>>, proc = "serving",
           upload' \in [Uploaders -> Upload],
           file' \in [Files -> Artifacts \cup {None, Torn}],
           rewritten' \in SUBSET Files,
           \A f \in Files : file[f] # None => file'[f] # None,
           \A u \in Uploaders : upload'[u].pc # "idle" =>
             /\ upload'[u].slug \in Slugs /\ upload'[u].record \in Product
             /\ file'[FileName(upload'[u].slug, upload'[u].record.format)] # None,
           task' \in [Tasks -> Task],
           \A w \in Tasks : /\ task'[w].pc = task[w].pc
                            /\ task'[w].slug = task[w].slug
                            /\ task'[w].hash = task[w].hash
                            /\ task'[w].listing = task[w].listing
    PROVE  IInv'
<1>1. TypeOK'
  BY DEF IInv, TypeOK, StoreTypeOK, NodeTypeOK, GateTypeOK
<1>2. /\ MemoryAhead' /\ OnlyWhileServing' /\ SoldIsDurable' /\ PurchaseInvoiced'
      /\ PaidSettled' /\ NodeSound'
  BY DEF IInv, MemoryAhead, OnlyWhileServing, SoldIsDurable, PurchaseInvoiced,
     PaidSettled, NodeSound
<1>3. InvoiceOwned'
  BY DEF IInv, InvoiceOwned, InvoiceOK, Owning
<1>4. FileExists'
  <2>1. \A s \in Slugs, ledger \in {mem, disk} : ledger.products[s] # None =>
          file'[FileName(s, ledger.products[s].format)] # None
    <3> SUFFICES ASSUME NEW s \in Slugs, NEW ledger \in {mem, disk},
                        ledger.products[s] # None
                 PROVE  file'[FileName(s, ledger.products[s].format)] # None
      OBVIOUS
    <3>1. ledger.products[s] \in Product
      BY DEF IInv, TypeOK, StoreTypeOK, Persisted
    <3>2. FileName(s, ledger.products[s].format) \in Files
      BY <3>1 DEF Product, Files, FileName
    <3>3. file[FileName(s, ledger.products[s].format)] # None
      BY DEF IInv, FileExists
    <3> QED BY <3>2, <3>3
  <2> QED BY <2>1 DEF FileExists, FileOf
<1>5. RequestSound'
  <2> SUFFICES ASSUME NEW w \in Tasks
               PROVE  RequestOK(task[w])'
    BY DEF RequestSound
  <2>1. RequestOK(task[w]) /\ task[w] \in Task
    BY DEF IInv, RequestSound, TypeOK, GateTypeOK
  <2>2. task[w].listing # None =>
          FileName(task[w].slug, task[w].listing.format) \in Files
    BY <2>1 DEF RequestOK, Task, Product, Files, FileName
  <2> QED BY <2>1, <2>2 DEF RequestOK, PurchaseFor, Asking,
     Answered, Granting, Refusing
<1> QED BY <1>1, <1>2, <1>3, <1>4, <1>5 DEF IInv

\* What an upload in progress stands for.
LEMMA BusyUpload ==
    ASSUME IInv, NEW u \in Uploaders, upload[u].pc # "idle"
    PROVE  /\ proc = "serving"
           /\ upload[u] \in Upload /\ upload[u].record \in Product
           /\ upload[u].slug \in Slugs /\ FileOf(u) \in Files
           /\ file[FileOf(u)] # None
<1>1. proc = "serving"
  BY DEF IInv, OnlyWhileServing, NoUpload
<1>2. /\ upload[u] \in Upload /\ upload[u].record \in Product
      /\ upload[u].slug \in Slugs /\ file[FileOf(u)] # None
  BY DEF IInv, FileExists, TypeOK, GateTypeOK
<1>3. FileOf(u) \in Files
  BY <1>2 DEF FileOf, FileName, Files, Product
<1> QED BY <1>1, <1>2, <1>3

\* Facts of IInv that the upload steps start from.
LEMMA Shelf ==
    ASSUME IInv
    PROVE  /\ upload \in [Uploaders -> Upload] /\ task \in [Tasks -> Task]
           /\ file \in [Files -> Artifacts \cup {None, Torn}]
           /\ rewritten \in SUBSET Files /\ NoUpload \in Upload
           /\ \A u \in Uploaders : upload[u].pc # "idle" =>
                /\ upload[u].slug \in Slugs /\ upload[u].record \in Product
                /\ file[FileName(upload[u].slug, upload[u].record.format)] # None
BY DEF IInv, TypeOK, GateTypeOK, NoUpload, Upload, FileExists, FileOf

\* A slot changes hands without any file changing.
LEMMA SlotStep ==
    ASSUME IInv, NEW u \in Uploaders, upload[u].pc # "idle", NEW x \in Upload,
           x.pc # "idle" => x.slug = upload[u].slug /\ x.record = upload[u].record,
           upload' = [upload EXCEPT ![u] = x],
           UNCHANGED <<mem, disk, kind, settled, pending, queue, bill>>,
           UNCHANGED <<proc, loop, task, rewritten, file>>
    PROVE  IInv'
<1>1. /\ proc = "serving"
      /\ upload[u].record \in Product /\ upload[u].slug \in Slugs
      /\ file[FileName(upload[u].slug, upload[u].record.format)] # None
  BY BusyUpload DEF FileOf
<1>2. /\ upload' \in [Uploaders -> Upload] /\ upload'[u] = x
      /\ \A v \in Uploaders \ {u} : upload'[v] = upload[v]
  BY Shelf
<1>3. \A v \in Uploaders : upload'[v].pc # "idle" =>
        /\ upload'[v].slug \in Slugs /\ upload'[v].record \in Product
        /\ file'[FileName(upload'[v].slug, upload'[v].record.format)] # None
  BY <1>1, <1>2, Shelf
<1> QED BY <1>1, <1>2, <1>3, Shelf, FilesStep

LEMMA UploadWriteFailsInv ==
    ASSUME IInv, NEW u \in Uploaders, UploadWriteFails(u)
    PROVE  IInv'
<1>1. NoUpload \in Upload /\ NoUpload.pc = "idle"
  BY Shelf DEF NoUpload
<1> QED BY <1>1, SlotStep DEF UploadWriteFails, nodeVars

LEMMA UploadClientGoneInv ==
    ASSUME IInv, NEW u \in Uploaders, UploadClientGone(u)
    PROVE  IInv'
<1>1. upload[u] \in Upload /\ upload[u].pc \in {"writing", "written"}
  BY Shelf DEF UploadClientGone
<1>2. /\ UNCHANGED <<mem, disk, kind, settled, pending, queue, bill>>
      /\ UNCHANGED <<proc, loop, task, rewritten, file>>
  BY DEF UploadClientGone, nodeVars
<1>3. CASE upload[u].pc = "writing"
  <2> DEFINE x == [upload[u] EXCEPT !.pc = "orphan"]
  <2>1. x \in Upload /\ x.slug = upload[u].slug /\ x.record = upload[u].record
    BY <1>1 DEF Upload
  <2>2. upload' = [upload EXCEPT ![u] = x]
    BY <1>3 DEF UploadClientGone
  <2> HIDE DEF x
  <2> QED BY <1>1, <1>2, <2>1, <2>2, SlotStep
<1>4. CASE upload[u].pc = "written"
  <2>1. NoUpload \in Upload /\ NoUpload.pc = "idle"
    BY Shelf DEF NoUpload
  <2>2. upload' = [upload EXCEPT ![u] = NoUpload]
    BY <1>4 DEF UploadClientGone
  <2> QED BY <1>1, <1>2, <2>1, <2>2, SlotStep
<1> QED BY <1>1, <1>3, <1>4

LEMMA UploadWrittenInv ==
    ASSUME IInv, NEW u \in Uploaders, UploadWritten(u)
    PROVE  IInv'
<1>1. upload[u].pc \in {"writing", "orphan"}
  BY DEF UploadWritten
<1>2. /\ proc = "serving"
      /\ upload[u] \in Upload /\ upload[u].record \in Product
      /\ upload[u].slug \in Slugs /\ FileOf(u) \in Files
  BY <1>1, BusyUpload
<1>3. PICK c \in Written(u) : file' = [file EXCEPT ![FileOf(u)] = c]
  BY DEF UploadWritten
<1>4. c \in Artifacts \cup {Torn} /\ c # None
  BY <1>2, DomainAssumption, TornAssumption DEF Written, Product
<1>5. /\ UNCHANGED <<mem, disk, kind, settled, pending, queue, bill>>
      /\ UNCHANGED <<proc, loop, task, rewritten>>
      /\ upload' = [upload EXCEPT ![u] = AfterWrite(u)]
  BY DEF UploadWritten, nodeVars
<1>6. /\ AfterWrite(u) \in Upload
      /\ AfterWrite(u).pc # "idle" => /\ AfterWrite(u).slug = upload[u].slug
                                      /\ AfterWrite(u).record = upload[u].record
  BY <1>2, Shelf DEF AfterWrite, Upload, NoUpload
<1>7. /\ file' \in [Files -> Artifacts \cup {None, Torn}]
      /\ \A f \in Files : file[f] # None => file'[f] # None
      /\ file'[FileOf(u)] # None
  BY <1>2, <1>3, <1>4, Shelf
<1>8. /\ upload' \in [Uploaders -> Upload] /\ upload'[u] = AfterWrite(u)
      /\ \A v \in Uploaders \ {u} : upload'[v] = upload[v]
  BY <1>5, <1>6, Shelf
<1>9. \A v \in Uploaders : upload'[v].pc # "idle" =>
        /\ upload'[v].slug \in Slugs /\ upload'[v].record \in Product
        /\ file'[FileName(upload'[v].slug, upload'[v].record.format)] # None
  <2>1. CASE AfterWrite(u).pc = "idle"
    BY <1>7, <1>8, <2>1, Shelf DEF FileName, Files, Product
  <2>2. CASE AfterWrite(u).pc # "idle"
    BY <1>2, <1>6, <1>7, <1>8, <2>2, Shelf DEF FileOf, FileName, Files, Product
  <2> QED BY <2>1, <2>2
<1> QED BY <1>2, <1>5, <1>7, <1>8, <1>9, Shelf, FilesStep

LEMMA UploadWriteInv ==
    ASSUME IInv, NEW u \in Uploaders, NEW slug \in Slugs, NEW format \in Formats,
           NEW artifact \in Artifacts, UploadWrite(u, slug, format, artifact)
    PROVE  IInv'
<1> DEFINE f == FileName(slug, format)
           rec == [format |-> format, size_bytes |-> artifact]
           x == [pc |-> "writing", slug |-> slug, record |-> rec,
                 alone |-> Writing(f) = {}]
<1>1. /\ f \in Files /\ rec \in Product /\ rec.format = format
      /\ x \in Upload /\ x.slug = slug /\ x.record = rec
  BY DEF FileName, Files, Product, Upload
<1>2. /\ proc = "serving"
      /\ UNCHANGED <<mem, disk, kind, settled, pending, queue, bill>>
      /\ UNCHANGED <<proc, loop>>
      /\ upload' = [v \in Uploaders |-> IF v = u THEN x
                    ELSE [upload[v] EXCEPT !.alone = @ /\ v \notin Writing(f)]]
      /\ file' = [file EXCEPT ![f] = Torn]
      /\ rewritten' = IF file[f] = None THEN rewritten ELSE rewritten \cup {f}
      /\ task' = [w \in Tasks |-> IF StreamsFrom(w, f)
                                  THEN [task[w] EXCEPT !.body = Torn]
                                  ELSE task[w]]
  BY DEF UploadWrite, nodeVars
<1> HIDE DEF f, rec, x
<1>3. /\ file' \in [Files -> Artifacts \cup {None, Torn}]
      /\ \A g \in Files : file[g] # None => file'[g] # None
      /\ file'[f] # None
      /\ rewritten' \in SUBSET Files
  BY <1>1, <1>2, Shelf, TornAssumption
<1>4. /\ task' \in [Tasks -> Task]
      /\ \A w \in Tasks : /\ task'[w].pc = task[w].pc
                          /\ task'[w].slug = task[w].slug
                          /\ task'[w].hash = task[w].hash
                          /\ task'[w].listing = task[w].listing
  <2>1. \A w \in Tasks :
          LET r == [task[w] EXCEPT !.body = Torn]
          IN  /\ r \in Task /\ r.pc = task[w].pc /\ r.slug = task[w].slug
              /\ r.hash = task[w].hash /\ r.listing = task[w].listing
    BY Shelf DEF Task
  <2>2. \A w \in Tasks : task'[w] = task[w] \/ task'[w] = [task[w] EXCEPT !.body = Torn]
    BY <1>2
  <2> QED BY <1>2, <2>1, <2>2, Shelf
<1>5. \A v \in Uploaders \ {u} :
        /\ upload'[v] \in Upload
        /\ upload'[v].pc = upload[v].pc
        /\ upload'[v].slug = upload[v].slug
        /\ upload'[v].record = upload[v].record
  <2>1. SUFFICES ASSUME NEW v \in Uploaders \ {u}
                 PROVE  /\ upload'[v] \in Upload
                        /\ upload'[v].pc = upload[v].pc
                        /\ upload'[v].slug = upload[v].slug
                        /\ upload'[v].record = upload[v].record
    OBVIOUS
  <2>2. PICK b \in BOOLEAN : upload'[v] = [upload[v] EXCEPT !.alone = b]
    <3>1. upload'[v] = [upload[v] EXCEPT !.alone = upload[v].alone /\ v \notin Writing(f)]
      BY <1>2
    <3>2. (upload[v].alone /\ v \notin Writing(f)) \in BOOLEAN
      OBVIOUS
    <3> QED BY <3>1, <3>2
  <2> QED BY <2>2, Shelf DEF Upload
<1>6. /\ upload' \in [Uploaders -> Upload]
      /\ upload'[u] = x
  BY <1>1, <1>2, <1>5
<1>7. \A v \in Uploaders : upload'[v].pc # "idle" =>
        /\ upload'[v].slug \in Slugs /\ upload'[v].record \in Product
        /\ file'[FileName(upload'[v].slug, upload'[v].record.format)] # None
  <2>1. file'[FileName(x.slug, x.record.format)] # None
    BY <1>1, <1>3 DEF f
  <2>2. \A v \in Uploaders \ {u} : upload'[v].pc # "idle" =>
          FileName(upload'[v].slug, upload'[v].record.format) \in Files
    BY <1>5, Shelf DEF FileName, Files, Product
  <2> QED BY <1>1, <1>3, <1>5, <1>6, <2>1, <2>2, Shelf
<1> QED BY <1>2, <1>3, <1>4, <1>6, <1>7, FilesStep

\* upsert_product: the artifact was written first.
LEMMA RegisterGrows ==
    ASSUME IInv, NEW u \in Uploaders, NEW ok \in BOOLEAN, UploadRegister(u, ok),
           NEW slug, NEW p, slug = upload[u].slug, p = upload[u].record
    PROVE  /\ proc = "serving" /\ p \in Product /\ slug \in Slugs
           /\ file[FileName(slug, p.format)] # None
           /\ GrowsBy({}) /\ mem'.purchases = mem.purchases
           /\ mem'.products[slug] = p
           /\ \A s \in Slugs \ {slug} : mem'.products[s] = mem.products[s]
<1>1. /\ proc = "serving" /\ p \in Product /\ slug \in Slugs
      /\ file[FileName(slug, p.format)] # None
      /\ p # None
  BY BusyUpload, DomainAssumption DEF FileOf, UploadRegister
<1>2. /\ mem' = [mem EXCEPT !.products[slug] = p]
      /\ disk' = disk \/ disk' = mem'
  BY DEF UploadRegister, UpsertProduct, Persist
<1>3. mem \in Persisted
  BY DEF IInv, TypeOK, StoreTypeOK
<1>4. /\ mem'.purchases = mem.purchases
      /\ mem'.products[slug] = p
      /\ \A s \in Slugs \ {slug} : mem'.products[s] = mem.products[s]
      /\ mem' \in Persisted
  BY <1>1, <1>2, <1>3 DEF Persisted
<1>5. GrowsBy({})
  BY <1>1, <1>2, <1>4 DEF GrowsBy
<1> QED BY <1>1, <1>4, <1>5

LEMMA UploadRegisterInv ==
    ASSUME IInv, NEW u \in Uploaders, NEW ok \in BOOLEAN, UploadRegister(u, ok)
    PROVE  IInv'
<1> PICK slug, p : slug = upload[u].slug /\ p = upload[u].record
  OBVIOUS
<1>2. /\ proc = "serving" /\ p \in Product /\ slug \in Slugs
      /\ file[FileName(slug, p.format)] # None
      /\ GrowsBy({}) /\ mem'.purchases = mem.purchases
      /\ mem'.products[slug] = p
      /\ \A s \in Slugs \ {slug} : mem'.products[s] = mem.products[s]
  BY RegisterGrows
<1>3. /\ disk' = disk \/ disk' = mem'
      /\ upload' = [upload EXCEPT ![u] = NoUpload]
      /\ UNCHANGED <<kind, settled, pending, queue, bill>>
      /\ UNCHANGED <<proc, loop, task, file, rewritten>>
  BY DEF UploadRegister, UpsertProduct, Persist, nodeVars
<1>7. /\ StoreTypeOK' /\ MemoryAhead' /\ PurchaseInvoiced'
      /\ PaidSettled' /\ SoldIsDurable'
  <2>1. \A g \in Hashes : mem'.purchases[g] # None /\ mem'.purchases[g].paid
                            => g \in settled
    BY <1>2 DEF IInv, PaidSettled
  <2> QED BY <1>2, <1>3, <2>1, LedgerGrows
<1>8. /\ upload' \in [Uploaders -> Upload]
      /\ upload'[u] = NoUpload /\ NoUpload.pc = "idle"
      /\ \A v \in Uploaders \ {u} : upload'[v] = upload[v]
  BY <1>3, Shelf DEF NoUpload
<1>9. TypeOK'
  BY <1>3, <1>7, <1>8 DEF IInv, TypeOK, NodeTypeOK, GateTypeOK
<1>10. OnlyWhileServing' /\ NodeSound'
  BY <1>2, <1>3 DEF IInv, OnlyWhileServing, NodeSound
<1>11. FileExists'
  <2>1. \A s \in Slugs : mem'.products[s] # None =>
          file[FileName(s, mem'.products[s].format)] # None
    BY <1>2 DEF IInv, FileExists
  <2>2. \A s \in Slugs : disk'.products[s] # None =>
          file[FileName(s, disk'.products[s].format)] # None
    BY <1>3, <2>1 DEF IInv, FileExists
  <2>3. \A v \in Uploaders : upload'[v].pc # "idle" =>
          /\ upload'[v].slug \in Slugs /\ upload'[v].record \in Product
          /\ file[FileName(upload'[v].slug, upload'[v].record.format)] # None
    BY <1>8, Shelf
  <2> QED BY <1>3, <2>1, <2>2, <2>3 DEF FileExists, FileOf
<1>12. RequestSound'
  BY <1>2, <1>3 DEF IInv, RequestSound, RequestOK, PurchaseFor
<1>13. InvoiceOwned'
  <2>1. \A v \in Tasks : InvoiceOK(task[v])'
    <3> SUFFICES ASSUME NEW v \in Tasks
                 PROVE  InvoiceOK(task[v])'
      OBVIOUS
    <3> PICK r : r = task[v]
      OBVIOUS
    <3>1. task'[v] = r /\ RequestOK(r) /\ InvoiceOK(r)
      BY <1>3 DEF IInv, RequestSound, InvoiceOwned
    <3>2. InvoiceOK(r)'
      BY <1>2, <1>3, <3>1, RecordsStay
    <3> QED BY <3>1, <3>2 DEF InvoiceOK, Owning
  <2> QED BY <1>3, <2>1 DEF IInv, InvoiceOwned, Owning
<1> QED BY <1>7, <1>9, <1>10, <1>11, <1>12, <1>13 DEF IInv

-----------------------------------------------------------------------------
(* The theorems.                                                           *)

LEMMA InitInv == Init => IInv
<1> SUFFICES ASSUME Init PROVE IInv
  OBVIOUS
<1>1. /\ mem = Default /\ disk = Default
      /\ kind = [h \in Hashes |-> "none"] /\ settled = {} /\ pending = {}
      /\ queue = <<>> /\ bill = [h \in Hashes |-> None]
      /\ proc = "down" /\ loop = "down"
      /\ task = [w \in Tasks |-> Idle]
      /\ upload = [u \in Uploaders |-> NoUpload]
      /\ file = [f \in Files |-> None] /\ rewritten = {}
  BY DEF Init, StoreInit, NodeInit
<1>2. Default \in Persisted /\ NoUpload \in Upload /\ Idle \in Task
  BY IdleOK DEF Default, Persisted, NoUpload, Upload
<1>3. TypeOK
  BY <1>1, <1>2 DEF TypeOK, StoreTypeOK, NodeTypeOK, GateTypeOK
<1>4. /\ \A h \in Hashes : Default.purchases[h] = None
      /\ \A s \in Slugs : Default.products[s] = None
  BY DEF Default
<1>5. MemoryAhead /\ OnlyWhileServing /\ PurchaseInvoiced /\ PaidSettled
  BY <1>1, <1>4 DEF MemoryAhead, OnlyWhileServing, PurchaseInvoiced, PaidSettled
<1>6. NodeSound /\ SoldIsDurable
  BY <1>1, DomainAssumption DEF NodeSound, SoldIsDurable
<1>7. InvoiceOwned /\ RequestSound
  BY <1>1 DEF InvoiceOwned, RequestSound, InvoiceOK, RequestOK, Owning,
     Asking, Answered, Granting, Refusing, Idle
<1>8. FileExists
  BY <1>1, <1>4 DEF FileExists, NoUpload
<1> QED BY <1>3, <1>5, <1>6, <1>7, <1>8 DEF IInv

LEMMA StutterInv == IInv /\ UNCHANGED vars => IInv'
<1> SUFFICES ASSUME IInv, UNCHANGED vars PROVE IInv'
  OBVIOUS
<1>1. /\ UNCHANGED <<mem, disk, kind, settled, pending, queue, bill>>
      /\ UNCHANGED <<proc, loop, task, upload, file, rewritten>>
  BY DEF vars
<1> QED BY <1>1, EventsStep DEF IInv, TypeOK, NodeTypeOK, GateTypeOK, NodeSound

LEMMA NextInv == IInv /\ Next => IInv'
<1> SUFFICES ASSUME IInv, Next PROVE IInv'
  OBVIOUS
<1>1. CASE Process
  BY <1>1, StartNodeInv, OpenStoreInv, ProcessEndsInv DEF Process, Crash
<1>2. CASE Payments
  BY <1>2, SettleInv, AnnounceInv, OtherInvoiceInv DEF Payments
<1>3. CASE EventLoop
  BY <1>3, EventMarkInv, EventHandledInv, ProcessEndsInv DEF EventLoop, EventHandledFails
<1>4. ASSUME NEW w \in Tasks, Invoice(w) PROVE IInv'
  BY <1>4, InvoiceReadInv, InvoiceNodeInv, InvoiceFailsInv, InvoiceRecordInv,
     InvoiceDeliveredInv DEF Invoice
<1>5. ASSUME NEW w \in Tasks, Status(w) PROVE IInv'
  BY <1>5, StatusReadInv, StatusNodeInv, StatusMarkInv DEF Status
<1>6. ASSUME NEW w \in Tasks, Download(w) PROVE IInv'
  BY <1>6, DownloadByPreimageInv, DownloadByClaimInv, DownloadLookupInv,
     DownloadNodeInv, DownloadMarkInv, DownloadOpenInv, DownloadCancelledInv
     DEF Download
<1>7. ASSUME NEW w \in Tasks, Finish(w) PROVE IInv'
  BY <1>7, FinishInv
<1>8. ASSUME NEW u \in Uploaders, Put(u) PROVE IInv'
  BY <1>8, UploadWriteInv, UploadWrittenInv, UploadWriteFailsInv,
     UploadClientGoneInv, UploadRegisterInv DEF Put
<1> QED BY <1>1, <1>2, <1>3, <1>4, <1>5, <1>6, <1>7, <1>8 DEF Next

\* InvariantHolds: IInv holds in every state the gate can reach.
THEOREM InvariantHolds == Spec => []IInv
<1>1. IInv /\ [Next]_vars => IInv'
  BY NextInv, StutterInv
<1> QED BY <1>1, InitInv, PTL DEF Spec

\* TypeCorrect: every variable keeps its type.
THEOREM TypeCorrect == Spec => []TypeOK
<1>1. IInv => TypeOK
  BY DEF IInv
<1> QED BY <1>1, InvariantHolds, PTL

\* SoldSurvives: an invoice handed out by post_invoice always has its purchase
\* and its product in index.json, whatever fails or crashes.
THEOREM SoldSurvives == Spec => []SoldIsDurable
<1>1. IInv => SoldIsDurable
  BY DEF IInv
<1> QED BY <1>1, InvariantHolds, PTL

\* LedgerIsSound: a purchase is marked paid only if the wallet billed for that
\* very product has paid, for any number of concurrent requests.
THEOREM LedgerIsSound == Spec => []LedgerSound
<1>1. IInv => LedgerSound
  BY DomainAssumption DEF IInv, LedgerSound, Entitled, PaidSettled, PurchaseInvoiced,
     NodeSound, TypeOK, NodeTypeOK
<1> QED BY <1>1, InvariantHolds, PTL

LEMMA PayersOnly == IInv => NoGoodsUnpaid
<1> SUFFICES ASSUME IInv, NEW w \in Tasks, task[w].pc \in {"paid", "stream"}
             PROVE  Entitled(task[w].slug, task[w].hash)
  BY DEF NoGoodsUnpaid
<1>1. /\ task[w].hash \in Hashes /\ task[w].hash \in settled
      /\ PurchaseFor(task[w].hash, task[w].slug)
  BY DEF IInv, RequestSound, RequestOK,
     Answered, Granting, Refusing
<1> QED BY <1>1 DEF IInv, PurchaseFor, PurchaseInvoiced, NodeSound, TypeOK,
        NodeTypeOK, Entitled

\* OnlyPayersServed: "paid" and the artifact go only to who paid for them.
THEOREM OnlyPayersServed == Spec => []NoGoodsUnpaid
<1> QED BY PayersOnly, InvariantHolds, PTL

-----------------------------------------------------------------------------
(* HandledIsRecorded.                                                      *)

\* What the event loop has marked stays marked until it is acknowledged.
EventMarked == loop = "marked" /\ mem.purchases[Head(queue)] # None
                  => mem.purchases[Head(queue)].paid

\* The event at hand is of a payment.
LEMMA AtHand ==
    ASSUME IInv, queue # <<>>
    PROVE  Head(queue) \in settled /\ Head(queue) \in Hashes /\ queue \in Seq(Hashes)
BY DEF IInv, TypeOK, NodeTypeOK, NodeSound

\* A ledger that grows, by nothing that is paid for, marks what was marked.
LEMMA MarkStays ==
    ASSUME IInv, EventMarked, NEW X, GrowsBy(X), X \cap settled = {}, UNCHANGED <<loop, queue>>
    PROVE  EventMarked'
<1> SUFFICES ASSUME loop = "marked", mem'.purchases[Head(queue)] # None
             PROVE  mem'.purchases[Head(queue)].paid
  BY DEF EventMarked
<1>1. Head(queue) \in settled /\ Head(queue) \in Hashes
  BY AtHand DEF IInv, NodeSound
<1>2. mem.purchases[Head(queue)] # None
  BY <1>1 DEF GrowsBy
<1> QED BY <1>1, <1>2 DEF EventMarked, GrowsBy

\* mark_paid leaves the purchase of its hash paid, saved or not.
LEMMA MarksMemory ==
    ASSUME IInv, NEW h \in Hashes, NEW ok \in BOOLEAN, MarkPaid(h, ok),
           mem'.purchases[h] # None
    PROVE  mem'.purchases[h].paid
<1>1. mem \in Persisted
  BY DEF IInv, TypeOK, StoreTypeOK
<1>2. mem.purchases[h] # None => mem.purchases[h] \in Purchase
  BY <1>1 DEF Persisted
<1>3. CASE mem.purchases[h] # None /\ ~mem.purchases[h].paid
  BY <1>1, <1>2, <1>3 DEF MarkPaid, Persisted, Purchase
<1>4. CASE ~(mem.purchases[h] # None /\ ~mem.purchases[h].paid)
  BY <1>4 DEF MarkPaid
<1> QED BY <1>3, <1>4

LEMMA MarkStep == IInv /\ EventMarked /\ [Next]_vars => EventMarked'
<1> SUFFICES ASSUME IInv, EventMarked, [Next]_vars PROVE EventMarked'
  OBVIOUS
<1>0. ASSUME UNCHANGED <<mem, loop, queue>> PROVE EventMarked'
  BY <1>0 DEF EventMarked
<1>1. CASE Process
  BY <1>0, <1>1 DEF Process, StartNode, OpenStore, Open, Crash, ProcessEnds, EventMarked,
     IInv, OnlyWhileServing
<1>2. CASE Payments
  <2>1. ASSUME NEW h \in Hashes, Announce(h) PROVE EventMarked'
    <3> SUFFICES ASSUME loop = "marked" PROVE EventMarked'
      BY <2>1 DEF Announce, EventMarked
    <3>1. queue # <<>> /\ queue \in Seq(Hashes)
      BY AtHand DEF IInv, NodeSound
    <3>2. Head(queue') = Head(queue)
      BY <2>1, <3>1 DEF Announce, Announces
    <3> QED BY <2>1, <3>2 DEF Announce, EventMarked
  <2> QED BY <1>0, <1>2, <2>1 DEF Payments, Settle, Settles, OtherInvoice
<1>3. CASE EventLoop
  <2>1. ASSUME NEW ok \in BOOLEAN, EventMark(ok) PROVE EventMarked'
    <3>1. Head(queue) \in Hashes /\ MarkPaid(Head(queue), ok) /\ queue' = queue
      BY <2>1, AtHand DEF EventMark, nodeVars
    <3> QED BY <3>1, MarksMemory DEF EventMarked
  <2>2. CASE EventHandled \/ EventHandledFails
    BY <2>2 DEF EventHandled, EventHandledFails, ProcessEnds, EventMarked
  <2> QED BY <1>3, <2>1, <2>2 DEF EventLoop
<1>4. ASSUME NEW w \in Tasks, Invoice(w) PROVE EventMarked'
  <2>1. ASSUME NEW ok \in BOOLEAN, InvoiceRecord(w, ok) PROVE EventMarked'
    <3>1. GrowsBy({task[w].hash}) /\ bill[task[w].hash] = None
      BY <2>1, CreateGrows
    <3>2. {task[w].hash} \cap settled = {}
      BY <3>1 DEF IInv, NodeSound
    <3> QED BY <2>1, <3>1, <3>2, MarkStays DEF InvoiceRecord, Goto, Proceed, nodeVars
  <2> QED BY <1>0, <1>4, <2>1 DEF Invoice, InvoiceRead, InvoiceNode, InvoiceFails,
             InvoiceDelivered, Request, Goto, Proceed, nodeVars
<1>5. ASSUME NEW w \in Tasks, Status(w) PROVE EventMarked'
  <2>1. ASSUME NEW ok \in BOOLEAN, StatusMark(w, ok) PROVE EventMarked'
    <3>1. MarkPaid(task[w].hash, ok) /\ task[w].hash \in settled
      BY <2>1 DEF StatusMark, At, IInv, RequestSound, RequestOK
    <3> QED BY <2>1, <3>1, MarkPaidGrows, MarkStays DEF StatusMark, Goto, Proceed, nodeVars
  <2> QED BY <1>0, <1>5, <2>1 DEF Status, StatusRead, StatusNode, Request, Goto, Proceed,
             nodeVars
<1>6. ASSUME NEW w \in Tasks, Download(w) PROVE EventMarked'
  <2>1. ASSUME NEW ok \in BOOLEAN, DownloadMark(w, ok) PROVE EventMarked'
    <3>1. MarkPaid(task[w].hash, ok) /\ task[w].hash \in settled
      BY <2>1 DEF DownloadMark, At, IInv, RequestSound, RequestOK
    <3> QED BY <2>1, <3>1, MarkPaidGrows, MarkStays DEF DownloadMark, Goto, Proceed, nodeVars
  <2> QED BY <1>0, <1>6, <2>1 DEF Download, DownloadByPreimage, DownloadByClaim,
             DownloadLookup, DownloadNode, DownloadOpen, DownloadCancelled, Request, Goto,
             Proceed, nodeVars
<1>7. ASSUME NEW w \in Tasks, Finish(w) PROVE EventMarked'
  BY <1>0, <1>7 DEF Finish, Proceed, nodeVars
<1>8. ASSUME NEW u \in Uploaders, Put(u) PROVE EventMarked'
  <2>1. ASSUME NEW ok \in BOOLEAN, UploadRegister(u, ok) PROVE EventMarked'
    BY <2>1, RegisterGrows, MarkStays DEF UploadRegister, nodeVars
  <2> QED BY <1>0, <1>8, <2>1 DEF Put, UploadWrite, UploadWritten, UploadWriteFails,
             UploadClientGone, nodeVars
<1>9. CASE UNCHANGED vars
  BY <1>0, <1>9 DEF vars, nodeVars
<1> QED BY <1>1, <1>2, <1>3, <1>4, <1>5, <1>6, <1>7, <1>8, <1>9 DEF Next

\* Events are acknowledged only after memory calls their purchase paid, for any
\* number of concurrent requests and payments.
THEOREM AcknowledgedIsRecorded == Spec => []HandledIsRecorded
<1>1. Init => EventMarked
  BY DEF Init, EventMarked
<1>2. IInv /\ EventMarked => HandledIsRecorded
  <2> SUFFICES ASSUME IInv, EventMarked, loop = "marked", bill[Head(queue)] \in Slugs
               PROVE  mem.purchases[Head(queue)] # None /\ mem.purchases[Head(queue)].paid
    BY DEF HandledIsRecorded
  <2>1. Head(queue) \in Hashes /\ proc = "serving"
    BY AtHand DEF IInv, NodeSound, OnlyWhileServing
  <2>2. mem.purchases[Head(queue)] # None
    BY <2>1 DEF IInv, SoldIsDurable, MemoryAhead
  <2> QED BY <2>2 DEF EventMarked
<1> QED BY <1>1, <1>2, InvariantHolds, MarkStep, PTL DEF Spec

-----------------------------------------------------------------------------
(* LedgerMonotone.                                                         *)

\* While the store is open, a ledger that grows and is written whole keeps
\* everything index.json had.
LEMMA GrowingKeeps ==
    ASSUME IInv, proc = "serving", NEW X, GrowsBy(X)
    PROVE  LedgerKept
<1>1. CASE disk' = disk
  BY <1>1 DEF LedgerKept
<1>2. CASE disk' = mem'
  BY <1>2 DEF IInv, MemoryAhead, GrowsBy, LedgerKept
<1> QED BY <1>1, <1>2 DEF GrowsBy

LEMMA NextKeeps == IInv /\ [Next]_vars => LedgerKept
<1> SUFFICES ASSUME IInv, [Next]_vars PROVE LedgerKept
  OBVIOUS
<1>0. ASSUME UNCHANGED disk PROVE LedgerKept
  BY <1>0 DEF LedgerKept
<1>1. CASE Process
  BY <1>0, <1>1 DEF Process, StartNode, OpenStore, Open, Crash, ProcessEnds
<1>2. CASE Payments
  BY <1>0, <1>2 DEF Payments, Settle, Announce, OtherInvoice
<1>3. CASE EventLoop
  <2>1. ASSUME NEW ok \in BOOLEAN, EventMark(ok) PROVE LedgerKept
    <3>1. /\ loop = "wait" /\ queue # <<>> /\ MarkPaid(Head(queue), ok)
          /\ proc = "serving"
      BY <2>1 DEF EventMark, IInv, OnlyWhileServing
    <3>2. Head(queue) \in settled
      BY <3>1 DEF IInv, TypeOK, NodeTypeOK, NodeSound
    <3> QED BY <3>1, <3>2, MarkPaidGrows, GrowingKeeps
  <2>2. CASE EventHandled \/ EventHandledFails
    BY <1>0, <2>2 DEF EventHandled, EventHandledFails, ProcessEnds
  <2> QED BY <1>3, <2>1, <2>2 DEF EventLoop
<1>4. ASSUME NEW w \in Tasks, Invoice(w) PROVE LedgerKept
  <2>1. ASSUME NEW ok \in BOOLEAN, InvoiceRecord(w, ok) PROVE LedgerKept
    BY <2>1, CreateGrows, GrowingKeeps
  <2> QED BY <1>0, <1>4, <2>1 DEF Invoice, InvoiceRead, InvoiceNode,
            InvoiceFails, InvoiceDelivered
<1>5. ASSUME NEW w \in Tasks, Status(w) PROVE LedgerKept
  <2>1. ASSUME NEW ok \in BOOLEAN, StatusMark(w, ok) PROVE LedgerKept
    <3>1. task[w].pc = "st_mark" /\ proc = "serving" /\ MarkPaid(task[w].hash, ok)
      BY <2>1, BusyServing DEF StatusMark, At
    <3>2. task[w].hash \in settled
      BY <3>1 DEF IInv, RequestSound, RequestOK
    <3> QED BY <3>1, <3>2, MarkPaidGrows, GrowingKeeps
  <2> QED BY <1>0, <1>5, <2>1 DEF Status, StatusRead, StatusNode
<1>6. ASSUME NEW w \in Tasks, Download(w) PROVE LedgerKept
  <2>1. ASSUME NEW ok \in BOOLEAN, DownloadMark(w, ok) PROVE LedgerKept
    <3>1. task[w].pc = "dl_mark" /\ proc = "serving" /\ MarkPaid(task[w].hash, ok)
      BY <2>1, BusyServing DEF DownloadMark, At
    <3>2. task[w].hash \in settled
      BY <3>1 DEF IInv, RequestSound, RequestOK
    <3> QED BY <3>1, <3>2, MarkPaidGrows, GrowingKeeps
  <2> QED BY <1>0, <1>6, <2>1 DEF Download, DownloadByPreimage, DownloadByClaim,
            DownloadLookup, DownloadNode, DownloadOpen, DownloadCancelled
<1>7. ASSUME NEW w \in Tasks, Finish(w) PROVE LedgerKept
  BY <1>0, <1>7 DEF Finish
<1>8. ASSUME NEW u \in Uploaders, Put(u) PROVE LedgerKept
  <2>1. ASSUME NEW ok \in BOOLEAN, UploadRegister(u, ok) PROVE LedgerKept
    BY <2>1, RegisterGrows, GrowingKeeps
  <2> QED BY <1>0, <1>8, <2>1 DEF Put, UploadWrite, UploadWritten,
            UploadWriteFails, UploadClientGone
<1>9. CASE UNCHANGED vars
  BY <1>0, <1>9 DEF vars
<1> QED BY <1>1, <1>2, <1>3, <1>4, <1>5, <1>6, <1>7, <1>8, <1>9 DEF Next

\* LedgerNeverShrinks: no step, crash and restart included, takes a purchase out
\* of index.json, moves it to another product, makes it unpaid or drops a product.
THEOREM LedgerNeverShrinks == Spec => LedgerMonotone
<1> QED BY InvariantHolds, NextKeeps, PTL DEF Spec, LedgerMonotone
-----------------------------------------------------------------------------
(* KeepsContract.                                                          *)

\* A step of the contract, or none.
Promise == [Contract!Next]_<<bill, settled, Desk>>

\* What the buyer sees when only the request of w changes.
LEMMA DeskMoves ==
    ASSUME IInv, NEW w \in Tasks, NEW r, Proceed(w, r)
    PROVE  Desk' = [Desk EXCEPT ![w] = DeskOf(r)]
<1>1. task \in [Tasks -> Task] /\ task' = [task EXCEPT ![w] = r]
  BY DEF IInv, TypeOK, GateTypeOK, Proceed
<1> QED BY <1>1 DEF Desk

LEMMA DeskStays ==
    ASSUME UNCHANGED <<bill, settled, task>>
    PROVE  Promise
BY DEF Promise, Desk

\* A request that shows the buyer nothing, before and after the step.
LEMMA Silent ==
    ASSUME IInv, NEW w \in Tasks, NEW r, Proceed(w, r), UNCHANGED <<bill, settled>>,
           AnswerAt(task[w].pc) = "none", AnswerAt(r.pc) = "none"
    PROVE  Promise
<1>1. Desk' = [Desk EXCEPT ![w] = DeskOf(r)]
  BY DeskMoves
<1>2. Desk[w] = DeskOf(task[w]) /\ DeskOf(r) = DeskOf(task[w])
  BY DEF Desk, DeskOf
<1>3. Desk' = Desk
  BY <1>1, <1>2 DEF Desk
<1> QED BY <1>3 DEF Promise

LEMMA IdleDesk == AnswerAt(Idle.pc) = "none" /\ DeskOf(Idle) = Contract!Closed
BY DEF Idle, AnswerAt, DeskOf, Granting, Refusing, Asking, Contract!Closed

\* A conversation ends.
LEMMA Leaves ==
    ASSUME IInv, NEW w \in Tasks, Proceed(w, Idle), UNCHANGED <<bill, settled>>
    PROVE  Promise
<1>1. Desk' = [Desk EXCEPT ![w] = Contract!Closed]
  BY DeskMoves, IdleDesk
<1>2. Desk' = [d \in Tasks |-> IF d \in {w} THEN Contract!Closed ELSE Desk[d]]
  BY <1>1 DEF Desk
<1>3. Contract!Leave({w})
  BY <1>2 DEF Contract!Leave
<1> QED BY <1>3 DEF Promise, Contract!Next

\* Whoever is entitled is found in the ledger and in the node's payments.
LEMMA EntitledIsFound ==
    ASSUME IInv, proc = "serving", NEW slug \in Slugs, NEW h \in Hashes,
           Entitled(slug, h)
    PROVE  /\ PurchaseFor(h, slug) /\ mem.products[slug] # None
           /\ SettledOnNode(h)
<1>1. bill[h] \in Slugs /\ bill[h] = slug /\ h \in settled
  BY DEF Entitled
<1>2. /\ disk.purchases[h] # None /\ disk.purchases[h].slug = slug
      /\ disk.products[slug] # None
  BY <1>1 DEF IInv, SoldIsDurable
<1>3. /\ mem.purchases[h] # None /\ mem.purchases[h].slug = slug
      /\ mem.products[slug] # None
  BY <1>2 DEF IInv, MemoryAhead
<1>4. kind[h] \in InvoiceKinds
  BY <1>1, DomainAssumption DEF IInv, NodeSound
<1> QED BY <1>1, <1>3, <1>4 DEF PurchaseFor, SettledOnNode, InvoiceKinds

\* A settled purchase of a product entitles to that product.
LEMMA FoundIsEntitled ==
    ASSUME IInv, NEW slug \in Slugs, NEW h \in Hashes, PurchaseFor(h, slug),
           h \in settled
    PROVE  Entitled(slug, h)
<1>1. bill[h] \in Slugs => bill[h] = slug
  BY DEF IInv, PurchaseFor, PurchaseInvoiced
<1>2. bill[h] # Other /\ bill[h] # None /\ bill[h] \in Slugs \cup {Other, None}
  BY DEF IInv, PurchaseFor, PurchaseInvoiced, NodeSound, TypeOK, NodeTypeOK
<1> QED BY <1>1, <1>2 DEF Entitled

\* The answer that goes with pc is right for the question of slug and h.
Right(pc, slug, h) ==
    /\ pc \in Granting => Entitled(slug, h)
    /\ pc \in Refusing => ~Entitled(slug, h)

LEMMA Asks ==
    ASSUME IInv, NEW w \in Tasks, NEW slug \in Slugs, NEW h \in Hashes,
           NEW pc \in Asking \cup Answered, task[w].pc = "idle",
           Request(w, pc, slug, h), Right(pc, slug, h), UNCHANGED <<bill, settled>>
    PROVE  Promise
<1> DEFINE r == [pc |-> pc, slug |-> slug, hash |-> h,
                 listing |-> None, body |-> None]
<1>1. Desk' = [Desk EXCEPT ![w] = DeskOf(r)]
  BY DeskMoves DEF Request
<1>2. /\ AnswerAt(pc) \in {"open", Contract!Verdict(slug, h)}
      /\ AnswerAt(pc) # "none"
  BY DEF AnswerAt, Answered, Right, Entitled, Contract!Verdict, Contract!Entitled
<1>3. DeskOf(r) = Contract!Question(slug, h, AnswerAt(pc))
  BY <1>2 DEF DeskOf, Contract!Question
<1>4. Desk[w] = Contract!Closed
  BY DEF Desk, DeskOf, AnswerAt, Granting, Refusing, Asking, Contract!Closed
<1> HIDE DEF r
<1>5. Contract!Ask(w, slug, h)
  BY <1>1, <1>2, <1>3, <1>4 DEF Contract!Ask
<1> QED BY <1>5 DEF Promise, Contract!Next

LEMMA Answers ==
    ASSUME IInv, NEW w \in Tasks, task[w].pc \in Asking,
           NEW r, r.pc \in Asking \cup Answered,
           r.slug = task[w].slug, r.hash = task[w].hash,
           Proceed(w, r), Right(r.pc, r.slug, r.hash), UNCHANGED <<bill, settled>>
    PROVE  Promise
<1>1. Desk' = [Desk EXCEPT ![w] = DeskOf(r)]
  BY DeskMoves
<1>2. Desk[w] = [slug |-> r.slug, hash |-> r.hash, answer |-> "open"]
  BY DEF Desk, DeskOf, AnswerAt, Granting, Refusing, Asking
<1>3. DeskOf(r) = [slug |-> r.slug, hash |-> r.hash, answer |-> AnswerAt(r.pc)]
  BY DEF DeskOf, AnswerAt, Answered
<1>4. CASE r.pc \in Asking
  <2>1. DeskOf(r) = Desk[w]
    BY <1>2, <1>3, <1>4 DEF AnswerAt, Granting, Refusing, Asking
  <2> QED BY <1>1, <2>1 DEF Promise, Desk
<1>5. CASE r.pc \in Answered
  <2>1. AnswerAt(r.pc) = Contract!Verdict(r.slug, r.hash)
    BY <1>5 DEF AnswerAt, Answered, Granting, Refusing, Right, Entitled,
       Contract!Verdict, Contract!Entitled
  <2>2. DeskOf(r) = [Desk[w] EXCEPT !.answer = Contract!Verdict(Desk[w].slug, Desk[w].hash)]
    BY <1>2, <1>3, <2>1
  <2>3. Contract!Answer(w)
    BY <1>1, <1>2, <2>2 DEF Contract!Answer
  <2> QED BY <2>3 DEF Promise, Contract!Next
<1> QED BY <1>4, <1>5
-----------------------------------------------------------------------------
(* One lemma per group of actions.                                         *)

LEMMA InvoiceContract ==
    ASSUME IInv, NEW w \in Tasks, Invoice(w)
    PROVE  Promise
<1> USE DEF AnswerAt, Granting, Refusing, Asking, nodeVars
<1>1. ASSUME NEW slug \in Slugs, InvoiceRead(w, slug) PROVE Promise
  <2> DEFINE r == [pc |-> "inv_node", slug |-> slug, hash |-> None,
                   listing |-> None, body |-> None]
  <2>1. Proceed(w, r) /\ UNCHANGED <<bill, settled>> /\ task[w].pc = "idle"
    BY <1>1 DEF InvoiceRead, Request, At
  <2>2. r.pc = "inv_node"
    OBVIOUS
  <2> HIDE DEF r
  <2> QED BY <2>1, <2>2, Silent
<1>2. ASSUME NEW h \in Hashes, InvoiceNode(w, h) PROVE Promise
  <2> DEFINE r == [task[w] EXCEPT !.pc = "inv_record", !.hash = h]
  <2>1. Proceed(w, r) /\ UNCHANGED <<bill, settled>> /\ task[w].pc = "inv_node"
    BY <1>2 DEF InvoiceNode, At
  <2>2. task[w] \in Task
    BY <2>1, BusyServing
  <2>3. r.pc = "inv_record"
    BY <2>2 DEF Task
  <2> HIDE DEF r
  <2> QED BY <2>1, <2>3, Silent
<1>3. CASE InvoiceFails(w)
  BY <1>3, Leaves DEF InvoiceFails
<1>4. ASSUME NEW ok \in BOOLEAN, InvoiceRecord(w, ok) PROVE Promise
  <2> DEFINE r == [task[w] EXCEPT !.pc = "inv_reply"]
  <2>1. /\ task[w].pc = "inv_record" /\ UNCHANGED <<bill, settled>>
        /\ Proceed(w, r) \/ Proceed(w, Idle)
    BY <1>4 DEF InvoiceRecord, At, Goto
  <2>2. task[w] \in Task
    BY <2>1, BusyServing
  <2>3. r.pc = "inv_reply"
    BY <2>2 DEF Task
  <2> HIDE DEF r
  <2> QED BY <2>1, <2>3, Silent, Leaves
<1>5. CASE InvoiceDelivered(w)
  <2> PICK h, slug : h = task[w].hash /\ slug = task[w].slug
    OBVIOUS
  <2>1. /\ task[w].pc = "inv_reply" /\ Proceed(w, Idle) /\ UNCHANGED settled
        /\ bill' = [bill EXCEPT ![h] = slug]
    BY <1>5 DEF InvoiceDelivered, At, Bill
  <2>2. h \in Hashes /\ slug \in Slugs /\ bill[h] = None
    BY <2>1 DEF IInv, InvoiceOwned, InvoiceOK, Owning
  <2>3. Desk' = [Desk EXCEPT ![w] = Contract!Closed] /\ Desk[w] = Contract!Closed
    BY <2>1, DeskMoves, IdleDesk DEF Desk, DeskOf, Contract!Closed
  <2>4. Desk' = Desk
    BY <2>3 DEF Desk
  <2>5. Contract!Issue(h)
    BY <2>1, <2>2, <2>4 DEF Contract!Issue
  <2> QED BY <2>2, <2>5 DEF Promise, Contract!Next
<1> QED BY <1>1, <1>2, <1>3, <1>4, <1>5 DEF Invoice

LEMMA StatusContract ==
    ASSUME IInv, NEW w \in Tasks, Status(w)
    PROVE  Promise
<1>1. ASSUME NEW slug \in Slugs, NEW h \in Hashes, StatusRead(w, slug, h)
      PROVE  Promise
  <2> DEFINE pc == IF ~PurchaseFor(h, slug) THEN "missing"
                   ELSE IF mem.purchases[h].paid THEN "paid" ELSE "st_node"
  <2>1. /\ proc = "serving" /\ task[w].pc = "idle" /\ Request(w, pc, slug, h)
        /\ UNCHANGED <<bill, settled>>
    BY <1>1 DEF StatusRead, At, nodeVars
  <2>2. pc \in Asking \cup Answered
    BY DEF Asking, Answered, Granting, Refusing
  <2>3. pc = "paid" => Entitled(slug, h)
    BY FoundIsEntitled DEF IInv, PaidSettled, PurchaseFor
  <2>4. pc = "missing" => ~Entitled(slug, h)
    BY <2>1, EntitledIsFound
  <2>5. Right(pc, slug, h)
    BY <2>2, <2>3, <2>4 DEF Right, Granting, Refusing
  <2> HIDE DEF pc
  <2> QED BY <2>1, <2>2, <2>5, Asks
<1>2. CASE StatusNode(w)
  <2> DEFINE pc == IF SettledOnNode(task[w].hash) THEN "st_mark" ELSE "unpaid"
             r  == [task[w] EXCEPT !.pc = pc]
  <2>1. /\ task[w].pc = "st_node" /\ Proceed(w, r) /\ UNCHANGED <<bill, settled>>
        /\ task[w] \in Task /\ proc = "serving"
    BY <1>2, BusyServing DEF StatusNode, At, Goto, nodeVars
  <2>2. r.pc = pc /\ r.slug = task[w].slug /\ r.hash = task[w].hash
    BY <2>1 DEF Task
  <2>3. task[w].slug \in Slugs /\ task[w].hash \in Hashes
    BY <2>1 DEF IInv, RequestSound, RequestOK, Asking
  <2>4. Right(pc, task[w].slug, task[w].hash)
    BY <2>1, <2>3, EntitledIsFound DEF Right, Granting, Refusing
  <2>5. pc \in Asking \cup Answered /\ task[w].pc \in Asking
    BY <2>1 DEF Asking, Answered, Granting, Refusing
  <2> HIDE DEF pc, r
  <2> QED BY <2>1, <2>2, <2>4, <2>5, Answers
<1>3. ASSUME NEW ok \in BOOLEAN, StatusMark(w, ok) PROVE Promise
  <2> DEFINE r == [task[w] EXCEPT !.pc = "paid"]
  <2>1. /\ task[w].pc = "st_mark" /\ Proceed(w, r) /\ UNCHANGED <<bill, settled>>
        /\ task[w] \in Task
    BY <1>3, BusyServing DEF StatusMark, At, Goto, nodeVars
  <2>2. r.pc = "paid" /\ r.slug = task[w].slug /\ r.hash = task[w].hash
    BY <2>1 DEF Task
  <2>3. Entitled(task[w].slug, task[w].hash)
    BY <2>1, FoundIsEntitled DEF IInv, RequestSound, RequestOK, Asking
  <2>4. Right(r.pc, r.slug, r.hash)
    BY <2>2, <2>3 DEF Right, Refusing
  <2>5. r.pc \in Asking \cup Answered /\ task[w].pc \in Asking
    BY <2>1, <2>2 DEF Asking, Answered, Granting
  <2> HIDE DEF r
  <2> QED BY <2>1, <2>2, <2>4, <2>5, Answers
<1> QED BY <1>1, <1>2, <1>3 DEF Status

LEMMA DownloadAsks ==
    ASSUME IInv, NEW w \in Tasks, NEW slug \in Slugs, NEW h \in Hashes,
           DownloadByPreimage(w, slug, h) \/ DownloadByClaim(w, slug, h)
    PROVE  Promise
<1> DEFINE pc == IF mem.purchases[h] = None THEN "missing" ELSE "dl_lookup"
<1>1. /\ proc = "serving" /\ task[w].pc = "idle" /\ UNCHANGED <<bill, settled>>
      /\ Request(w, pc, slug, h) \/ Request(w, "dl_lookup", slug, h)
  BY DEF DownloadByPreimage, DownloadByClaim, At, nodeVars
<1>2. "dl_lookup" \in Asking \cup Answered /\ pc \in Asking \cup Answered
  BY DEF Asking, Answered, Refusing
<1>3. pc = "missing" => ~Entitled(slug, h)
  BY <1>1, EntitledIsFound DEF PurchaseFor
<1>4. Right("dl_lookup", slug, h) /\ Right(pc, slug, h)
  BY <1>2, <1>3 DEF Right, Granting, Refusing
<1> HIDE DEF pc
<1> QED BY <1>1, <1>2, <1>4, Asks

LEMMA DownloadContract ==
    ASSUME IInv, NEW w \in Tasks, Download(w)
    PROVE  Promise
<1> DEFINE slug == task[w].slug
           h    == task[w].hash
<1>1. ASSUME task[w].pc \in Asking
      PROVE  /\ proc = "serving" /\ task[w] \in Task
             /\ slug \in Slugs /\ h \in Hashes /\ RequestOK(task[w])
  BY <1>1, BusyServing DEF IInv, RequestSound, RequestOK, Asking
<1>2. CASE DownloadLookup(w)
  <2>1. task[w].pc = "dl_lookup" /\ task[w].pc \in Asking /\ UNCHANGED <<bill, settled>>
    BY <1>2 DEF DownloadLookup, At, Asking, nodeVars
  <2>2. CASE PurchaseFor(h, slug) /\ mem.products[slug] # None
    <3> DEFINE pc == IF mem.purchases[h].paid THEN "dl_open" ELSE "dl_node"
               r  == [task[w] EXCEPT !.pc = pc, !.listing = mem.products[slug]]
    <3>1. Proceed(w, r)
      BY <1>2, <2>2 DEF DownloadLookup
    <3>2. r.pc = pc /\ r.slug = slug /\ r.hash = h
      <4>1. task[w] \in Task
        BY <1>1, <2>1
      <4>2. r = [pc |-> pc, slug |-> task[w].slug, hash |-> task[w].hash,
                 listing |-> mem.products[slug], body |-> task[w].body]
        BY <4>1, LookupRecord
      <4> HIDE DEF r
      <4> QED BY <4>2
    <3>3. pc \in Asking \cup Answered /\ Right(pc, slug, h)
      BY DEF Asking, Right, Granting, Refusing
    <3> HIDE DEF pc, r
    <3> QED BY <2>1, <3>1, <3>2, <3>3, Answers
  <2>3. CASE ~(PurchaseFor(h, slug) /\ mem.products[slug] # None)
    <3> DEFINE r == [task[w] EXCEPT !.pc = "missing"]
    <3>1. Proceed(w, r)
      BY <1>2, <2>3 DEF DownloadLookup, Goto
    <3>2. r.pc = "missing" /\ r.slug = slug /\ r.hash = h
      BY <1>1, <2>1 DEF Task
    <3>3. ~Entitled(slug, h)
      BY <1>1, <2>1, <2>3, EntitledIsFound
    <3>4. "missing" \in Asking \cup Answered /\ Right("missing", slug, h)
      BY <3>3 DEF Asking, Answered, Right, Granting, Refusing
    <3> HIDE DEF r
    <3> QED BY <2>1, <3>1, <3>2, <3>4, Answers
  <2> QED BY <2>2, <2>3
<1>3. CASE DownloadNode(w)
  <2> DEFINE pc == IF SettledOnNode(h) THEN "dl_mark" ELSE "unpaid"
             r  == [task[w] EXCEPT !.pc = pc]
  <2>1. /\ task[w].pc = "dl_node" /\ task[w].pc \in Asking
        /\ Proceed(w, r) /\ UNCHANGED <<bill, settled>>
    BY <1>3 DEF DownloadNode, At, Goto, Asking, nodeVars
  <2>2. r.pc = pc /\ r.slug = slug /\ r.hash = h
    BY <1>1, <2>1 DEF Task
  <2>3. pc \in Asking \cup Answered /\ Right(pc, slug, h)
    BY <1>1, <2>1, EntitledIsFound DEF Asking, Answered, Right, Granting, Refusing
  <2> HIDE DEF pc, r
  <2> QED BY <2>1, <2>2, <2>3, Answers
<1>4. ASSUME NEW ok \in BOOLEAN, DownloadMark(w, ok) PROVE Promise
  <2> DEFINE r == [task[w] EXCEPT !.pc = "dl_open"]
  <2>1. /\ task[w].pc = "dl_mark" /\ task[w].pc \in Asking
        /\ Proceed(w, r) /\ UNCHANGED <<bill, settled>>
    BY <1>4 DEF DownloadMark, At, Goto, Asking, nodeVars
  <2>2. r.pc = "dl_open" /\ r.slug = slug /\ r.hash = h
    BY <1>1, <2>1 DEF Task
  <2>3. "dl_open" \in Asking \cup Answered /\ Right("dl_open", slug, h)
    BY DEF Asking, Right, Granting, Refusing
  <2> HIDE DEF r
  <2> QED BY <2>1, <2>2, <2>3, Answers
<1>5. CASE DownloadOpen(w)
  <2> PICK f : f = file[FileName(slug, task[w].listing.format)]
    OBVIOUS
  <2> DEFINE r == [task[w] EXCEPT !.pc = "stream", !.body = f]
  <2>1. /\ task[w].pc = "dl_open" /\ task[w].pc \in Asking /\ UNCHANGED <<bill, settled>>
    BY <1>5 DEF DownloadOpen, At, Asking, nodeVars
  <2>2. f # None /\ Entitled(slug, h)
    BY <1>1, <2>1, FoundIsEntitled DEF RequestOK, Asking
  <2>3. Proceed(w, r)
    BY <1>5, <2>2 DEF DownloadOpen
  <2>4. r.pc = "stream" /\ r.slug = slug /\ r.hash = h
    <3>1. task[w] \in Task
      BY <1>1, <2>1
    <3>2. r = [pc |-> "stream", slug |-> task[w].slug, hash |-> task[w].hash,
               listing |-> task[w].listing, body |-> f]
      BY <3>1, OpenRecord
    <3> HIDE DEF r
    <3> QED BY <3>2
  <2>5. "stream" \in Asking \cup Answered /\ Right("stream", slug, h)
    BY <2>2 DEF Answered, Right, Granting, Refusing
  <2> HIDE DEF r
  <2> QED BY <2>1, <2>3, <2>4, <2>5, Answers
<1>6. CASE DownloadCancelled(w)
  BY <1>6, Leaves DEF DownloadCancelled, nodeVars
<1> QED BY <1>2, <1>3, <1>4, <1>5, <1>6, DownloadAsks DEF Download

\* The process ends: every conversation does.
LEMMA EndsContract ==
    ASSUME ProcessEnds
    PROVE  Promise
<1>1. task' = [w \in Tasks |-> Idle] /\ UNCHANGED <<bill, settled>>
  BY DEF ProcessEnds, NodeEnds
<1>2. Desk' = [d \in Tasks |-> Contract!Closed]
  BY <1>1, IdleDesk DEF Desk
<1>3. Contract!Leave(Tasks)
  BY <1>1, <1>2 DEF Contract!Leave
<1> QED BY <1>3 DEF Promise, Contract!Next

LEMMA PaymentsContract ==
    ASSUME IInv, Payments
    PROVE  Promise
<1>1. ASSUME NEW h \in Hashes, Settle(h) PROVE Promise
  <2>1. Contract!Settle(h)
    BY <1>1 DEF Settle, Settles, gateVars, Desk, Contract!Settle
  <2> QED BY <2>1 DEF Promise, Contract!Next
<1>2. ASSUME NEW h \in Hashes, Announce(h) PROVE Promise
  BY <1>2, DeskStays DEF Announce, Announces, gateVars
<1>3. ASSUME NEW h \in Hashes, OtherInvoice(h) PROVE Promise
  <2>1. bill[h] = None
    BY <1>3 DEF OtherInvoice, Receive, IInv, NodeSound, InvoiceKinds
  <2>2. Contract!Issue(h)
    BY <1>3, <2>1 DEF OtherInvoice, Bill, gateVars, Desk, Contract!Issue
  <2> QED BY <2>2 DEF Promise, Contract!Next
<1> QED BY <1>1, <1>2, <1>3 DEF Payments

\* An upload may spoil the stream of a download, never its answer.
LEMMA PutContract ==
    ASSUME IInv, NEW u \in Uploaders, Put(u)
    PROVE  Promise
<1>1. ASSUME NEW slug \in Slugs, NEW format \in Formats, NEW artifact \in Artifacts,
             UploadWrite(u, slug, format, artifact)
      PROVE  Promise
  <2>0. task \in [Tasks -> Task]
    BY DEF IInv, TypeOK, GateTypeOK
  <2> DEFINE f == FileName(slug, format)
  <2>a. /\ UNCHANGED <<bill, settled>>
        /\ task' = [w \in Tasks |-> IF StreamsFrom(w, f)
                                   THEN [task[w] EXCEPT !.body = Torn] ELSE task[w]]
    BY <1>1 DEF UploadWrite, nodeVars
  <2> HIDE DEF f
  <2>1. /\ task \in [Tasks -> Task] /\ UNCHANGED <<bill, settled>>
        /\ task' \in [Tasks -> Task]
        /\ \A w \in Tasks : /\ task'[w].pc = task[w].pc
                            /\ task'[w].slug = task[w].slug
                            /\ task'[w].hash = task[w].hash
    BY <2>0, <2>a DEF Task
  <2>2. Desk' = Desk
    BY <2>1 DEF Desk, DeskOf
  <2> QED BY <2>1, <2>2 DEF Promise
<1>2. CASE UploadWritten(u) \/ UploadWriteFails(u) \/ UploadClientGone(u)
  BY <1>2, DeskStays DEF UploadWritten, UploadWriteFails, UploadClientGone, nodeVars
<1>3. ASSUME NEW ok \in BOOLEAN, UploadRegister(u, ok) PROVE Promise
  BY <1>3, DeskStays DEF UploadRegister, nodeVars
<1> QED BY <1>1, <1>2, <1>3 DEF Put

LEMMA NextContract == IInv /\ [Next]_vars => Promise
<1> SUFFICES ASSUME IInv, [Next]_vars PROVE Promise
  OBVIOUS
<1>1. CASE Process
  BY <1>1, DeskStays, EndsContract DEF Process, StartNode, OpenStore, Crash,
     nodeVars, gateVars
<1>2. CASE EventLoop
  BY <1>2, DeskStays, EndsContract DEF EventLoop, EventMark, EventHandled, PopEvent,
     EventHandledFails, nodeVars, gateVars
<1>3. ASSUME NEW w \in Tasks, Finish(w) PROVE Promise
  BY <1>3, Leaves DEF Finish, nodeVars
<1>4. CASE UNCHANGED vars
  BY <1>4, DeskStays DEF vars
<1> QED BY <1>1, <1>2, <1>3, <1>4, PaymentsContract, InvoiceContract,
        StatusContract, DownloadContract, PutContract DEF Next

\* Honoured: the gate implements the contract with the buyers: each answer of
\* get_status and get_download is the right one at the moment it is decided,
\* whatever crashed or failed to persist before, for any number of requests.
THEOREM Honoured == Spec => KeepsContract
<1>1. Init => Contract!Init
  BY IdleDesk DEF Init, NodeInit, Desk, Contract!Init
<1>2. IInv /\ [Next]_vars => [Contract!Next]_<<bill, settled, Desk>>
  BY NextContract DEF Promise
<1> QED BY <1>1, <1>2, InvariantHolds, PTL DEF Spec, KeepsContract, Contract!Spec

\* CredentialsLast: what a buyer has paid for the gate owes for ever, across
\* restarts, replayed events, failed saves, and whatever is uploaded or sold
\* meanwhile: no hash is ever billed twice.
THEOREM CredentialsLast == Spec => Contract!OwedForGood
<1>1. ASSUME NEW h \in Hashes, Contract!Issue(h) \/ Contract!Settle(h)
      PROVE  Contract!EntitledStays
  <2>1. CASE Contract!Issue(h)
    <3>1. /\ bill[h] = None /\ settled' = settled
          /\ \A g \in Hashes : g # h => bill'[g] = bill[g]
      BY <2>1 DEF Contract!Issue
    <3> QED BY <3>1, DomainAssumption DEF Contract!EntitledStays, Contract!Entitled
  <2>2. CASE Contract!Settle(h)
    BY <2>2 DEF Contract!Settle, Contract!EntitledStays, Contract!Entitled
  <2> QED BY <1>1, <2>1, <2>2
<1>2. ASSUME UNCHANGED <<bill, settled>> PROVE Contract!EntitledStays
  BY <1>2 DEF Contract!EntitledStays, Contract!Entitled
<1>3. Contract!Next => Contract!EntitledStays
  BY <1>1, <1>2 DEF Contract!Next, Contract!Answer, Contract!Ask, Contract!Leave
<1>4. [Contract!Next]_<<bill, settled, Desk>>
        => [Contract!EntitledStays]_<<bill, settled, Desk>>
  BY <1>3
<1> QED BY <1>4, Honoured, PTL DEF KeepsContract, Contract!Spec, Contract!OwedForGood

-----------------------------------------------------------------------------
(* FirstUploadIntact.                                                     *)

\* What is on offer is the artifact that was measured.
Good(s, p) ==
    p # None /\ FileName(s, p.format) \notin rewritten
      => file[FileName(s, p.format)] = p.size_bytes

ListingOK(r) ==
    /\ Good(r.slug, r.listing)
    /\ r.pc = "stream" /\ FileName(r.slug, r.listing.format) \notin rewritten
         => r.body = r.listing.size_bytes

\* The only upload of a file is alone with it, and it is partial until that
\* upload has written it.
WriterOK(u) ==
    upload[u].pc # "idle" /\ FileOf(u) \notin rewritten =>
      /\ upload[u].pc \in {"writing", "orphan"} =>
           upload[u].alone = TRUE /\ file[FileOf(u)] = Torn
      /\ upload[u].pc = "written" => file[FileOf(u)] = upload[u].record.size_bytes
      /\ \A v \in Uploaders :
           upload[v].pc # "idle" /\ FileOf(v) = FileOf(u) => v = u

ShelfInv ==
    /\ \A s \in Slugs : Good(s, mem.products[s]) /\ Good(s, disk.products[s])
    /\ \A w \in Tasks : ListingOK(task[w])
    /\ \A u \in Uploaders : WriterOK(u)

LEMMA ShelfInit == Init => ShelfInv
  BY DEF Init, StoreInit, Default, Idle, NoUpload,
         ShelfInv, Good, ListingOK, WriterOK

\* Facts about the values involved.
LEMMA Typed ==
    ASSUME IInv
    PROVE  /\ task \in [Tasks -> Task]
           /\ \A w \in Tasks : task[w].listing # None =>
                /\ task[w].slug \in Slugs /\ task[w].listing \in Product
                /\ file[FileName(task[w].slug, task[w].listing.format)] # None
           /\ \A w \in Tasks : task[w].pc = "stream" => task[w].listing # None
           /\ \A s \in Slugs, ledger \in {mem, disk} :
                /\ ledger.products[s] \in Product \cup {None}
                /\ ledger.products[s] # None =>
                     file[FileName(s, ledger.products[s].format)] # None
  <1>1. task \in [Tasks -> Task] BY Shelf
  <1>2. ASSUME NEW w \in Tasks
        PROVE  /\ task[w].listing # None =>
                    /\ task[w].slug \in Slugs /\ task[w].listing \in Product
                    /\ file[FileName(task[w].slug, task[w].listing.format)] # None
               /\ task[w].pc = "stream" => task[w].listing # None
    <2>1. task[w] \in Task /\ RequestOK(task[w])
      BY <1>1 DEF IInv, RequestSound
    <2>2. task[w].listing \in Product \cup {None} BY <2>1 DEF Task
    <2> QED BY <2>1, <2>2 DEF RequestOK
  <1>3. \A s \in Slugs, ledger \in {mem, disk} :
          ledger.products[s] \in Product \cup {None}
    BY DEF IInv, TypeOK, StoreTypeOK, Persisted
  <1> QED BY <1>1, <1>2, <1>3 DEF IInv, FileExists

-----------------------------------------------------------------------------
(* Steps that write no file.                                               *)

\* Every listing and product comes from where there was one, and no upload
\* moves: the process, the node, the event loop and the requests.
LEMMA NoUploadStep ==
    ASSUME ShelfInv, UNCHANGED <<file, rewritten, upload>>,
           \A s \in Slugs :
             /\ mem'.products[s] \in {None, mem.products[s], disk.products[s]}
             /\ disk'.products[s] \in {None, mem.products[s], disk.products[s]},
           \A w \in Tasks : ListingOK(task'[w])
    PROVE  ShelfInv'
  <1>1. \A s \in Slugs : Good(s, None) BY DEF Good
  <1>2. \A s \in Slugs : Good(s, mem'.products[s]) /\ Good(s, disk'.products[s])
    BY <1>1 DEF ShelfInv
  <1>3. (\A s \in Slugs : Good(s, mem.products[s]) /\ Good(s, disk.products[s]))'
    BY <1>2 DEF Good
  <1>4. (\A w \in Tasks : ListingOK(task[w]))' BY DEF ListingOK, Good
  <1>5. (\A u \in Uploaders : WriterOK(u))' BY DEF ShelfInv, WriterOK, FileOf
  <1> QED BY <1>3, <1>4, <1>5 DEF ShelfInv

LEMMA EmptyListing ==
    ASSUME NEW r, r.listing = None, r.pc # "stream" PROVE ListingOK(r)
  BY DEF ListingOK, Good

\* One request moves on to the record r; the products stay.
LEMMA RequestStep ==
    ASSUME IInv, ShelfInv, NEW w \in Tasks, NEW r, ListingOK(r), Proceed(w, r),
           mem'.products = mem.products,
           disk'.products \in {mem.products, disk.products}
    PROVE  ShelfInv'
  <1>1. \A v \in Tasks : task'[v] = IF v = w THEN r ELSE task[v]
    BY Typed DEF Proceed
  <1>2. \A v \in Tasks : ListingOK(task'[v]) BY <1>1 DEF ShelfInv
  <1>3. UNCHANGED <<file, rewritten, upload>> BY DEF Proceed
  <1> QED BY <1>2, <1>3, NoUploadStep

\* To a section or a reply that is no download.
LEMMA GotoStep ==
    ASSUME IInv, ShelfInv, NEW w \in Tasks, NEW pc, pc # "stream", Goto(w, pc),
           mem'.products = mem.products,
           disk'.products \in {mem.products, disk.products}
    PROVE  ShelfInv'
  <1> DEFINE r == [task[w] EXCEPT !.pc = pc]
  <1>1. task[w] \in Task BY Typed
  <1>2. r.pc = pc /\ r.slug = task[w].slug /\ r.listing = task[w].listing
    BY <1>1 DEF Task
  <1>3. ListingOK(task[w]) BY DEF ShelfInv
  <1>4. Proceed(w, r) BY DEF Goto
  <1> HIDE DEF r
  <1>5. ListingOK(r) BY <1>2, <1>3 DEF ListingOK, Good
  <1> QED BY <1>4, <1>5, RequestStep

\* A purchase is recorded or marked: no product changes.
LEMMA MarkPaidProducts ==
    ASSUME IInv, NEW h, NEW ok, MarkPaid(h, ok)
    PROVE  mem'.products = mem.products /\ disk'.products \in {mem.products, disk.products}
  <1>1. mem \in Persisted BY DEF IInv, TypeOK, StoreTypeOK
  <1> QED BY <1>1 DEF MarkPaid, Persist, Persisted

LEMMA CreatePurchaseProducts ==
    ASSUME IInv, NEW h, NEW s, NEW ok, CreatePurchase(h, s, ok)
    PROVE  mem'.products = mem.products /\ disk'.products \in {mem.products, disk.products}
  <1>1. mem \in Persisted BY DEF IInv, TypeOK, StoreTypeOK
  <1> QED BY <1>1 DEF CreatePurchase, Persist, Persisted

LEMMA IdleStep ==
    ASSUME IInv, ShelfInv, NEW w \in Tasks, Proceed(w, Idle),
           mem'.products = mem.products,
           disk'.products \in {mem.products, disk.products}
    PROVE  ShelfInv'
  <1>1. ListingOK(Idle) BY EmptyListing DEF Idle
  <1> QED BY <1>1, RequestStep

LEMMA RequestedStep ==
    ASSUME IInv, ShelfInv, NEW w \in Tasks, NEW pc, NEW s, NEW h, pc # "stream",
           Request(w, pc, s, h), UNCHANGED <<mem, disk>>
    PROVE  ShelfInv'
  <1> DEFINE r == [pc |-> pc, slug |-> s, hash |-> h, listing |-> None, body |-> None]
  <1>1. r.listing = None /\ r.pc # "stream" OBVIOUS
  <1>2. Proceed(w, r) BY DEF Request
  <1> HIDE DEF r
  <1> QED BY <1>1, <1>2, EmptyListing, RequestStep

LEMMA InvoiceStep == ASSUME IInv, ShelfInv, NEW w \in Tasks, Invoice(w) PROVE ShelfInv'
  <1>1. ASSUME NEW s \in Slugs, InvoiceRead(w, s) PROVE ShelfInv'
    BY <1>1, RequestedStep DEF InvoiceRead
  <1>2. ASSUME NEW h \in Hashes, InvoiceNode(w, h) PROVE ShelfInv'
    <2> DEFINE r == [task[w] EXCEPT !.pc = "inv_record", !.hash = h]
    <2>1. task[w] \in Task /\ ListingOK(task[w]) BY Typed DEF ShelfInv
    <2>2. r.pc = "inv_record" /\ r.slug = task[w].slug /\ r.listing = task[w].listing
      BY <2>1 DEF Task
    <2>3. Proceed(w, r) /\ UNCHANGED <<mem, disk>> BY <1>2 DEF InvoiceNode
    <2> HIDE DEF r
    <2>4. ListingOK(r) BY <2>1, <2>2 DEF ListingOK, Good
    <2> QED BY <2>3, <2>4, RequestStep
  <1>3. CASE InvoiceFails(w) \/ InvoiceDelivered(w)
    BY <1>3, IdleStep DEF InvoiceFails, InvoiceDelivered
  <1>4. ASSUME NEW ok \in BOOLEAN, InvoiceRecord(w, ok) PROVE ShelfInv'
    <2>1. CreatePurchase(task[w].hash, task[w].slug, ok) BY <1>4 DEF InvoiceRecord
    <2>2. Goto(w, "inv_reply") \/ Proceed(w, Idle) BY <1>4 DEF InvoiceRecord
    <2> QED BY <2>1, <2>2, CreatePurchaseProducts, GotoStep, IdleStep
  <1> QED BY <1>1, <1>2, <1>3, <1>4 DEF Invoice

LEMMA StatusStep == ASSUME IInv, ShelfInv, NEW w \in Tasks, Status(w) PROVE ShelfInv'
  <1>1. ASSUME NEW s \in Slugs, NEW h \in Hashes, StatusRead(w, s, h) PROVE ShelfInv'
    <2>1. PICK pc \in {"missing", "paid", "st_node"} :
            Request(w, pc, s, h) /\ UNCHANGED <<mem, disk>>
      BY <1>1 DEF StatusRead
    <2> QED BY <2>1, RequestedStep
  <1>2. CASE StatusNode(w)
    <2>1. PICK pc \in {"st_mark", "unpaid"} : Goto(w, pc) /\ UNCHANGED <<mem, disk>>
      BY <1>2 DEF StatusNode
    <2> QED BY <2>1, GotoStep
  <1>3. ASSUME NEW ok \in BOOLEAN, StatusMark(w, ok) PROVE ShelfInv'
    BY <1>3, MarkPaidProducts, GotoStep DEF StatusMark
  <1> QED BY <1>1, <1>2, <1>3 DEF Status

LEMMA DownloadStep == ASSUME IInv, ShelfInv, NEW w \in Tasks, Download(w) PROVE ShelfInv'
  <1> DEFINE q == task[w]
  <1>0. q \in Task /\ ListingOK(q) BY Typed DEF ShelfInv
  <1>1. ASSUME NEW s \in Slugs, NEW h \in Hashes,
               DownloadByPreimage(w, s, h) \/ DownloadByClaim(w, s, h)
        PROVE  ShelfInv'
    <2>1. PICK pc \in {"missing", "dl_lookup"} :
            Request(w, pc, s, h) /\ UNCHANGED <<mem, disk>>
      BY <1>1 DEF DownloadByPreimage, DownloadByClaim
    <2> QED BY <2>1, RequestedStep
  <1>2. CASE DownloadLookup(w)
    <2>1. CASE Goto(w, "missing") BY <1>2, <2>1, GotoStep DEF DownloadLookup
    <2>2. CASE ~Goto(w, "missing")
      <3>1. PICK pc \in {"dl_open", "dl_node"} :
              /\ mem.products[q.slug] # None /\ PurchaseFor(q.hash, q.slug)
              /\ Proceed(w, [q EXCEPT !.pc = pc, !.listing = mem.products[q.slug]])
        BY <1>2, <2>2 DEF DownloadLookup
      <3> DEFINE r == [q EXCEPT !.pc = pc, !.listing = mem.products[q.slug]]
      <3>2. r.pc = pc /\ r.slug = q.slug /\ r.listing = mem.products[q.slug]
        BY <1>0 DEF Task
      <3>3. q.slug \in Slugs
        BY <1>2 DEF IInv, RequestSound, RequestOK, DownloadLookup, At, Asking
      <3>4. Good(q.slug, mem.products[q.slug]) BY <3>3 DEF ShelfInv
      <3>5. UNCHANGED <<mem, disk>> BY <1>2 DEF DownloadLookup
      <3>6. Proceed(w, r) BY <3>1
      <3> HIDE DEF r
      <3>7. ListingOK(r) BY <3>2, <3>4 DEF ListingOK
      <3> QED BY <3>5, <3>6, <3>7, RequestStep
    <2> QED BY <2>1, <2>2
  <1>3. CASE DownloadNode(w)
    <2>1. PICK pc \in {"dl_mark", "unpaid"} : Goto(w, pc) /\ UNCHANGED <<mem, disk>>
      BY <1>3 DEF DownloadNode
    <2> QED BY <2>1, GotoStep
  <1>4. ASSUME NEW ok \in BOOLEAN, DownloadMark(w, ok) PROVE ShelfInv'
    BY <1>4, MarkPaidProducts, GotoStep DEF DownloadMark
  <1>5. CASE DownloadOpen(w)
    <2> DEFINE body == file[FileName(q.slug, q.listing.format)]
               r == [q EXCEPT !.pc = "stream", !.body = body]
    <2>1. UNCHANGED <<mem, disk>> BY <1>5 DEF DownloadOpen
    <2>2. CASE Goto(w, "lost") BY <2>1, <2>2, GotoStep
    <2>3. CASE Proceed(w, r)
      <3>1. r.pc = "stream" /\ r.slug = q.slug /\ r.listing = q.listing /\ r.body = body
        BY <1>0 DEF Task
      <3>2. q.listing # None
        BY <1>5 DEF IInv, RequestSound, RequestOK, DownloadOpen, At
      <3>3. Proceed(w, r) BY <2>3
      <3> HIDE DEF r
      <3>4. ListingOK(r) BY <1>0, <3>1, <3>2 DEF ListingOK, Good
      <3> QED BY <2>1, <3>3, <3>4, RequestStep
    <2> QED BY <1>5, <2>2, <2>3 DEF DownloadOpen
  <1>6. CASE DownloadCancelled(w) BY <1>6, IdleStep DEF DownloadCancelled
  <1> QED BY <1>1, <1>2, <1>3, <1>4, <1>5, <1>6 DEF Download

LEMMA OtherStep ==
    ASSUME IInv, ShelfInv, Process \/ Payments \/ EventLoop PROVE ShelfInv'
  <1>1. ASSUME UNCHANGED <<file, rewritten, upload, task>>,
               \A s \in Slugs :
                 /\ mem'.products[s] \in {None, mem.products[s], disk.products[s]}
                 /\ disk'.products[s] \in {None, mem.products[s], disk.products[s]}
        PROVE  ShelfInv'
    BY <1>1, NoUploadStep DEF ShelfInv
  <1>2. CASE ProcessEnds
    <2>1. \A w \in Tasks : task'[w] = Idle BY <1>2 DEF ProcessEnds
    <2>2. \A s \in Slugs : mem'.products[s] = None /\ disk'.products[s] = disk.products[s]
      BY <1>2 DEF ProcessEnds, Default
    <2>3. \A u \in Uploaders : upload'[u].pc = "idle"
      BY <1>2 DEF ProcessEnds, NoUpload
    <2>4. UNCHANGED <<file, rewritten>> BY <1>2 DEF ProcessEnds
    <2>5. (\A u \in Uploaders : WriterOK(u))' BY <2>3 DEF WriterOK
    <2>6. (\A w \in Tasks : ListingOK(task[w]))'
      BY <2>1 DEF Idle, ListingOK, Good
    <2>7. (\A s \in Slugs : Good(s, mem.products[s]) /\ Good(s, disk.products[s]))'
      BY <2>2, <2>4 DEF ShelfInv, Good
    <2> QED BY <2>5, <2>6, <2>7 DEF ShelfInv
  <1>3. CASE StartNode \/ OpenStore
    BY <1>1, <1>3 DEF StartNode, OpenStore, Open, gateVars
  <1>4. CASE Payments
    BY <1>1, <1>4 DEF Payments, Settle, Announce, OtherInvoice, gateVars
  <1>5. ASSUME NEW ok \in BOOLEAN, EventMark(ok) PROVE ShelfInv'
    BY <1>1, <1>5, MarkPaidProducts DEF EventMark, gateVars
  <1>6. CASE EventHandled BY <1>1, <1>6 DEF EventHandled, gateVars
  <1> QED BY <1>2, <1>3, <1>4, <1>5, <1>6
          DEF Process, EventLoop, Crash, EventHandledFails

-----------------------------------------------------------------------------
(* Steps of an upload.                                                     *)

\* An upload gives up, or goes on without its client.
LEMMA SlotChange ==
    ASSUME IInv, ShelfInv, NEW u \in Uploaders, NEW x,
           upload' = [upload EXCEPT ![u] = x],
           x.pc # "idle" => /\ upload[u].pc \in {"writing", "orphan"}
                            /\ x.pc \in {"writing", "orphan"}
                            /\ x.slug = upload[u].slug /\ x.record = upload[u].record
                            /\ x.alone = upload[u].alone,
           UNCHANGED <<file, rewritten, task, mem, disk>>
    PROVE  ShelfInv'
  <1>1. \A v \in Uploaders : upload'[v] = IF v = u THEN x ELSE upload[v]
    BY Shelf
  <1>2. \A v \in Uploaders : upload'[v].pc # "idle" =>
          upload[v].pc # "idle" /\ FileOf(v)' = FileOf(v)
    BY <1>1 DEF FileOf
  <1>3. ASSUME NEW v \in Uploaders PROVE WriterOK(v)'
    <2>1. WriterOK(v) BY DEF ShelfInv
    <2> QED BY <1>1, <1>2, <2>1 DEF WriterOK
  <1>4. (\A w \in Tasks : ListingOK(task[w]))' BY DEF ShelfInv, ListingOK, Good
  <1>5. (\A s \in Slugs : Good(s, mem.products[s]) /\ Good(s, disk.products[s]))'
    BY DEF ShelfInv, Good
  <1> QED BY <1>3, <1>4, <1>5 DEF ShelfInv

LEMMA GivesUpStep ==
    ASSUME IInv, ShelfInv, NEW u \in Uploaders,
           UploadWriteFails(u) \/ UploadClientGone(u)
    PROVE  ShelfInv'
  <1>1. UNCHANGED <<file, rewritten, task, mem, disk>>
    BY DEF UploadWriteFails, UploadClientGone
  <1>2. CASE upload' = [upload EXCEPT ![u] = NoUpload]
    BY <1>1, <1>2, SlotChange DEF NoUpload
  <1>3. CASE upload[u].pc = "writing" /\ UploadClientGone(u)
    <2> DEFINE x == [upload[u] EXCEPT !.pc = "orphan"]
    <2>1. upload[u] \in Upload BY Shelf
    <2>2. /\ x.pc = "orphan" /\ x.slug = upload[u].slug
          /\ x.record = upload[u].record /\ x.alone = upload[u].alone
      BY <2>1 DEF Upload
    <2>3. upload' = [upload EXCEPT ![u] = x] BY <1>3 DEF UploadClientGone
    <2> HIDE DEF x
    <2> QED BY <1>1, <1>3, <2>2, <2>3, SlotChange
  <1> QED BY <1>2, <1>3 DEF UploadWriteFails, UploadClientGone

\* A write ends: its file is whole if no other write came near it.
LEMMA WrittenStep ==
    ASSUME IInv, ShelfInv, NEW u \in Uploaders, UploadWritten(u) PROVE ShelfInv'
  <1> DEFINE f == FileOf(u)
             x == AfterWrite(u)
  <1>1. /\ upload[u].pc \in {"writing", "orphan"} /\ f \in Files
        /\ upload[u] \in Upload /\ upload[u].record \in Product
        /\ upload[u].record.size_bytes \in Artifacts
    BY BusyUpload DEF UploadWritten, Product
  <1>2. PICK c \in Written(u) : file' = [file EXCEPT ![f] = c]
    BY DEF UploadWritten
  <1>3. /\ upload' = [upload EXCEPT ![u] = x]
        /\ UNCHANGED <<rewritten, task, mem, disk>>
    BY DEF UploadWritten
  <1>4. /\ \A v \in Uploaders : upload'[v] = IF v = u THEN x ELSE upload[v]
        /\ \A g : g \in Files => file'[g] = IF g = f THEN c ELSE file[g]
    BY <1>1, <1>2, <1>3, Shelf
  <1>5. \/ x.pc = "idle"
        \/ x.pc = "written" /\ x.slug = upload[u].slug /\ x.record = upload[u].record
    BY <1>1 DEF AfterWrite, NoUpload, Upload
  <1>6. WriterOK(u) BY DEF ShelfInv
  <1>7. f \notin rewritten => c = upload[u].record.size_bytes /\ file[f] = Torn
    <2> SUFFICES ASSUME f \notin rewritten
                 PROVE  c = upload[u].record.size_bytes /\ file[f] = Torn
      OBVIOUS
    <2>1. /\ upload[u].alone = TRUE /\ file[f] = Torn
          /\ \A v \in Uploaders : upload[v].pc # "idle" /\ FileOf(v) = f => v = u
      BY <1>1, <1>6 DEF WriterOK
    <2>2. Writing(f) = {u} BY <1>1, <2>1 DEF Writing
    <2> QED BY <1>2, <2>1, <2>2 DEF Written
  <1>8. \A v \in Uploaders : upload'[v].pc # "idle" =>
          upload[v].pc # "idle" /\ FileOf(v)' = FileOf(v)
    BY <1>1, <1>4, <1>5 DEF FileOf
  <1> HIDE DEF f, x
  <1>9. ASSUME NEW s, NEW p \in Product \cup {None}, Good(s, p), p # None => s \in Slugs
        PROVE  Good(s, p)'
    <2> SUFFICES ASSUME p # None, FileName(s, p.format) \notin rewritten
                 PROVE  file'[FileName(s, p.format)] = p.size_bytes
      BY <1>3 DEF Good
    <2>1. p \in Product /\ s \in Slugs BY <1>9
    <2>2. FileName(s, p.format) \in Files /\ p.size_bytes # Torn
      BY <2>1, TornAssumption DEF FileName, Files, Product
    <2>3. file[FileName(s, p.format)] = p.size_bytes BY <1>9 DEF Good
    <2>4. FileName(s, p.format) # f BY <1>7, <2>2, <2>3
    <2> QED BY <1>4, <2>2, <2>3, <2>4
  <1>10. (\A s \in Slugs : Good(s, mem.products[s]) /\ Good(s, disk.products[s]))'
    BY <1>3, <1>9, Typed DEF ShelfInv
  <1>11. (\A w \in Tasks : ListingOK(task[w]))'
    <2> SUFFICES ASSUME NEW w \in Tasks PROVE ListingOK(task[w])'
      OBVIOUS
    <2>1. ListingOK(task[w]) /\ task[w].listing \in Product \cup {None}
      BY Typed DEF ShelfInv
    <2>2. Good(task[w].slug, task[w].listing) BY <2>1 DEF ListingOK
    <2>3. task[w].listing # None => task[w].slug \in Slugs BY Typed
    <2>4. (Good(task[w].slug, task[w].listing))'
      BY <1>3, <1>9, <2>1, <2>2, <2>3
    <2> QED BY <1>3, <2>1, <2>4 DEF ListingOK
  <1>12. ASSUME NEW v \in Uploaders PROVE WriterOK(v)'
    <2>1. CASE v = u
      <3>1. WriterOK(u) BY DEF ShelfInv
      <3> QED BY <1>1, <1>3, <1>4, <1>5, <1>7, <1>8, <2>1, <3>1 DEF WriterOK, f
    <2>2. CASE v # u
      <3> SUFFICES ASSUME upload[v].pc # "idle", FileOf(v) \notin rewritten
                   PROVE  WriterOK(v)'
        BY <1>3, <1>8 DEF WriterOK
      <3>1. WriterOK(v) /\ FileOf(v) \in Files BY BusyUpload DEF ShelfInv
      <3>2. FileOf(v) # f BY <1>1, <2>2, <3>1 DEF WriterOK, f
      <3>3. upload'[v] = upload[v] /\ file'[FileOf(v)] = file[FileOf(v)]
        BY <1>4, <2>2, <3>1, <3>2
      <3> QED BY <1>3, <1>8, <3>1, <3>3 DEF WriterOK, FileOf
    <2> QED BY <2>1, <2>2
  <1> QED BY <1>10, <1>11, <1>12 DEF ShelfInv

\* A write begins: of a file that nobody has or offers, or one that is from now
\* on rewritten.
LEMMA WriteStep ==
    ASSUME IInv, ShelfInv, NEW u \in Uploaders, NEW slug \in Slugs,
           NEW format \in Formats, NEW artifact \in Artifacts,
           UploadWrite(u, slug, format, artifact)
    PROVE  ShelfInv'
  <1> DEFINE f == FileName(slug, format)
             x == [pc |-> "writing", slug |-> slug,
                   record |-> [format |-> format, size_bytes |-> artifact],
                   alone |-> Writing(f) = {}]
  <1>1. f \in Files BY DEF FileName, Files
  <1>2. /\ UNCHANGED <<mem, disk>>
        /\ file' = [file EXCEPT ![f] = Torn]
        /\ rewritten' = IF file[f] = None THEN rewritten ELSE rewritten \cup {f}
        /\ task' = [w \in Tasks |-> IF StreamsFrom(w, f)
                                    THEN [task[w] EXCEPT !.body = Torn] ELSE task[w]]
        /\ upload' = [v \in Uploaders |-> IF v = u THEN x
                      ELSE [upload[v] EXCEPT !.alone = @ /\ v \notin Writing(f)]]
    BY DEF UploadWrite
  <1>3. /\ \A g \in Files : file'[g] = IF g = f THEN Torn ELSE file[g]
        /\ f \notin rewritten' => file[f] = None
    BY <1>1, <1>2, Shelf
  <1>4. /\ upload'[u] = x /\ x.pc = "writing" /\ FileName(x.slug, x.record.format) = f
        /\ x.alone = (Writing(f) = {})
    BY <1>2
  <1>5. \A v \in Uploaders \ {u} : upload'[v] = [upload[v] EXCEPT
                                      !.alone = @ /\ v \notin Writing(f)]
    BY <1>2
  <1>6. \A v \in Uploaders \ {u} :
          /\ upload'[v].pc = upload[v].pc /\ upload'[v].slug = upload[v].slug
          /\ upload'[v].record = upload[v].record
          /\ upload'[v].alone = (upload[v].alone /\ v \notin Writing(f))
    BY <1>5, Shelf DEF Upload
  <1> HIDE DEF f, x
  <1>7. \A g : g \notin rewritten' => g \notin rewritten /\ (g = f => file[f] = None)
    BY <1>2
  <1>8. ASSUME NEW s, NEW p \in Product \cup {None}, Good(s, p),
               p # None => s \in Slugs /\ file[FileName(s, p.format)] # None
        PROVE  /\ Good(s, p)'
               /\ p # None /\ FileName(s, p.format) \notin rewritten'
                    => FileName(s, p.format) # f
    <2>1. CASE p # None /\ FileName(s, p.format) \notin rewritten'
      <3>1. FileName(s, p.format) \in Files
        BY <1>8, <2>1 DEF FileName, Files, Product
      <3> QED BY <1>3, <1>7, <1>8, <2>1, <3>1 DEF Good
    <2> QED BY <2>1 DEF Good
  <1>9. (\A s \in Slugs : Good(s, mem.products[s]) /\ Good(s, disk.products[s]))'
    BY <1>2, <1>8, Typed DEF ShelfInv
  <1>10. (\A w \in Tasks : ListingOK(task[w]))'
    <2> SUFFICES ASSUME NEW w \in Tasks PROVE ListingOK(task[w])'
      OBVIOUS
    <2> DEFINE q == task[w]
               g == FileName(q.slug, q.listing.format)
    <2>1. ListingOK(q) /\ q \in Task /\ q.listing \in Product \cup {None}
      BY Typed DEF ShelfInv
    <2>2. q.listing # None => q.slug \in Slugs /\ file[g] # None
      BY Typed
    <2>3. q.pc = "stream" => q.listing # None BY Typed
    <2>4. /\ task'[w].pc = q.pc /\ task'[w].slug = q.slug
          /\ task'[w].listing = q.listing
          /\ ~StreamsFrom(w, f) => task'[w].body = q.body
      BY <1>2, <2>1 DEF Task
    <2>5. q.listing # None /\ g \notin rewritten' =>
            g \notin rewritten /\ g # f /\ file'[g] = file[g]
      BY <1>3, <1>7, <2>1, <2>2 DEF FileName, Files, Product
    <2>6. q.listing # None /\ g \notin rewritten' => ~StreamsFrom(w, f)
      BY <2>5 DEF StreamsFrom
    <2> QED BY <2>1, <2>3, <2>4, <2>5, <2>6 DEF ListingOK, Good
  <1>11. ASSUME NEW v \in Uploaders PROVE WriterOK(v)'
    <2>1. CASE v = u
      <3> SUFFICES ASSUME f \notin rewritten' PROVE WriterOK(u)'
        BY <1>4, <2>1 DEF WriterOK, FileOf
      <3>1. file[f] = None BY <1>3
      <3>2. \A w \in Uploaders \ {u} : upload[w].pc # "idle" => FileOf(w) # f
        BY <3>1, BusyUpload
      <3>3. upload[u].pc = "idle" BY DEF UploadWrite
      <3>4. Writing(f) = {} BY <3>2, <3>3 DEF Writing
      <3>5. \A w \in Uploaders \ {u} : upload'[w].pc # "idle" => FileOf(w)' # f
        BY <1>6, <3>2 DEF FileOf
      <3>6. file'[f] = Torn BY <1>1, <1>3
      <3>7. FileOf(u)' = f BY <1>4 DEF FileOf
      <3>8. upload'[u].alone = TRUE BY <1>4, <3>4
      <3> QED BY <1>4, <3>5, <3>6, <3>7, <3>8 DEF WriterOK
    <2>2. CASE v # u
      <3> SUFFICES ASSUME upload[v].pc # "idle", FileOf(v) \notin rewritten'
                   PROVE  WriterOK(v)'
        BY <1>6, <2>2 DEF WriterOK, FileOf
      <3>1. /\ WriterOK(v) /\ FileOf(v) \in Files /\ file[FileOf(v)] # None
            /\ FileOf(v) \notin rewritten /\ FileOf(v) # f
        BY <1>7, BusyUpload DEF ShelfInv
      <3>2. /\ file'[FileOf(v)] = file[FileOf(v)] /\ v \notin Writing(f)
            /\ FileOf(v)' = FileOf(v) /\ FileOf(u)' = f
        BY <1>3, <1>4, <1>6, <2>2, <3>1 DEF FileOf, Writing
      <3>3. upload[v].alone = TRUE => upload'[v].alone = TRUE
        BY <1>6, <2>2, <3>2
      <3>4. \A w \in Uploaders : upload'[w].pc # "idle" /\ FileOf(w)' = FileOf(v)
              => w = v
        <4> SUFFICES ASSUME NEW w \in Uploaders, w # u, upload'[w].pc # "idle",
                            FileOf(w)' = FileOf(v)
                     PROVE  w = v
          BY <3>1, <3>2
        <4>1. upload[w].pc # "idle" /\ FileOf(w) = FileOf(v) BY <1>6 DEF FileOf
        <4> QED BY <3>1, <4>1 DEF WriterOK
      <3> QED BY <1>6, <2>2, <3>1, <3>2, <3>3, <3>4 DEF WriterOK
    <2> QED BY <2>1, <2>2
  <1> QED BY <1>9, <1>10, <1>11 DEF ShelfInv

\* The product of a written upload is registered.
LEMMA RegisterStep ==
    ASSUME IInv, ShelfInv, NEW u \in Uploaders, NEW ok \in BOOLEAN,
           UploadRegister(u, ok)
    PROVE  ShelfInv'
  <1> DEFINE slug == upload[u].slug
             p == upload[u].record
  <1>1. /\ p \in Product /\ slug \in Slugs
        /\ mem'.products[slug] = p
        /\ \A s \in Slugs \ {slug} : mem'.products[s] = mem.products[s]
    BY RegisterGrows
  <1>2. /\ UNCHANGED <<task, file, rewritten>>
        /\ upload' = [upload EXCEPT ![u] = NoUpload]
        /\ disk' \in {mem', disk} /\ upload[u].pc = "written"
    BY DEF UploadRegister, UpsertProduct, Persist
  <1>3. Good(slug, p)
    <2>1. WriterOK(u) BY DEF ShelfInv
    <2> QED BY <1>2, <2>1 DEF WriterOK, Good, FileOf
  <1> HIDE DEF slug, p
  <1>4. \A s \in Slugs : Good(s, mem'.products[s]) /\ Good(s, disk'.products[s])
    BY <1>1, <1>2, <1>3 DEF ShelfInv
  <1>5. (\A s \in Slugs : Good(s, mem.products[s]) /\ Good(s, disk.products[s]))'
    BY <1>2, <1>4 DEF Good
  <1>6. (\A w \in Tasks : ListingOK(task[w]))'
    BY <1>2 DEF ShelfInv, ListingOK, Good
  <1>7. \A v \in Uploaders : upload'[v] = IF v = u THEN NoUpload ELSE upload[v]
    BY <1>2, Shelf
  <1>8. \A v \in Uploaders : upload'[v].pc # "idle" =>
          v # u /\ upload[v].pc # "idle" /\ FileOf(v)' = FileOf(v)
    BY <1>7 DEF FileOf, NoUpload
  <1>9. ASSUME NEW v \in Uploaders PROVE WriterOK(v)'
    <2>1. WriterOK(v) BY DEF ShelfInv
    <2> QED BY <1>2, <1>7, <1>8, <2>1 DEF WriterOK
  <1> QED BY <1>5, <1>6, <1>9 DEF ShelfInv

LEMMA PutStep == ASSUME IInv, ShelfInv, NEW u \in Uploaders, Put(u) PROVE ShelfInv'
  BY WriteStep, WrittenStep, GivesUpStep, RegisterStep DEF Put

LEMMA StutterShelf == ASSUME IInv, ShelfInv, UNCHANGED vars PROVE ShelfInv'
  <1>1. UNCHANGED <<file, rewritten, upload, task, mem, disk>> BY DEF vars
  <1> QED BY <1>1, NoUploadStep DEF ShelfInv

LEMMA ShelfStep == IInv /\ ShelfInv /\ [Next]_vars => ShelfInv'
  <1> SUFFICES ASSUME IInv, ShelfInv, [Next]_vars PROVE ShelfInv'
    OBVIOUS
  <1>1. CASE Process \/ Payments \/ EventLoop BY <1>1, OtherStep
  <1>2. ASSUME NEW w \in Tasks, Invoice(w) \/ Status(w) \/ Download(w) PROVE ShelfInv'
    BY <1>2, InvoiceStep, StatusStep, DownloadStep
  <1>3. ASSUME NEW w \in Tasks, Finish(w) PROVE ShelfInv'
    BY <1>3, IdleStep DEF Finish
  <1>4. ASSUME NEW u \in Uploaders, Put(u) PROVE ShelfInv'
    BY <1>4, PutStep
  <1>5. CASE UNCHANGED vars BY <1>5, StutterShelf
  <1> QED BY <1>1, <1>2, <1>3, <1>4, <1>5 DEF Next

-----------------------------------------------------------------------------
LEMMA ShelfHolds == Spec => [](IInv /\ ShelfInv)
  BY InvariantHolds, ShelfInit, ShelfStep, PTL DEF Spec

\* FirstUploadIntactHolds: a file that put_product has opened for writing only
\* once is the artifact its record measured, wherever it is offered, on both
\* sides of a crash, and wherever get_download streams it.
THEOREM FirstUploadIntactHolds == Spec => []FirstUploadIntact
  <1>1. IInv /\ ShelfInv => FirstUploadIntact
    <2> SUFFICES ASSUME IInv, ShelfInv PROVE FirstUploadIntact
      OBVIOUS
    <2>1. \A s \in Slugs, ledger \in {mem, disk} : Good(s, ledger.products[s])
      BY DEF ShelfInv
    <2>2. \A w \in Tasks : ListingOK(task[w]) BY DEF ShelfInv
    <2> QED BY <2>1, <2>2, Typed DEF FirstUploadIntact, Good, ListingOK, At
  <1> QED BY <1>1, ShelfHolds, PTL
=============================================================================

-------------------------- MODULE GateOnDiskProofs --------------------------
(***************************************************************************)
(* Machine-checked proofs about GateOnDisk: it implements Gate, so what    *)
(* GateProofs shows of a gate that saves in one step holds of the daemon   *)
(* whose saves are three calls.                                            *)
(*                                                                         *)
(* Bar is Gate, with its theorems, under the mapping of GateOnDisk.  The   *)
(* induction keeps IInv of the mapped state, SaveInv, and the types of     *)
(* what the mapping hides (DetailOK).                                      *)
(***************************************************************************)
EXTENDS GateOnDisk, TLAPS, SequenceTheorems

Bar == INSTANCE GateProofs WITH
    mem <- MemBar, loop <- LoopBar, task <- TaskBar, upload <- UploadBar

DetailOK ==
    /\ mem \in Persisted
    /\ task \in [Tasks -> Task]
    /\ upload \in [Uploaders -> Upload]

IndInv == Bar!IInv /\ SaveInv /\ DetailOK

-----------------------------------------------------------------------------
(* The two instances of Gate are the same, and so are their constants.     *)

LEMMA SameValues ==
    /\ Bar!Task = Task /\ Bar!Upload = Upload /\ Bar!Persisted = Persisted
    /\ Bar!Idle = Idle /\ Bar!NoUpload = NoUpload /\ Bar!Default = Default
BY DEF Bar!Task, Task, Bar!Upload, Upload, Bar!Persisted, Persisted,
       Bar!Idle, Idle, Bar!NoUpload, NoUpload, Bar!Default, Default,
       Bar!Product, Product, Bar!Purchase, Purchase, Bar!Sections, Sections,
       Bar!Replies, Replies

-----------------------------------------------------------------------------
(* The handler that saves, and the others.                                 *)

TaskSaves(w) ==
    job # None /\ job.by \in {"record", "status", "download"} /\ job.of = w
UploadSaves(u) == job # None /\ job.by = "upload" /\ job.of = u
LoopSaves == job # None /\ job.by = "event"

LEMMA JobKinds ==
    ASSUME SaveInv, job # None
    PROVE  /\ job \in Jobs
           /\ \/ LoopSaves
              \/ job.of \in Tasks /\ TaskSaves(job.of)
              \/ job.of \in Uploaders /\ UploadSaves(job.of)
<1>1. job \in Jobs
  BY DEF SaveInv, SaveTypeOK
<1> QED BY <1>1 DEF Jobs, LoopSaves, TaskSaves, UploadSaves

\* Where the handler that saves is.
LEMMA Waits ==
    ASSUME SaveInv
    PROVE  /\ LoopSaves => loop = "wait" /\ queue # <<>>
           /\ \A w : TaskSaves(w) =>
                \/ job.by = "record" /\ task[w].pc = "inv_record"
                \/ job.by = "status" /\ task[w].pc = "st_mark"
                \/ job.by = "download" /\ task[w].pc = "dl_mark"
           /\ \A u : UploadSaves(u) => upload[u].pc = "written"
BY DEF SaveInv, Ready, At, LoopSaves, TaskSaves, UploadSaves

\* To all others the mapping is the identity.
LEMMA Elsewhere ==
    ASSUME SaveInv, DetailOK
    PROVE  /\ \A w \in Tasks : ~TaskSaves(w) => TaskBar[w] = task[w]
           /\ \A u \in Uploaders : ~UploadSaves(u) => UploadBar[u] = upload[u]
           /\ ~LoopSaves => LoopBar = loop
           /\ step # "return" => TaskBar = task /\ UploadBar = upload /\ LoopBar = loop
           /\ step = "idle" => MemBar = mem
<1>1. step = "return" => job # None
  BY DEF SaveInv
<1>2. \A w \in Tasks : ~TaskSaves(w) => TaskBar[w] = task[w]
  BY <1>1, JobKinds DEF TaskBar, TaskAfter, TaskSaves, DetailOK, Jobs
<1>3. \A u \in Uploaders : ~UploadSaves(u) => UploadBar[u] = upload[u]
  BY <1>1, JobKinds DEF UploadBar, UploadAfter, UploadSaves, DetailOK, Jobs
<1>4. ~LoopSaves => LoopBar = loop
  BY <1>1 DEF LoopBar, LoopAfter, LoopSaves
<1> QED BY <1>2, <1>3, <1>4 DEF TaskBar, UploadBar, LoopBar, MemBar, Saving

LEMMA TaskBarOfSaver ==
    ASSUME SaveInv, DetailOK, NEW w \in Tasks, TaskSaves(w), step = "return"
    PROVE  /\ job.by = "record" => TaskBar = [task EXCEPT ![w].pc = "inv_reply"]
           /\ job.by = "status" => TaskBar = [task EXCEPT ![w].pc = "paid"]
           /\ job.by = "download" => TaskBar = [task EXCEPT ![w].pc = "dl_open"]
BY DEF TaskBar, TaskAfter, TaskSaves

\* The handler that saves is not touched by what the others do meanwhile.
LEMMA JobStays ==
    ASSUME SaveInv, UNCHANGED <<mem, disk, proc, tmp, job, step, before>>,
           LoopSaves => loop' = loop /\ queue' # <<>> /\ Head(queue') = Head(queue),
           \A w \in Tasks : TaskSaves(w) => task'[w] = task[w],
           \A u \in Uploaders : UploadSaves(u) => /\ upload'[u].pc = upload[u].pc
                                                /\ upload'[u].slug = upload[u].slug
                                                /\ upload'[u].record = upload[u].record
    PROVE  SaveInv'
<1>1. ASSUME job # None
      PROVE  /\ Ready(job)'
             /\ Unchanged(before, job)' <=> Unchanged(before, job)
             /\ Changed(before, job)' = Changed(before, job)
  <2>1. CASE LoopSaves
    <3>1. Ready(job)'
      BY <2>1 DEF LoopSaves, SaveInv, Ready
    <3>2. MarkedHash(job)' = MarkedHash(job)
      BY <2>1 DEF LoopSaves, MarkedHash
    <3> QED BY <2>1, <3>1, <3>2 DEF LoopSaves, Unchanged, Changed
  <2>2. CASE job.of \in Tasks /\ TaskSaves(job.of)
    <3>1. task'[job.of] = task[job.of]
      BY <2>2
    <3>2. Ready(job)'
      BY <2>2, <3>1 DEF TaskSaves, SaveInv, Ready, At
    <3>3. MarkedHash(job)' = MarkedHash(job)
      BY <2>2, <3>1 DEF TaskSaves, MarkedHash
    <3> QED BY <2>2, <3>1, <3>2, <3>3 DEF TaskSaves, Unchanged, Changed
  <2>3. CASE job.of \in Uploaders /\ UploadSaves(job.of)
    <3>1. Ready(job)'
      BY <2>3 DEF UploadSaves, SaveInv, Ready
    <3> QED BY <2>3, <3>1 DEF UploadSaves, Unchanged, Changed
  <2> QED BY <1>1, <2>1, <2>2, <2>3, JobKinds
<1>2. SaveTypeOK'
  BY DEF SaveInv, SaveTypeOK
<1> QED BY <1>1, <1>2 DEF SaveInv

\* A request moves on that is not in a section which saves.
LEMMA RequestMoves ==
    ASSUME SaveInv, DetailOK, NEW w \in Tasks, ~TaskSaves(w), NEW r, Proceed(w, r),
           UNCHANGED <<mem, tmp, job, step, before>>
    PROVE  /\ Bar!Proceed(w, r) /\ TaskBar[w] = task[w]
           /\ MemBar' = MemBar
<1>1. /\ task' = [task EXCEPT ![w] = r]
      /\ UNCHANGED <<upload, file, rewritten, proc, loop>>
  BY DEF Proceed
<1>2. MemBar' = MemBar /\ LoopBar' = LoopBar /\ UploadBar' = UploadBar
  BY <1>1 DEF MemBar, LoopBar, LoopAfter, UploadBar, UploadAfter
<1>3. TaskBar' = [TaskBar EXCEPT ![w] = r]
  <2>1. CASE step # "return" \/ \A v \in Tasks : ~TaskSaves(v)
    <3>1. TaskBar = task /\ TaskBar' = task'
      BY <2>1, JobKinds DEF TaskBar, TaskAfter, TaskSaves, LoopSaves, UploadSaves, SaveInv
    <3> QED BY <1>1, <3>1
  <2>2. ASSUME step = "return", NEW v \in Tasks, TaskSaves(v)
        PROVE  TaskBar' = [TaskBar EXCEPT ![w] = r]
    <3>1. v # w
      BY <2>2
    <3>2. task \in [Tasks -> Task]
      BY DEF DetailOK
    <3> QED BY <1>1, <2>2, <3>1, <3>2 DEF TaskBar, TaskAfter, TaskSaves
  <2> QED BY <2>1, <2>2
<1>4. TaskBar[w] = task[w]
  BY Elsewhere
<1> QED BY <1>1, <1>2, <1>3, <1>4 DEF Bar!Proceed

-----------------------------------------------------------------------------
(* Requests of buyers outside the sections that save.                      *)

LEMMA BarStep ==
    ASSUME IndInv, [Bar!Next]_(Bar!vars)
    PROVE  Bar!IInv'
<1>1. Bar!IInv /\ Bar!Next => Bar!IInv'
  BY Bar!NextInv, DomainAssumption, TornAssumption
     DEF Bar!Product, Product, Bar!Purchase, Purchase
<1>2. Bar!IInv /\ UNCHANGED Bar!vars => Bar!IInv'
  BY Bar!StutterInv, DomainAssumption, TornAssumption
     DEF Bar!Product, Product, Bar!Purchase, Purchase
<1> QED BY <1>1, <1>2 DEF IndInv

LEMMA RequestKeeps ==
    ASSUME IndInv, NEW w \in Tasks, ~TaskSaves(w), NEW r, Proceed(w, r), Bar!Next,
           UNCHANGED <<mem, disk, queue, tmp, job, step, before>>
    PROVE  IndInv'
<1>1. /\ task' = [task EXCEPT ![w] = r] /\ task \in [Tasks -> Task]
      /\ UNCHANGED <<upload, proc, loop>>
  BY DEF Proceed, IndInv, DetailOK
<1>2. SaveInv'
  BY <1>1, JobStays, Waits DEF IndInv
<1>3. Bar!IInv'
  BY BarStep
<1>4. r \in Task
  <2>1. TaskBar' = [TaskBar EXCEPT ![w] = r]
    BY RequestMoves DEF IndInv, Bar!Proceed
  <2>2. TaskBar \in [Tasks -> Task] /\ TaskBar' \in [Tasks -> Task]
    BY <1>3, SameValues DEF IndInv, Bar!IInv, Bar!TypeOK, Bar!GateTypeOK
  <2> QED BY <2>1, <2>2
<1>5. DetailOK'
  BY <1>1, <1>4 DEF IndInv, DetailOK
<1> QED BY <1>2, <1>3, <1>5 DEF IndInv

\* Sections that need the Mutex: nobody saves, and the mapping is the identity.
LEMMA LockedStep ==
    ASSUME IndInv, NEW w \in Tasks, Locked(w),
           UNCHANGED <<tmp, job, step, before>>
    PROVE  Bar!Next /\ IndInv'
<1>1. /\ job = None /\ step = "idle" /\ ~TaskSaves(w)
      /\ MemBar = mem /\ TaskBar[w] = task[w]
  BY Elsewhere DEF Locked, MutexFree, TaskSaves, IndInv, SaveInv
<1> USE DEF Bar!At, At, Bar!PurchaseFor, PurchaseFor, Bar!nodeVars, nodeVars,
            Bar!Next, Bar!Invoice, Bar!Status, Bar!Download
<1>2. ASSUME NEW slug \in Slugs, InvoiceRead(w, slug) PROVE Bar!Next /\ IndInv'
  <2> DEFINE r == [pc |-> "inv_node", slug |-> slug, hash |-> None,
                   listing |-> None, body |-> None]
  <2>1. Proceed(w, r) /\ UNCHANGED <<mem, disk, queue>>
    BY <1>2 DEF InvoiceRead, Request
  <2>2. Bar!Proceed(w, r) /\ MemBar' = MemBar
    BY <1>1, <2>1, RequestMoves DEF IndInv
  <2>3. Bar!InvoiceRead(w, slug)
    BY <1>1, <1>2, <2>2 DEF InvoiceRead, Bar!InvoiceRead, Bar!Request
  <2>4. Bar!Next
    BY <2>3
  <2> QED BY <1>1, <2>1, <2>4, RequestKeeps
<1>3. ASSUME NEW slug \in Slugs, NEW h \in Hashes, StatusRead(w, slug, h)
      PROVE  Bar!Next /\ IndInv'
  <2> DEFINE r == [pc |-> IF ~PurchaseFor(h, slug) THEN "missing"
                          ELSE IF mem.purchases[h].paid THEN "paid" ELSE "st_node",
                   slug |-> slug, hash |-> h, listing |-> None, body |-> None]
  <2>1. Proceed(w, r) /\ UNCHANGED <<mem, disk, queue>>
    BY <1>3 DEF StatusRead, Request
  <2>2. Bar!Proceed(w, r) /\ MemBar' = MemBar
    BY <1>1, <2>1, RequestMoves DEF IndInv
  <2>3. Bar!StatusRead(w, slug, h)
    BY <1>1, <1>3, <2>2 DEF StatusRead, Bar!StatusRead, Bar!Request
  <2>4. Bar!Next
    BY <2>3
  <2> HIDE DEF r
  <2> QED BY <1>1, <2>1, <2>4, RequestKeeps
<1>4. ASSUME NEW slug \in Slugs, NEW h \in Hashes, DownloadByClaim(w, slug, h)
      PROVE  Bar!Next /\ IndInv'
  <2> DEFINE r == [pc |-> IF mem.purchases[h] = None THEN "missing" ELSE "dl_lookup",
                   slug |-> slug, hash |-> h, listing |-> None, body |-> None]
  <2>1. Proceed(w, r) /\ UNCHANGED <<mem, disk, queue>>
    BY <1>4 DEF DownloadByClaim, Request
  <2>2. Bar!Proceed(w, r) /\ MemBar' = MemBar
    BY <1>1, <2>1, RequestMoves DEF IndInv
  <2>3. Bar!DownloadByClaim(w, slug, h)
    BY <1>1, <1>4, <2>2 DEF DownloadByClaim, Bar!DownloadByClaim, Bar!Request
  <2>4. Bar!Next
    BY <2>3
  <2> HIDE DEF r
  <2> QED BY <1>1, <2>1, <2>4, RequestKeeps
<1>5. CASE DownloadLookup(w)
  <2> DEFINE slug == task[w].slug
             h == task[w].hash
             found == [task[w] EXCEPT !.pc = IF mem.purchases[h].paid THEN "dl_open"
                                                                      ELSE "dl_node",
                                      !.listing = mem.products[slug]]
             r == IF PurchaseFor(h, slug) /\ mem.products[slug] # None
                  THEN found ELSE [task[w] EXCEPT !.pc = "missing"]
  <2>1. Proceed(w, r) /\ UNCHANGED <<mem, disk, queue>>
    BY <1>5 DEF DownloadLookup, Goto
  <2>2. Bar!Proceed(w, r) /\ MemBar' = MemBar
    BY <1>1, <2>1, RequestMoves DEF IndInv
  <2>3. Bar!DownloadLookup(w)
    BY <1>1, <1>5, <2>2 DEF DownloadLookup, Bar!DownloadLookup, Bar!Goto
  <2>4. Bar!Next
    BY <2>3
  <2> HIDE DEF r
  <2> QED BY <1>1, <2>1, <2>4, RequestKeeps
<1> QED BY <1>2, <1>3, <1>4, <1>5 DEF Locked

\* Sections that do not: whoever saves is another handler.
LEMMA UnlockedStep ==
    ASSUME IndInv, NEW w \in Tasks, Unlocked(w),
           UNCHANGED <<tmp, job, step, before>>
    PROVE  Bar!Next /\ IndInv'
<1> USE DEF Bar!At, At, Bar!nodeVars, nodeVars, Bar!Goto, Goto,
            Bar!SettledOnNode, SettledOnNode,
            Bar!Next, Bar!Invoice, Bar!Status, Bar!Download
<1>0. SaveInv /\ DetailOK /\ task[w] \in Task
  BY DEF IndInv, DetailOK
<1>1. ASSUME NEW h \in Hashes, InvoiceNode(w, h) PROVE Bar!Next /\ IndInv'
  <2> DEFINE r == [task[w] EXCEPT !.pc = "inv_record", !.hash = h]
  <2>1. /\ Proceed(w, r) /\ UNCHANGED <<mem, disk, queue>> /\ task[w].pc = "inv_node"
    BY <1>1 DEF InvoiceNode
  <2>2. ~TaskSaves(w)
    BY <1>0, <2>1, Waits
  <2>3. Bar!Proceed(w, r) /\ TaskBar[w] = task[w] /\ MemBar' = MemBar
    BY <1>0, <2>1, <2>2, RequestMoves
  <2>4. Bar!InvoiceNode(w, h)
    BY <1>1, <2>3 DEF InvoiceNode, Bar!InvoiceNode, Receive, Bar!Receive,
       InvoiceKinds, Bar!InvoiceKinds
  <2>5. Bar!Next
    BY <2>4
  <2> HIDE DEF r
  <2> QED BY <2>1, <2>2, <2>5, RequestKeeps
<1>2. ASSUME InvoiceFails(w), ~Saves("record", w) PROVE Bar!Next /\ IndInv'
  <2>1. /\ Proceed(w, Idle) /\ UNCHANGED <<mem, disk, queue>>
        /\ task[w].pc \in {"inv_node", "inv_record"}
    BY <1>2 DEF InvoiceFails
  <2>2. ~TaskSaves(w)
    BY <1>0, <1>2, <2>1, Waits, JobKinds DEF TaskSaves, Saves, Jobs
  <2>3. Bar!Proceed(w, Idle) /\ TaskBar[w] = task[w] /\ MemBar' = MemBar
    BY <1>0, <2>1, <2>2, RequestMoves
  <2>4. Bar!InvoiceFails(w)
    BY <1>2, <2>3, SameValues DEF InvoiceFails, Bar!InvoiceFails
  <2>5. Bar!Next
    BY <2>4
  <2> QED BY <2>1, <2>2, <2>5, RequestKeeps
<1>3. CASE InvoiceDelivered(w)
  <2>1. /\ Proceed(w, Idle) /\ UNCHANGED <<mem, disk, queue>>
        /\ task[w].pc = "inv_reply"
    BY <1>3 DEF InvoiceDelivered
  <2>2. ~TaskSaves(w)
    BY <1>0, <2>1, Waits
  <2>3. Bar!Proceed(w, Idle) /\ TaskBar[w] = task[w] /\ MemBar' = MemBar
    BY <1>0, <2>1, <2>2, RequestMoves
  <2>4. Bar!InvoiceDelivered(w)
    BY <1>3, <2>3, SameValues DEF InvoiceDelivered, Bar!InvoiceDelivered, Bill, Bar!Bill
  <2>5. Bar!Next
    BY <2>4
  <2> QED BY <2>1, <2>2, <2>5, RequestKeeps
<1>4. CASE StatusNode(w)
  <2> DEFINE r == [task[w] EXCEPT !.pc = IF SettledOnNode(task[w].hash)
                                         THEN "st_mark" ELSE "unpaid"]
  <2>1. Proceed(w, r) /\ UNCHANGED <<mem, disk, queue>> /\ task[w].pc = "st_node"
    BY <1>4 DEF StatusNode
  <2>2. ~TaskSaves(w)
    BY <1>0, <2>1, Waits
  <2>3. Bar!Proceed(w, r) /\ TaskBar[w] = task[w] /\ MemBar' = MemBar
    BY <1>0, <2>1, <2>2, RequestMoves
  <2>4. Bar!StatusNode(w)
    BY <1>4, <2>3 DEF StatusNode, Bar!StatusNode
  <2>5. Bar!Next
    BY <2>4
  <2> HIDE DEF r
  <2> QED BY <2>1, <2>2, <2>5, RequestKeeps
<1>5. ASSUME NEW slug \in Slugs, NEW h \in Hashes, DownloadByPreimage(w, slug, h)
      PROVE  Bar!Next /\ IndInv'
  <2> DEFINE r == [pc |-> "dl_lookup", slug |-> slug, hash |-> h,
                   listing |-> None, body |-> None]
  <2>1. Proceed(w, r) /\ UNCHANGED <<mem, disk, queue>> /\ task[w].pc = "idle"
    BY <1>5 DEF DownloadByPreimage, Request
  <2>2. ~TaskSaves(w)
    BY <1>0, <2>1, Waits
  <2>3. Bar!Proceed(w, r) /\ TaskBar[w] = task[w] /\ MemBar' = MemBar
    BY <1>0, <2>1, <2>2, RequestMoves
  <2>4. Bar!DownloadByPreimage(w, slug, h)
    BY <1>5, <2>3 DEF DownloadByPreimage, Bar!DownloadByPreimage, Bar!Request
  <2>5. Bar!Next
    BY <2>4
  <2> HIDE DEF r
  <2> QED BY <2>1, <2>2, <2>5, RequestKeeps
<1>6. CASE DownloadNode(w)
  <2> DEFINE r == [task[w] EXCEPT !.pc = IF SettledOnNode(task[w].hash)
                                         THEN "dl_mark" ELSE "unpaid"]
  <2>1. Proceed(w, r) /\ UNCHANGED <<mem, disk, queue>> /\ task[w].pc = "dl_node"
    BY <1>6 DEF DownloadNode
  <2>2. ~TaskSaves(w)
    BY <1>0, <2>1, Waits
  <2>3. Bar!Proceed(w, r) /\ TaskBar[w] = task[w] /\ MemBar' = MemBar
    BY <1>0, <2>1, <2>2, RequestMoves
  <2>4. Bar!DownloadNode(w)
    BY <1>6, <2>3 DEF DownloadNode, Bar!DownloadNode
  <2>5. Bar!Next
    BY <2>4
  <2> HIDE DEF r
  <2> QED BY <2>1, <2>2, <2>5, RequestKeeps
<1>7. CASE DownloadOpen(w)
  <2> DEFINE body == file[FileName(task[w].slug, task[w].listing.format)]
             r == IF body = None THEN [task[w] EXCEPT !.pc = "lost"]
                  ELSE [task[w] EXCEPT !.pc = "stream", !.body = body]
  <2>1. Proceed(w, r) /\ UNCHANGED <<mem, disk, queue>> /\ task[w].pc = "dl_open"
    BY <1>7 DEF DownloadOpen
  <2>2. ~TaskSaves(w)
    BY <1>0, <2>1, Waits
  <2>3. Bar!Proceed(w, r) /\ TaskBar[w] = task[w] /\ MemBar' = MemBar
    BY <1>0, <2>1, <2>2, RequestMoves
  <2>4. Bar!DownloadOpen(w)
    BY <1>7, <2>3 DEF DownloadOpen, Bar!DownloadOpen, FileName, Bar!FileName
  <2>5. Bar!Next
    BY <2>4
  <2> HIDE DEF r
  <2> QED BY <2>1, <2>2, <2>5, RequestKeeps
<1>8. CASE DownloadCancelled(w) \/ Finish(w)
  <2>1. /\ Proceed(w, Idle) /\ UNCHANGED <<mem, disk, queue>>
        /\ task[w].pc \in Replies \cup {"dl_open"}
    BY <1>8 DEF DownloadCancelled, Finish
  <2>2. ~TaskSaves(w)
    BY <1>0, <2>1, Waits DEF Replies
  <2>3. Bar!Proceed(w, Idle) /\ TaskBar[w] = task[w] /\ MemBar' = MemBar
    BY <1>0, <2>1, <2>2, RequestMoves
  <2>4. Bar!DownloadCancelled(w) \/ Bar!Finish(w)
    BY <1>8, <2>3, SameValues DEF DownloadCancelled, Bar!DownloadCancelled,
       Finish, Bar!Finish, Replies, Bar!Replies
  <2>5. Bar!Next
    BY <2>4
  <2> QED BY <2>1, <2>2, <2>5, RequestKeeps
<1> QED BY <1>1, <1>2, <1>3, <1>4, <1>5, <1>6, <1>7, <1>8 DEF Unlocked

-----------------------------------------------------------------------------
(* The node, the event loop and the opening of the store.                  *)

\* What leaves requests, uploads and memory alone leaves the mapped ones alone.
LEMMA MappedStays ==
    ASSUME UNCHANGED <<mem, task, upload, tmp, job, step, before>>
    PROVE  MemBar' = MemBar /\ TaskBar' = TaskBar /\ UploadBar' = UploadBar
           /\ (loop' = loop => LoopBar' = LoopBar)
BY DEF MemBar, TaskBar, TaskAfter, UploadBar, UploadAfter, LoopBar, LoopAfter

LEMMA PaymentStep ==
    ASSUME IndInv, Payments, UNCHANGED <<tmp, job, step, before>>
    PROVE  Bar!Next /\ IndInv'
<1>1. UNCHANGED <<mem, disk, proc, loop, task, upload, file, rewritten>>
  BY DEF Payments, Settle, Announce, OtherInvoice, gateVars
<1>2. UNCHANGED <<MemBar, disk, proc, LoopBar, TaskBar, UploadBar, file, rewritten>>
  BY <1>1, MappedStays
<1>3. Bar!Next
  <2>1. PICK h \in Hashes : Settle(h) \/ Announce(h) \/ OtherInvoice(h)
    BY DEF Payments
  <2>2. Settle(h) => Bar!Settle(h)
    BY <1>2 DEF Settle, Bar!Settle, Settles, Bar!Settles, Bar!gateVars
  <2>3. Announce(h) => Bar!Announce(h)
    BY <1>2 DEF Announce, Bar!Announce, Announces, Bar!Announces, Bar!gateVars
  <2>4. OtherInvoice(h) => Bar!OtherInvoice(h)
    BY <1>2 DEF OtherInvoice, Bar!OtherInvoice, Receive, Bar!Receive, Bill, Bar!Bill,
       InvoiceKinds, Bar!InvoiceKinds, Bar!gateVars
  <2> QED BY <2>1, <2>2, <2>3, <2>4 DEF Bar!Next, Bar!Payments
<1>4. queue # <<>> => queue' # <<>> /\ Head(queue') = Head(queue)
  <2>1. queue \in Seq(Hashes)
    BY DEF IndInv, Bar!IInv, Bar!TypeOK, Bar!NodeTypeOK
  <2>2. queue' = queue \/ \E h \in Hashes : queue' = Append(queue, h)
    BY DEF Payments, Settle, Settles, Announce, Announces, OtherInvoice
  <2> QED BY <2>1, <2>2
<1>5. SaveInv'
  BY <1>1, <1>4, JobStays, Waits DEF IndInv
<1> QED BY <1>1, <1>3, <1>5, BarStep DEF IndInv, DetailOK

LEMMA EventHandledStep ==
    ASSUME IndInv, EventHandled, UNCHANGED <<tmp, job, step, before>>
    PROVE  Bar!Next /\ IndInv'
<1>1. /\ UNCHANGED <<mem, disk, proc, task, upload, file, rewritten>>
      /\ loop = "marked"
  BY DEF EventHandled, gateVars
<1>2. UNCHANGED <<MemBar, TaskBar, UploadBar>>
  BY <1>1, MappedStays
<1>3. ~LoopSaves
  BY <1>1, Waits DEF IndInv
<1>4. LoopBar = loop /\ LoopBar' = loop'
  BY <1>1, <1>3, JobKinds DEF LoopBar, LoopAfter, LoopSaves, IndInv, SaveInv
<1>5. Bar!EventHandled
  BY <1>1, <1>2, <1>4 DEF EventHandled, Bar!EventHandled, PopEvent, Bar!PopEvent,
     Bar!gateVars
<1>6. Bar!Next
  BY <1>5 DEF Bar!Next, Bar!EventLoop
<1>7. SaveInv'
  BY <1>1, <1>3, JobStays DEF IndInv
<1> QED BY <1>1, <1>6, <1>7, BarStep DEF IndInv, DetailOK

\* The process is not serving, so nobody saves.
LEMMA StartStep ==
    ASSUME IndInv, StartNode \/ Opens, UNCHANGED <<tmp, job, step, before>>
    PROVE  Bar!Next /\ IndInv'
<1>1. /\ proc \in {"down", "node"} /\ UNCHANGED <<disk, task, upload, file, rewritten, queue>>
      /\ UNCHANGED <<kind, settled, pending, bill>>
  BY DEF StartNode, Opens, OpenStore, Open, gateVars, nodeVars
<1>2. job = None /\ step = "idle" /\ job' = None /\ step' = "idle"
  BY <1>1 DEF IndInv, SaveInv
<1>3. /\ MemBar = mem /\ LoopBar = loop /\ TaskBar = task /\ UploadBar = upload
      /\ MemBar' = mem' /\ LoopBar' = loop' /\ TaskBar' = task' /\ UploadBar' = upload'
  BY <1>2 DEF MemBar, LoopBar, TaskBar, UploadBar, Saving
<1>4. StartNode => Bar!StartNode
  BY <1>1, <1>3 DEF StartNode, Bar!StartNode, Bar!gateVars, Bar!nodeVars
<1>5. Opens => Bar!OpenStore
  BY <1>1, <1>3 DEF Opens, OpenStore, Open, Bar!OpenStore, Bar!Open, Bar!gateVars, Bar!nodeVars
<1>6. Bar!Next
  BY <1>4, <1>5 DEF Bar!Next, Bar!Process
<1>7. SaveInv'
  BY <1>1, <1>2 DEF IndInv, SaveInv, SaveTypeOK
<1>8. Bar!IInv'
  BY <1>6, BarStep
<1>9. DetailOK'
  BY <1>1, <1>3, <1>8, SameValues DEF IndInv, DetailOK, Bar!IInv, Bar!TypeOK, Bar!StoreTypeOK
<1> QED BY <1>6, <1>7, <1>8, <1>9 DEF IndInv

\* The process ends, wherever the save was.
LEMMA EndsStep ==
    ASSUME IndInv, EndsSaving
    PROVE  Bar!Next /\ IndInv'
<1>1. /\ ProcessEnds /\ job' = None /\ step' = "idle" /\ before' = Default /\ tmp' = tmp
  BY DEF EndsSaving, Crash, EventHandledFails
<1>2. /\ mem' = Default /\ loop' = "down" /\ disk' = disk
      /\ task' = [w \in Tasks |-> Idle] /\ upload' = [u \in Uploaders |-> NoUpload]
  BY <1>1 DEF ProcessEnds
<1>3. MemBar' = mem' /\ LoopBar' = loop' /\ TaskBar' = task' /\ UploadBar' = upload'
  BY <1>1 DEF MemBar, LoopBar, TaskBar, UploadBar, Saving
<1>4. Bar!ProcessEnds
  BY <1>1, <1>3, SameValues DEF ProcessEnds, Bar!ProcessEnds, NodeEnds, Bar!NodeEnds
<1>5. loop = "marked" => LoopBar = "marked"
  BY Waits, Elsewhere DEF IndInv
<1>6. Bar!Crash \/ Bar!EventHandledFails
  BY <1>4, <1>5 DEF EndsSaving, Crash, EventHandledFails, Bar!Crash, Bar!EventHandledFails
<1>7. Bar!Next
  BY <1>6 DEF Bar!Next, Bar!Process, Bar!EventLoop
<1>8. Bar!IInv'
  BY <1>7, BarStep
<1>9. DetailOK'
  BY <1>3, <1>8, SameValues DEF DetailOK, Bar!IInv, Bar!TypeOK, Bar!StoreTypeOK, Bar!GateTypeOK
<1>10. SaveInv'
  BY <1>1, <1>2, <1>3, <1>8, SameValues
     DEF IndInv, SaveInv, SaveTypeOK, Bar!IInv, Bar!TypeOK, Bar!StoreTypeOK
<1> QED BY <1>7, <1>8, <1>9, <1>10 DEF IndInv

-----------------------------------------------------------------------------
(* Uploads outside the section that saves.                                 *)

\* An upload that waits for its section is not writing, nor is one that is done.
LEMMA SameWriting ==
    ASSUME SaveInv, DetailOK
    PROVE  /\ \A f : Bar!Writing(f) = Writing(f)
           /\ \A u \in Uploaders : upload[u].pc # "written" =>
                ~UploadSaves(u) /\ UploadBar[u] = upload[u] /\ Bar!FileOf(u) = FileOf(u)
<1>1. ASSUME NEW u \in Uploaders, ~UploadSaves(u)
      PROVE  UploadBar[u] = upload[u] /\ Bar!FileOf(u) = FileOf(u)
  BY <1>1, Elsewhere DEF Bar!FileOf, FileOf, Bar!FileName, FileName
<1>2. ASSUME NEW u \in Uploaders, UploadSaves(u)
      PROVE  upload[u].pc = "written" /\ UploadBar[u].pc \in {"written", "idle"}
  <2>1. upload[u].pc = "written"
    BY <1>2, Waits
  <2>2. UploadBar = upload \/ UploadBar = [upload EXCEPT ![u] = NoUpload]
    BY <1>2 DEF UploadBar, UploadAfter, UploadSaves
  <2> QED BY <2>1, <2>2 DEF DetailOK, NoUpload
<1>3. \A f : Bar!Writing(f) = Writing(f)
  BY <1>1, <1>2 DEF Bar!Writing, Writing
<1> QED BY <1>1, <1>2, <1>3

\* The slot of one upload changes.
LEMMA UploadMoves ==
    ASSUME SaveInv, DetailOK, NEW u \in Uploaders, ~UploadSaves(u), NEW x,
           upload' = [upload EXCEPT ![u] = x],
           UNCHANGED <<mem, loop, task, tmp, job, step, before>>
    PROVE  /\ UploadBar' = [UploadBar EXCEPT ![u] = x]
           /\ UNCHANGED <<MemBar, LoopBar, TaskBar>>
<1>1. UNCHANGED <<MemBar, LoopBar, TaskBar>>
  BY DEF MemBar, LoopBar, LoopAfter, TaskBar, TaskAfter
<1>2. CASE step # "return" \/ job.by # "upload"
  BY <1>1, <1>2 DEF UploadBar, UploadAfter
<1>3. CASE step = "return" /\ job.by = "upload"
  <2>1. job.of \in Uploaders /\ job.of # u
    BY <1>3, JobKinds DEF LoopSaves, TaskSaves, UploadSaves, SaveInv
  <2> QED BY <1>1, <1>3, <2>1 DEF UploadBar, UploadAfter, DetailOK
<1> QED BY <1>1, <1>2, <1>3

LEMMA UploadKeeps ==
    ASSUME IndInv, NEW u \in Uploaders, ~UploadSaves(u), NEW x, Bar!Next,
           upload' = [upload EXCEPT ![u] = x],
           UNCHANGED <<mem, disk, kind, settled, pending, queue, bill>>,
           UNCHANGED <<proc, loop, task, tmp, job, step, before>>
    PROVE  IndInv'
<1>1. SaveInv'
  BY JobStays, Waits DEF IndInv, DetailOK
<1>2. Bar!IInv'
  BY BarStep
<1>3. x \in Upload
  <2>1. UploadBar' = [UploadBar EXCEPT ![u] = x]
    BY UploadMoves DEF IndInv
  <2>2. UploadBar \in [Uploaders -> Upload] /\ UploadBar' \in [Uploaders -> Upload]
    BY <1>2, SameValues DEF IndInv, Bar!IInv, Bar!TypeOK, Bar!GateTypeOK
  <2> QED BY <2>1, <2>2
<1> QED BY <1>1, <1>2, <1>3 DEF IndInv, DetailOK

LEMMA UploadSlotStep ==
    ASSUME IndInv, NEW u \in Uploaders,
           UploadWritten(u) \/ UploadWriteFails(u) \/ (UploadClientGone(u) /\ ~Saves("upload", u)),
           UNCHANGED <<tmp, job, step, before>>
    PROVE  Bar!Next /\ IndInv'
<1> USE DEF Bar!Next, Bar!Put, nodeVars, Bar!nodeVars
<1>0. SaveInv /\ DetailOK
  BY DEF IndInv
<1>1. UNCHANGED <<mem, disk, kind, settled, pending, queue, bill>>
  BY DEF UploadWritten, UploadWriteFails, UploadClientGone
<1>2. UNCHANGED <<proc, loop, task>>
  BY DEF UploadWritten, UploadWriteFails, UploadClientGone
<1>3. CASE UploadWritten(u)
  <2> DEFINE x == AfterWrite(u)
  <2>1. /\ upload[u].pc \in {"writing", "orphan"} /\ upload' = [upload EXCEPT ![u] = x]
    BY <1>3 DEF UploadWritten
  <2>2. ~UploadSaves(u) /\ UploadBar[u] = upload[u] /\ Bar!FileOf(u) = FileOf(u)
    BY <1>0, <2>1, SameWriting
  <2>3. UploadBar' = [UploadBar EXCEPT ![u] = x] /\ UNCHANGED <<MemBar, LoopBar, TaskBar>>
    BY <1>0, <1>1, <1>2, <2>1, <2>2, UploadMoves
  <2>4. Bar!Written(u) = Written(u) /\ Bar!AfterWrite(u) = x
    BY <1>0, <2>2, SameWriting, SameValues DEF Bar!Written, Written, Bar!AfterWrite, AfterWrite
  <2> HIDE DEF x
  <2>5. Bar!UploadWritten(u)
    BY <1>3, <2>2, <2>3, <2>4 DEF UploadWritten, Bar!UploadWritten
  <2>6. Bar!Next
    BY <2>5
  <2> QED BY <1>1, <1>2, <2>1, <2>2, <2>6, UploadKeeps
<1>4. CASE UploadWriteFails(u)
  <2>1. upload[u].pc \in {"writing", "orphan"} /\ upload' = [upload EXCEPT ![u] = NoUpload]
    BY <1>4 DEF UploadWriteFails
  <2>2. ~UploadSaves(u) /\ UploadBar[u] = upload[u]
    BY <1>0, <2>1, SameWriting
  <2>3. /\ UploadBar' = [UploadBar EXCEPT ![u] = NoUpload]
        /\ UNCHANGED <<MemBar, LoopBar, TaskBar>>
    BY <1>0, <1>1, <1>2, <2>1, <2>2, UploadMoves
  <2>4. Bar!UploadWriteFails(u)
    BY <1>4, <2>2, <2>3, SameValues DEF UploadWriteFails, Bar!UploadWriteFails
  <2>5. Bar!Next
    BY <2>4
  <2> QED BY <1>1, <1>2, <2>1, <2>2, <2>5, UploadKeeps
<1>5. CASE UploadClientGone(u) /\ ~Saves("upload", u)
  <2> DEFINE x == IF upload[u].pc = "writing" THEN [upload[u] EXCEPT !.pc = "orphan"]
                  ELSE NoUpload
  <2>1. upload' = [upload EXCEPT ![u] = x]
    BY <1>5 DEF UploadClientGone
  <2>2. ~UploadSaves(u)
    BY <1>0, <1>5, JobKinds DEF UploadSaves, Saves, Jobs
  <2>3. UploadBar[u] = upload[u] /\ UploadBar' = [UploadBar EXCEPT ![u] = x]
        /\ UNCHANGED <<MemBar, LoopBar, TaskBar>>
    BY <1>0, <1>1, <1>2, <2>1, <2>2, UploadMoves, Elsewhere
  <2>4. Bar!UploadClientGone(u)
    BY <1>5, <2>3, SameValues DEF UploadClientGone, Bar!UploadClientGone
  <2>5. Bar!Next
    BY <2>4
  <2> HIDE DEF x
  <2> QED BY <1>1, <1>2, <2>1, <2>2, <2>5, UploadKeeps
<1> QED BY <1>3, <1>4, <1>5

\* A write that begins tears the streams of its file: neither a request that
\* saves nor one that is done with that streams.
LEMMA StreamsTear ==
    ASSUME SaveInv, DetailOK, NEW f, UNCHANGED <<step, job>>,
           task' = [w \in Tasks |-> IF StreamsFrom(w, f)
                                    THEN [task[w] EXCEPT !.body = Torn] ELSE task[w]]
    PROVE  /\ TaskBar' = [w \in Tasks |-> IF Bar!StreamsFrom(w, f)
                                          THEN [TaskBar[w] EXCEPT !.body = Torn]
                                          ELSE TaskBar[w]]
           /\ \A w \in Tasks : TaskSaves(w) => task'[w] = task[w]
           /\ task' \in [Tasks -> Task]
<1>1. ASSUME NEW w \in Tasks, ~TaskSaves(w)
      PROVE  Bar!StreamsFrom(w, f) <=> StreamsFrom(w, f)
  BY <1>1, Elsewhere DEF Bar!StreamsFrom, StreamsFrom, Bar!At, At, Bar!FileName, FileName
<1>2. task \in [Tasks -> Task]
  BY DEF DetailOK
<1>3. ASSUME NEW w \in Tasks, TaskSaves(w) PROVE ~StreamsFrom(w, f)
  BY <1>3, Waits DEF StreamsFrom, At
<1>4. \A w \in Tasks : TaskSaves(w) => task'[w] = task[w]
  BY <1>3
<1>5. task' \in [Tasks -> Task]
  BY <1>2 DEF Task
<1>6. CASE step # "return" \/ \A v \in Tasks : ~TaskSaves(v)
  <2>1. TaskBar = task /\ TaskBar' = task'
    BY <1>6, JobKinds DEF TaskBar, TaskAfter, TaskSaves, LoopSaves, UploadSaves, SaveInv
  <2> QED BY <1>4, <1>5, <2>1 DEF Bar!StreamsFrom, StreamsFrom, Bar!At, At,
             Bar!FileName, FileName
<1>7. ASSUME step = "return", NEW v \in Tasks, TaskSaves(v)
      PROVE  TaskBar' = [w \in Tasks |-> IF Bar!StreamsFrom(w, f)
                                         THEN [TaskBar[w] EXCEPT !.body = Torn]
                                         ELSE TaskBar[w]]
  <2>1. PICK pc \in {"inv_reply", "paid", "dl_open"} :
          TaskBar = [task EXCEPT ![v].pc = pc] /\ TaskBar' = [task' EXCEPT ![v].pc = pc]
    BY <1>7 DEF TaskBar, TaskAfter, TaskSaves
  <2>2. TaskBar[v].pc = pc /\ TaskBar'[v] = TaskBar[v]
    BY <1>2, <1>4, <1>5, <1>7, <2>1 DEF Task
  <2>3. ~Bar!StreamsFrom(v, f)
    BY <2>2 DEF Bar!StreamsFrom, Bar!At
  <2>4. \A w \in Tasks \ {v} : ~TaskSaves(w) /\ TaskBar[w] = task[w] /\ TaskBar'[w] = task'[w]
    BY <1>2, <1>5, <1>7, <2>1 DEF TaskSaves
  <2>5. TaskBar' = [w \in Tasks |-> TaskBar'[w]]
    BY <1>5, <2>1
  <2> QED BY <1>1, <2>2, <2>3, <2>4, <2>5
<1> QED BY <1>4, <1>5, <1>6, <1>7

LEMMA UploadWriteStep ==
    ASSUME IndInv, NEW u \in Uploaders, NEW slug \in Slugs, NEW format \in Formats,
           NEW artifact \in Artifacts, UploadWrite(u, slug, format, artifact),
           UNCHANGED <<tmp, job, step, before>>
    PROVE  Bar!Next /\ IndInv'
<1> DEFINE f == FileName(slug, format)
           x == [pc |-> "writing", slug |-> slug,
                 record |-> [format |-> format, size_bytes |-> artifact],
                 alone |-> Writing(f) = {}]
<1>0. SaveInv /\ DetailOK
  BY DEF IndInv
<1>1. /\ proc = "serving" /\ upload[u].pc = "idle"
      /\ upload' = [v \in Uploaders |-> IF v = u THEN x
                      ELSE [upload[v] EXCEPT !.alone = @ /\ v \notin Writing(f)]]
      /\ file' = [file EXCEPT ![f] = Torn]
      /\ rewritten' = IF file[f] = None THEN rewritten ELSE rewritten \cup {f}
      /\ task' = [w \in Tasks |-> IF StreamsFrom(w, f)
                                  THEN [task[w] EXCEPT !.body = Torn] ELSE task[w]]
      /\ UNCHANGED <<mem, disk, proc, loop>>
      /\ UNCHANGED <<kind, settled, pending, queue, bill>>
  BY DEF UploadWrite, nodeVars
<1>2. f = Bar!FileName(slug, format)
  BY DEF FileName, Bar!FileName
<1>3. ~UploadSaves(u) /\ UploadBar[u] = upload[u] /\ Bar!Writing(f) = Writing(f)
  BY <1>0, <1>1, SameWriting
<1>4. x \in Upload
  BY DEF Upload, Product
<1> HIDE DEF f, x
<1>5. TaskBar' = [w \in Tasks |-> IF Bar!StreamsFrom(w, f)
                                  THEN [TaskBar[w] EXCEPT !.body = Torn] ELSE TaskBar[w]]
  BY <1>0, <1>1, StreamsTear
<1>6. UploadBar' = [v \in Uploaders |-> IF v = u THEN x
                      ELSE [UploadBar[v] EXCEPT !.alone = @ /\ v \notin Writing(f)]]
  <2>1. CASE step # "return" \/ job.by # "upload"
    <3>1. UploadBar = upload /\ UploadBar' = upload'
      BY <2>1 DEF UploadBar, UploadAfter
    <3> QED BY <1>1, <3>1
  <2>2. CASE step = "return" /\ job.by = "upload"
    <3>1. job.of \in Uploaders /\ job.of # u /\ UploadSaves(job.of)
      BY <1>0, <1>3, <2>2, JobKinds DEF LoopSaves, TaskSaves, UploadSaves, SaveInv
    <3>2. job.of \notin Writing(f)
      BY <1>0, <3>1, Waits DEF Writing
    <3>3. UploadBar = [upload EXCEPT ![job.of] = NoUpload]
          /\ UploadBar' = [upload' EXCEPT ![job.of] = NoUpload]
      BY <2>2 DEF UploadBar, UploadAfter
    <3>4. NoUpload = [NoUpload EXCEPT !.alone = @ /\ job.of \notin Writing(f)]
      BY <3>2 DEF NoUpload
    <3>5. upload \in [Uploaders -> Upload]
      BY DEF IndInv, DetailOK
    <3> QED BY <1>1, <3>1, <3>3, <3>4, <3>5
  <2> QED BY <2>1, <2>2
<1>7. UNCHANGED <<MemBar, LoopBar>>
  BY <1>1 DEF MemBar, LoopBar, LoopAfter
<1>8. Bar!UploadWrite(u, slug, format, artifact)
  BY <1>1, <1>2, <1>3, <1>5, <1>6, <1>7 DEF Bar!UploadWrite, Bar!nodeVars, x
<1>9. Bar!Next
  BY <1>8 DEF Bar!Next, Bar!Put
<1>10. /\ \A w \in Tasks : TaskSaves(w) => task'[w] = task[w]
       /\ task' \in [Tasks -> Task]
  BY <1>0, <1>1, StreamsTear
<1>11. upload' \in [Uploaders -> Upload] /\ \A v \in Uploaders \ {u} :
         /\ upload'[v].pc = upload[v].pc /\ upload'[v].slug = upload[v].slug
         /\ upload'[v].record = upload[v].record
  BY <1>0, <1>1, <1>4 DEF DetailOK, Upload
<1>12. SaveInv'
  BY <1>0, <1>1, <1>3, <1>10, <1>11, JobStays, Waits
<1>13. DetailOK'
  BY <1>0, <1>1, <1>10, <1>11 DEF DetailOK
<1> QED BY <1>9, <1>12, <1>13, BarStep DEF IndInv

-----------------------------------------------------------------------------
(* The sections that save.                                                 *)

\* A section of Gate, from where the handler took the Mutex.
LEMMA SectionHappens ==
    ASSUME SaveInv, DetailOK, step \in Saving, NEW ok \in BOOLEAN,
           MemBar' = mem, disk' = IF ok THEN mem ELSE disk,
           TaskBar' = TaskAfter(job, ok), LoopBar' = LoopAfter(job),
           UploadBar' = UploadAfter(job),
           UNCHANGED <<kind, settled, pending, queue, bill, proc, file, rewritten>>
    PROVE  Bar!Next
<1> USE DEF Bar!Next, Bar!nodeVars, Bar!gateVars, Bar!At, At, Bar!Goto, Bar!Proceed,
            Bar!Persist
<1>1. /\ MemBar = before /\ TaskBar = task /\ LoopBar = loop /\ UploadBar = upload
      /\ job # None /\ proc = "serving" /\ Ready(job) /\ ~Unchanged(before, job)
      /\ mem = Changed(before, job)
  BY DEF MemBar, TaskBar, LoopBar, UploadBar, Saving, SaveInv
<1>2. ASSUME job.by \in {"event", "status", "download"}
      PROVE  Bar!MarkPaid(MarkedHash(job), ok)
  BY <1>1, <1>2 DEF Bar!MarkPaid, Changed, Unchanged
<1>3. CASE LoopSaves
  <2>1. Bar!EventMark(ok)
    BY <1>1, <1>2, <1>3 DEF LoopSaves, Bar!EventMark, MarkedHash, Ready,
       TaskAfter, LoopAfter, UploadAfter
  <2> QED BY <2>1 DEF Bar!EventLoop
<1>4. ASSUME job.of \in Tasks, job.by = "record" PROVE Bar!Next
  <2> DEFINE w == job.of
  <2>1. /\ task[w].pc = "inv_record" /\ LoopBar' = loop /\ UploadBar' = upload
        /\ mem = [before EXCEPT !.purchases[task[w].hash] =
                                  [slug |-> task[w].slug, paid |-> FALSE]]
        /\ TaskBar' = [task EXCEPT ![w] = IF ok THEN [@ EXCEPT !.pc = "inv_reply"]
                                                 ELSE Idle]
    BY <1>1, <1>4 DEF Ready, Changed, TaskAfter, LoopAfter, UploadAfter
  <2>2. Bar!InvoiceRecord(w, ok)
    BY <1>1, <2>1, SameValues DEF Bar!InvoiceRecord, Bar!CreatePurchase
  <2> QED BY <1>4, <2>2 DEF Bar!Invoice
<1>5. ASSUME job.of \in Tasks, job.by = "status" PROVE Bar!Next
  <2> DEFINE w == job.of
  <2>1. /\ task[w].pc = "st_mark" /\ LoopBar' = loop /\ UploadBar' = upload
        /\ MarkedHash(job) = task[w].hash
        /\ TaskBar' = [task EXCEPT ![w].pc = "paid"]
    BY <1>1, <1>5 DEF Ready, MarkedHash, TaskAfter, LoopAfter, UploadAfter
  <2>2. Bar!StatusMark(w, ok)
    BY <1>1, <1>2, <1>5, <2>1 DEF Bar!StatusMark
  <2> QED BY <1>5, <2>2 DEF Bar!Status
<1>6. ASSUME job.of \in Tasks, job.by = "download" PROVE Bar!Next
  <2> DEFINE w == job.of
  <2>1. /\ task[w].pc = "dl_mark" /\ LoopBar' = loop /\ UploadBar' = upload
        /\ MarkedHash(job) = task[w].hash
        /\ TaskBar' = [task EXCEPT ![w].pc = "dl_open"]
    BY <1>1, <1>6 DEF Ready, MarkedHash, TaskAfter, LoopAfter, UploadAfter
  <2>2. Bar!DownloadMark(w, ok)
    BY <1>1, <1>2, <1>6, <2>1 DEF Bar!DownloadMark
  <2> QED BY <1>6, <2>2 DEF Bar!Download
<1>7. CASE job.of \in Uploaders /\ UploadSaves(job.of)
  <2> DEFINE u == job.of
  <2>1. /\ upload[u].pc = "written" /\ LoopBar' = loop /\ TaskBar' = task
        /\ mem = [before EXCEPT !.products[upload[u].slug] = upload[u].record]
        /\ UploadBar' = [upload EXCEPT ![u] = NoUpload]
    BY <1>1, <1>7 DEF UploadSaves, Ready, Changed, TaskAfter, LoopAfter, UploadAfter
  <2>2. Bar!UploadRegister(u, ok)
    BY <1>1, <2>1, SameValues DEF Bar!UploadRegister, Bar!UpsertProduct
  <2> QED BY <1>7, <2>2 DEF Bar!Put
<1> QED BY <1>1, <1>3, <1>4, <1>5, <1>6, <1>7, JobKinds DEF TaskSaves

\* What the handlers are once a section is over has the right type.
LEMMA AfterTyped ==
    ASSUME SaveInv, DetailOK, job # None, NEW ok \in BOOLEAN
    PROVE  /\ TaskAfter(job, ok) \in [Tasks -> Task]
           /\ UploadAfter(job) \in [Uploaders -> Upload]
<1>1. Idle \in Task /\ NoUpload \in Upload
  BY DEF Idle, Task, NoUpload, Upload
<1>2. /\ task \in [Tasks -> Task] /\ upload \in [Uploaders -> Upload]
      /\ job.by \in {"record", "status", "download"} => job.of \in Tasks
  BY JobKinds DEF DetailOK, LoopSaves, TaskSaves, UploadSaves
<1>3. ASSUME NEW r \in Task, NEW pc \in {"inv_reply", "paid", "dl_open"}
      PROVE  [r EXCEPT !.pc = pc] \in Task
  BY <1>3 DEF Task, Sections, Replies
<1> QED BY <1>1, <1>2, <1>3 DEF TaskAfter, UploadAfter

\* The section that takes the Mutex asks for a change of the right type.
LEMMA ChangeTyped ==
    ASSUME IndInv, NEW j \in Jobs, job = None, Ready(j), ~Unchanged(mem, j)
    PROVE  Changed(mem, j) \in Persisted /\ proc = "serving"
<1>1. /\ MemBar = mem /\ TaskBar = task /\ LoopBar = loop /\ UploadBar = upload
      /\ mem \in Persisted
  BY Elsewhere DEF IndInv, SaveInv, DetailOK
<1>2. ASSUME NEW h \in Hashes, mem.purchases[h] # None
      PROVE  [mem EXCEPT !.purchases[h].paid = TRUE] \in Persisted
  BY <1>1, <1>2 DEF Persisted, Purchase
<1> USE DEF IndInv, Bar!IInv
<1>3. CASE j.by = "event"
  <2>1. loop = "wait" /\ queue # <<>> /\ queue \in Seq(Hashes)
    BY <1>3 DEF Ready, Bar!TypeOK, Bar!NodeTypeOK
  <2>2. Head(queue) \in Hashes /\ mem.purchases[Head(queue)] # None
    BY <1>3, <2>1 DEF Unchanged, MarkedHash
  <2> QED BY <1>1, <1>2, <1>3, <2>1, <2>2 DEF Changed, MarkedHash, Bar!OnlyWhileServing
<1>4. CASE j.by \in {"status", "download"}
  <2>1. j.of \in Tasks /\ task[j.of].pc \in {"st_mark", "dl_mark"}
    BY <1>4 DEF Jobs, Ready, At
  <2>2. proc = "serving"
    BY <1>1, <2>1 DEF Bar!OnlyWhileServing, Bar!Idle
  <2>3. task[j.of].hash \in Hashes
    BY <1>1, <2>1 DEF Bar!RequestSound, Bar!RequestOK, Bar!Asking
  <2>4. mem.purchases[task[j.of].hash] # None
    BY <1>4 DEF Unchanged, MarkedHash
  <2> QED BY <1>2, <1>4, <2>2, <2>3, <2>4 DEF Changed, MarkedHash
<1>5. CASE j.by = "record"
  <2>1. j.of \in Tasks /\ task[j.of].pc = "inv_record"
    BY <1>5 DEF Jobs, Ready, At
  <2>2. proc = "serving"
    BY <1>1, <2>1 DEF Bar!OnlyWhileServing, Bar!Idle
  <2>3. task[j.of].hash \in Hashes /\ task[j.of].slug \in Slugs
    BY <1>1, <2>1 DEF Bar!InvoiceOwned, Bar!InvoiceOK, Bar!Owning
  <2> QED BY <1>1, <1>5, <2>2, <2>3 DEF Changed, Persisted, Purchase
<1>6. CASE j.by = "upload"
  <2>1. j.of \in Uploaders /\ upload[j.of].pc = "written"
    BY <1>6 DEF Jobs, Ready
  <2>2. proc = "serving"
    BY <1>1, <2>1 DEF Bar!OnlyWhileServing, Bar!NoUpload
  <2>3. upload[j.of].slug \in Slugs /\ upload[j.of].record \in Product
    BY <1>1, <2>1 DEF Bar!FileExists, Bar!Product, Product
  <2> QED BY <1>1, <1>6, <2>2, <2>3 DEF Changed, Persisted
<1> QED BY <1>3, <1>4, <1>5, <1>6 DEF Jobs

LEMMA TakeStep ==
    ASSUME IndInv, NEW j \in Jobs, Take(j)
    PROVE  UNCHANGED Bar!vars /\ IndInv'
<1>1. /\ job = None /\ step = "idle" /\ Ready(j) /\ ~Unchanged(mem, j)
      /\ mem' = Changed(mem, j) /\ before' = mem /\ job' = j /\ step' = "create"
      /\ UNCHANGED <<disk, kind, settled, pending, queue, bill>>
      /\ UNCHANGED <<proc, loop, task, upload, file, rewritten, tmp>>
  BY DEF Take, MutexFree, IndInv, SaveInv, nodeVars, gateVars
<1>2. UNCHANGED Bar!vars
  BY <1>1 DEF Bar!vars, MemBar, TaskBar, LoopBar, UploadBar, Saving
<1>3. mem' \in Persisted /\ proc = "serving"
  BY <1>1, ChangeTyped
<1>4. DetailOK'
  BY <1>1, <1>3 DEF IndInv, DetailOK
<1>5. /\ Ready(j)' /\ (~Unchanged(before, j))' /\ mem' = Changed(before, j)'
  BY <1>1 DEF Ready, At, Unchanged, Changed, MarkedHash
<1>6. job' # None
  BY <1>1, SaveAssumption
<1>7. SaveInv'
  BY <1>1, <1>3, <1>5, <1>6 DEF IndInv, SaveInv, SaveTypeOK, DetailOK
<1> QED BY <1>2, <1>4, <1>7, BarStep DEF IndInv

\* create and fill: only the temporary file changes.
LEMMA CallStep ==
    ASSUME IndInv, Create \/ Fill
    PROVE  UNCHANGED Bar!vars /\ IndInv'
<1>1. /\ \/ step = "create" /\ step' = "fill" /\ tmp' = Torn
         \/ step = "fill" /\ step' = "rename" /\ tmp' = mem
      /\ UNCHANGED <<mem, disk, kind, settled, pending, queue, bill>>
      /\ UNCHANGED <<proc, loop, task, upload, file, rewritten, job, before>>
  BY DEF Create, Fill, Calls, nodeVars, gateVars
<1>2. UNCHANGED Bar!vars
  BY <1>1 DEF Bar!vars, MemBar, TaskBar, LoopBar, UploadBar, Saving
<1>3. DetailOK'
  BY <1>1 DEF IndInv, DetailOK
<1>4. job # None => Ready(job)' /\ (~Unchanged(before, job))' /\ mem' = Changed(before, job)'
  BY <1>1 DEF IndInv, SaveInv, Ready, At, Unchanged, Changed, MarkedHash
<1>5. SaveInv'
  BY <1>1, <1>4 DEF IndInv, SaveInv, SaveTypeOK, DetailOK
<1> QED BY <1>2, <1>3, <1>5, BarStep DEF IndInv

\* The section happens.
LEMMA RenameStep ==
    ASSUME IndInv, Rename
    PROVE  Bar!Next /\ IndInv'
<1>1. /\ step = "rename" /\ step' = "return" /\ disk' = tmp /\ tmp' = None
      /\ UNCHANGED <<mem, kind, settled, pending, queue, bill>>
      /\ UNCHANGED <<proc, loop, task, upload, file, rewritten, job, before>>
  BY DEF Rename, Calls, nodeVars, gateVars
<1>2. tmp = mem /\ job # None
  BY <1>1 DEF IndInv, SaveInv
<1>3. /\ MemBar' = mem /\ TaskBar' = TaskAfter(job, TRUE)
      /\ LoopBar' = LoopAfter(job) /\ UploadBar' = UploadAfter(job)
  BY <1>1 DEF MemBar, TaskBar, TaskAfter, LoopBar, LoopAfter, UploadBar, UploadAfter, Saving
<1>4. Bar!Next
  BY <1>1, <1>2, <1>3, SectionHappens DEF IndInv, Saving
<1>5. DetailOK'
  BY <1>1 DEF IndInv, DetailOK
<1>6. Ready(job)' /\ (~Unchanged(before, job))' /\ mem' = Changed(before, job)'
  BY <1>1, <1>2 DEF IndInv, SaveInv, Ready, At, Unchanged, Changed, MarkedHash
<1>7. SaveInv'
  BY <1>1, <1>2, <1>6, SaveAssumption DEF IndInv, SaveInv, SaveTypeOK, DetailOK
<1> QED BY <1>4, <1>5, <1>7, BarStep DEF IndInv

\* persist() returns: the handlers go on from where the mapping has them.
LEMMA ReleaseFacts ==
    ASSUME IndInv, NEW ok \in BOOLEAN, Releases(ok), step # "idle"
    PROVE  /\ job # None /\ step' = "idle"
           /\ loop' = LoopAfter(job) /\ task' = TaskAfter(job, ok)
           /\ upload' = UploadAfter(job)
           /\ UNCHANGED <<kind, settled, pending, queue, bill, proc, file, rewritten>>
           /\ UNCHANGED <<mem, disk>>
           /\ MemBar' = mem /\ TaskBar' = task' /\ LoopBar' = loop' /\ UploadBar' = upload'
           /\ DetailOK' /\ SaveInv'
<1>1. /\ job # None /\ step' = "idle" /\ job' = None /\ before' = Default
      /\ loop' = LoopAfter(job) /\ task' = TaskAfter(job, ok)
      /\ upload' = UploadAfter(job)
      /\ UNCHANGED <<kind, settled, pending, queue, bill, proc, file, rewritten>>
      /\ UNCHANGED <<mem, disk, tmp>>
  BY DEF Releases, GoesOn, nodeVars, IndInv, SaveInv
<1>2. MemBar' = mem /\ TaskBar' = task' /\ LoopBar' = loop' /\ UploadBar' = upload'
  BY <1>1 DEF MemBar, TaskBar, LoopBar, UploadBar, Saving
<1>3. DetailOK'
  BY <1>1, AfterTyped DEF IndInv, DetailOK
<1>4. Default \in Persisted
  BY DEF Default, Persisted
<1>5. SaveInv'
  BY <1>1, <1>4 DEF IndInv, SaveInv, SaveTypeOK
<1> QED BY <1>1, <1>2, <1>3, <1>5

LEMMA SavedStep ==
    ASSUME IndInv, Saved
    PROVE  UNCHANGED Bar!vars /\ IndInv'
<1>1. step = "return" /\ Releases(TRUE)
  BY DEF Saved
<1>2. MemBar = mem /\ TaskBar = TaskAfter(job, TRUE) /\ LoopBar = LoopAfter(job)
      /\ UploadBar = UploadAfter(job)
  BY <1>1 DEF MemBar, TaskBar, LoopBar, UploadBar, Saving
<1>3. UNCHANGED Bar!vars
  BY <1>1, <1>2, ReleaseFacts DEF Bar!vars
<1> QED BY <1>1, <1>3, ReleaseFacts, BarStep DEF IndInv

LEMMA SaveFailsStep ==
    ASSUME IndInv, SaveFails
    PROVE  Bar!Next /\ IndInv'
<1>1. step \in Saving /\ Releases(FALSE)
  BY DEF SaveFails
<1>2. Bar!Next
  BY <1>1, ReleaseFacts, SectionHappens DEF IndInv, Saving
<1> QED BY <1>1, <1>2, ReleaseFacts, BarStep DEF IndInv, Saving

\* A section of mark_paid that has nothing to save.
LEMMA SkipStep ==
    ASSUME IndInv, NEW j \in Jobs, Skip(j)
    PROVE  Bar!Next /\ IndInv'
<1>1. /\ job = None /\ step = "idle" /\ Ready(j) /\ Unchanged(mem, j)
      /\ loop' = LoopAfter(j) /\ task' = TaskAfter(j, TRUE) /\ upload' = UploadAfter(j)
      /\ UNCHANGED <<kind, settled, pending, queue, bill, proc, file, rewritten>>
      /\ UNCHANGED <<mem, disk, tmp, job, step, before>>
  BY DEF Skip, GoesOn, MutexFree, saveVars, nodeVars, IndInv, SaveInv
<1>2. /\ MemBar = mem /\ TaskBar = task /\ LoopBar = loop /\ UploadBar = upload
      /\ MemBar' = mem' /\ TaskBar' = task' /\ LoopBar' = loop' /\ UploadBar' = upload'
  BY <1>1 DEF MemBar, TaskBar, LoopBar, UploadBar, Saving
<1>3. Bar!MarkPaid(MarkedHash(j), TRUE)
  BY <1>1, <1>2 DEF Bar!MarkPaid, Unchanged
<1>4. upload' = upload /\ j.by \in {"event", "status", "download"}
  BY <1>1 DEF UploadAfter, Unchanged
<1> USE DEF Bar!Next, Bar!nodeVars, Bar!gateVars, Bar!At, At, Bar!Goto, Bar!Proceed
<1>5. ASSUME j.by = "event" PROVE Bar!Next
  <2>1. Bar!EventMark(TRUE)
    BY <1>1, <1>2, <1>3, <1>4, <1>5
       DEF Bar!EventMark, MarkedHash, Ready, TaskAfter, LoopAfter
  <2> QED BY <2>1 DEF Bar!EventLoop
<1>6. ASSUME j.by = "status" PROVE Bar!Next
  <2>1. j.of \in Tasks
    BY <1>6 DEF Jobs
  <2>2. Bar!StatusMark(j.of, TRUE)
    BY <1>1, <1>2, <1>3, <1>4, <1>6
       DEF Bar!StatusMark, MarkedHash, Ready, TaskAfter, LoopAfter
  <2> QED BY <2>1, <2>2 DEF Bar!Status
<1>7. ASSUME j.by = "download" PROVE Bar!Next
  <2>1. j.of \in Tasks
    BY <1>7 DEF Jobs
  <2>2. Bar!DownloadMark(j.of, TRUE)
    BY <1>1, <1>2, <1>3, <1>4, <1>7
       DEF Bar!DownloadMark, MarkedHash, Ready, TaskAfter, LoopAfter
  <2> QED BY <2>1, <2>2 DEF Bar!Download
<1>8. Bar!Next
  BY <1>4, <1>5, <1>6, <1>7
<1>9. SaveInv'
  BY <1>1 DEF IndInv, SaveInv, SaveTypeOK
<1>10. Bar!IInv'
  BY <1>8, BarStep
<1>11. DetailOK'
  BY <1>1, <1>2, <1>10, SameValues
     DEF IndInv, DetailOK, Bar!IInv, Bar!TypeOK, Bar!GateTypeOK
<1> QED BY <1>8, <1>9, <1>10, <1>11 DEF IndInv

-----------------------------------------------------------------------------
(* The refinement.                                                         *)

LEMMA OthersStep ==
    ASSUME IndInv, Others
    PROVE  Bar!Next /\ IndInv'
<1>1. UNCHANGED <<tmp, job, step, before>>
  BY DEF Others, saveVars
<1>2. ASSUME NEW u \in Uploaders, Artist(u) PROVE Bar!Next /\ IndInv'
  BY <1>1, <1>2, UploadWriteStep, UploadSlotStep DEF Artist
<1>3. ASSUME NEW w \in Tasks, Locked(w) \/ Unlocked(w) PROVE Bar!Next /\ IndInv'
  BY <1>1, <1>3, LockedStep, UnlockedStep
<1> QED BY <1>1, <1>2, <1>3, StartStep, PaymentStep, EventHandledStep DEF Others

LEMMA DiskStep ==
    ASSUME IndInv, [DiskNext]_all
    PROVE  [Bar!Next]_(Bar!vars) /\ IndInv'
<1>1. CASE DiskNext
  BY <1>1, TakeStep, SkipStep, CallStep, RenameStep, SavedStep, SaveFailsStep,
     EndsStep, OthersStep DEF DiskNext
<1>2. CASE UNCHANGED all
  <2>1. UNCHANGED <<mem, disk, kind, settled, pending, queue, bill>>
        /\ UNCHANGED <<proc, loop, task, upload, file, rewritten>>
        /\ UNCHANGED <<tmp, job, step, before>>
    BY <1>2 DEF all, vars
  <2>2. UNCHANGED Bar!vars
    BY <2>1, MappedStays DEF Bar!vars
  <2>3. SaveInv'
    BY <2>1, JobStays, Waits DEF IndInv
  <2> QED BY <2>1, <2>2, <2>3, BarStep DEF IndInv, DetailOK
<1> QED BY <1>1, <1>2

LEMMA DiskStart == DiskInit => Bar!Init /\ IndInv
<1> SUFFICES ASSUME DiskInit PROVE Bar!Init /\ IndInv
  OBVIOUS
<1>1. Init /\ tmp = None /\ job = None /\ step = "idle" /\ before = Default
  BY DEF DiskInit
<1>2. MemBar = mem /\ TaskBar = task /\ LoopBar = loop /\ UploadBar = upload
  BY <1>1 DEF MemBar, TaskBar, LoopBar, UploadBar, Saving
<1>3. Bar!Init
  BY <1>1, <1>2, SameValues DEF Init, Bar!Init, StoreInit, Bar!StoreInit, NodeInit,
     Bar!NodeInit, Files, Bar!Files
<1>4. Bar!IInv
  BY <1>3, Bar!InitInv, DomainAssumption, TornAssumption
     DEF Bar!Product, Product, Bar!Purchase, Purchase
<1>5. DetailOK
  BY <1>2, <1>4, SameValues DEF DetailOK, Bar!IInv, Bar!TypeOK, Bar!StoreTypeOK, Bar!GateTypeOK
<1>6. Default \in Persisted /\ disk = Default
  BY <1>1 DEF Default, Persisted, Init, StoreInit
<1>7. SaveInv
  BY <1>1, <1>6, SaveAssumption DEF SaveInv, SaveTypeOK
<1> QED BY <1>3, <1>4, <1>5, <1>7 DEF IndInv

\* Gate as GateOnDisk instantiates it, and as GateProofs does.
LEMMA SameGate ==
    /\ Bar!Init <=> OneStep!Init
    /\ Bar!Next <=> OneStep!Next
    /\ UNCHANGED Bar!vars <=> UNCHANGED OneStep!vars
<1>1. Bar!Init <=> OneStep!Init
  BY DEF Bar!Init, OneStep!Init, Bar!StoreInit, OneStep!StoreInit, Bar!NodeInit,
    OneStep!NodeInit, Bar!Default, OneStep!Default, Bar!Idle, OneStep!Idle,
    Bar!NoUpload, OneStep!NoUpload, Bar!Files, OneStep!Files
<1>2. Bar!Next <=> OneStep!Next
  BY DEF
    Bar!AfterWrite, OneStep!AfterWrite, Bar!Announce, OneStep!Announce,
    Bar!Announces, OneStep!Announces, Bar!At, OneStep!At, Bar!Bill,
    OneStep!Bill, Bar!Crash, OneStep!Crash, Bar!CreatePurchase,
    OneStep!CreatePurchase, Bar!Default, OneStep!Default, Bar!Download,
    OneStep!Download, Bar!DownloadByClaim, OneStep!DownloadByClaim,
    Bar!DownloadByPreimage, OneStep!DownloadByPreimage, Bar!DownloadCancelled,
    OneStep!DownloadCancelled, Bar!DownloadLookup, OneStep!DownloadLookup,
    Bar!DownloadMark, OneStep!DownloadMark, Bar!DownloadNode,
    OneStep!DownloadNode, Bar!DownloadOpen, OneStep!DownloadOpen,
    Bar!EventHandled, OneStep!EventHandled, Bar!EventHandledFails,
    OneStep!EventHandledFails, Bar!EventLoop, OneStep!EventLoop, Bar!EventMark,
    OneStep!EventMark, Bar!FileName, OneStep!FileName, Bar!FileOf,
    OneStep!FileOf, Bar!Finish, OneStep!Finish, Bar!Goto, OneStep!Goto,
    Bar!Idle, OneStep!Idle, Bar!Invoice, OneStep!Invoice, Bar!InvoiceDelivered,
    OneStep!InvoiceDelivered, Bar!InvoiceFails, OneStep!InvoiceFails,
    Bar!InvoiceKinds, OneStep!InvoiceKinds, Bar!InvoiceNode,
    OneStep!InvoiceNode, Bar!InvoiceRead, OneStep!InvoiceRead,
    Bar!InvoiceRecord, OneStep!InvoiceRecord, Bar!MarkPaid, OneStep!MarkPaid,
    Bar!Next, OneStep!Next, Bar!NoUpload, OneStep!NoUpload, Bar!NodeEnds,
    OneStep!NodeEnds, Bar!Open, OneStep!Open, Bar!OpenStore, OneStep!OpenStore,
    Bar!OtherInvoice, OneStep!OtherInvoice, Bar!Payments, OneStep!Payments,
    Bar!Persist, OneStep!Persist, Bar!PopEvent, OneStep!PopEvent, Bar!Proceed,
    OneStep!Proceed, Bar!Process, OneStep!Process, Bar!ProcessEnds,
    OneStep!ProcessEnds, Bar!PurchaseFor, OneStep!PurchaseFor, Bar!Put,
    OneStep!Put, Bar!Receive, OneStep!Receive, Bar!Replies, OneStep!Replies,
    Bar!Request, OneStep!Request, Bar!Settle, OneStep!Settle,
    Bar!SettledOnNode, OneStep!SettledOnNode, Bar!Settles, OneStep!Settles,
    Bar!StartNode, OneStep!StartNode, Bar!Status, OneStep!Status,
    Bar!StatusMark, OneStep!StatusMark, Bar!StatusNode, OneStep!StatusNode,
    Bar!StatusRead, OneStep!StatusRead, Bar!StreamsFrom, OneStep!StreamsFrom,
    Bar!UploadClientGone, OneStep!UploadClientGone, Bar!UploadRegister,
    OneStep!UploadRegister, Bar!UploadWrite, OneStep!UploadWrite,
    Bar!UploadWriteFails, OneStep!UploadWriteFails, Bar!UploadWritten,
    OneStep!UploadWritten, Bar!UpsertProduct, OneStep!UpsertProduct,
    Bar!Writing, OneStep!Writing, Bar!Written, OneStep!Written, Bar!gateVars,
    OneStep!gateVars, Bar!nodeVars, OneStep!nodeVars
<1>3. UNCHANGED Bar!vars <=> UNCHANGED OneStep!vars
  BY DEF Bar!vars, OneStep!vars
<1> QED BY <1>1, <1>2, <1>3

\* SavesAreSteps: to every other handler, to a crash and to the next start, a
\* section that saves by three calls of persist() is one step, for any number
\* of handlers, wherever the calls fail.
THEOREM SavesAreSteps == DiskSpec => ImplementsGate
<1>1. DiskInit => OneStep!Init /\ IndInv
  BY DiskStart, SameGate
<1>2. IndInv /\ [DiskNext]_all => [OneStep!Next]_(OneStep!vars) /\ IndInv'
  BY DiskStep, SameGate
<1> QED BY <1>1, <1>2, PTL DEF DiskSpec, ImplementsGate, OneStep!Spec

LEMMA DiskInductive == DiskSpec => []IndInv
<1>1. IndInv /\ [DiskNext]_all => IndInv'
  BY DiskStep
<1> QED BY <1>1, DiskStart, PTL DEF DiskSpec

LEMMA DiskIsBar == DiskSpec => Bar!Spec
<1>1. IndInv /\ [DiskNext]_all => [Bar!Next]_(Bar!vars)
  BY DiskStep
<1> QED BY <1>1, DiskStart, DiskInductive, PTL DEF DiskSpec, Bar!Spec

\* SaveIsWhole: one section at a time is in persist(), what it renames over
\* index.json is all of memory, and index.json parses at every moment.
THEOREM SaveIsWhole == DiskSpec => []SaveInv
<1>1. IndInv => SaveInv
  BY DEF IndInv
<1> QED BY <1>1, DiskInductive, PTL

\* SoldStaysOnDisk: while saves are under way as well, an invoice handed out has
\* its purchase and its product in index.json.
THEOREM SoldStaysOnDisk == DiskSpec => []SoldIsDurable
<1>1. Bar!Spec => []Bar!SoldIsDurable
  BY Bar!SoldSurvives, DomainAssumption, TornAssumption
     DEF Bar!Product, Product, Bar!Purchase, Purchase
<1>2. Bar!SoldIsDurable => SoldIsDurable
  BY DEF Bar!SoldIsDurable, SoldIsDurable
<1> QED BY <1>1, <1>2, DiskIsBar, PTL

\* FileNeverShrinks: no call of a save, and no crash between two, takes anything
\* out of index.json.
THEOREM FileNeverShrinks == DiskSpec => LedgerMonotone
<1>1. Bar!Spec => Bar!LedgerMonotone
  BY Bar!LedgerNeverShrinks, DomainAssumption, TornAssumption
     DEF Bar!Product, Product, Bar!Purchase, Purchase
<1>2. [Bar!LedgerKept]_(Bar!vars) => [LedgerKept]_vars
  <2>1. Bar!LedgerKept => LedgerKept
    BY DEF Bar!LedgerKept, LedgerKept
  <2>2. UNCHANGED Bar!vars => LedgerKept
    BY DEF Bar!vars, LedgerKept
  <2> QED BY <2>1, <2>2
<1> QED BY <1>1, <1>2, DiskIsBar, PTL DEF Bar!LedgerMonotone, LedgerMonotone

\* ShelfOnDisk: a file that put_product has opened for writing only once is whole
\* also for who looks it up in memory before the save of its record has ended.
THEOREM ShelfOnDisk == DiskSpec => []FirstUploadIntact
<1>1. Bar!Spec => [](Bar!IInv /\ Bar!ShelfInv)
  BY Bar!ShelfHolds, DomainAssumption, TornAssumption
     DEF Bar!Product, Product, Bar!Purchase, Purchase
<1>2. ASSUME IndInv, Bar!ShelfInv PROVE FirstUploadIntact
  <2> USE DEF Bar!FileName, FileName
  <2>0. SaveInv /\ DetailOK
    BY <1>2 DEF IndInv
  <2>1. ASSUME NEW s \in Slugs, NEW p, Bar!Good(s, p), p # None,
               FileName(s, p.format) \notin rewritten
        PROVE  file[FileName(s, p.format)] = p.size_bytes
    BY <2>1 DEF Bar!Good
  <2>2. ASSUME NEW s \in Slugs PROVE Bar!Good(s, disk.products[s]) /\ Bar!Good(s, MemBar.products[s])
    BY <1>2 DEF Bar!ShelfInv
  <2>3. ASSUME NEW s \in Slugs PROVE Bar!Good(s, mem.products[s])
    <3>1. CASE step \notin Saving
      BY <2>2, <3>1 DEF MemBar
    <3>2. CASE step \in Saving /\ ~UploadSaves(job.of)
      <4>1. mem.products = before.products
        BY <2>0, <3>2, JobKinds DEF SaveInv, Saving, Changed, LoopSaves, TaskSaves,
           SaveTypeOK, Persisted
      <4> QED BY <2>2, <3>2, <4>1 DEF MemBar
    <3>3. CASE step \in Saving /\ UploadSaves(job.of)
      <4> DEFINE u == job.of
      <4>1. /\ u \in Uploaders /\ upload[u].pc = "written" /\ UploadBar = upload
            /\ mem = [before EXCEPT !.products[upload[u].slug] = upload[u].record]
        BY <2>0, <3>3, JobKinds, Waits
           DEF UploadSaves, LoopSaves, TaskSaves, UploadBar, Saving, SaveInv, Changed
      <4>2. Bar!Good(upload[u].slug, upload[u].record)
        BY <1>2, <4>1 DEF Bar!ShelfInv, Bar!WriterOK, Bar!FileOf, Bar!Good
      <4>3. before.products \in [Slugs -> Product \cup {None}]
            /\ before \in Persisted
        BY <2>0 DEF SaveInv, SaveTypeOK, Persisted
      <4>4. mem.products[s] = IF s = upload[u].slug THEN upload[u].record
                              ELSE before.products[s]
        BY <4>1, <4>3 DEF Persisted
      <4>5. Bar!Good(s, before.products[s])
        BY <2>2, <3>3 DEF MemBar
      <4> QED BY <4>2, <4>4, <4>5
    <3> QED BY <3>1, <3>2, <3>3
  <2>4. ASSUME NEW w \in Tasks, task[w].pc = "stream",
               FileName(task[w].slug, task[w].listing.format) \notin rewritten
        PROVE  task[w].body = task[w].listing.size_bytes
    <3>1. TaskBar[w] = task[w]
      BY <2>0, <2>4, Waits, Elsewhere
    <3> QED BY <1>2, <2>4, <3>1 DEF Bar!ShelfInv, Bar!ListingOK
  <2> QED BY <2>1, <2>2, <2>3, <2>4 DEF FirstUploadIntact, At
<1> QED BY <1>1, <1>2, DiskIsBar, DiskInductive, PTL

-----------------------------------------------------------------------------
(* What others read in memory before the save has ended.                   *)

\* What a section makes of the maps: everything they had is still there, and
\* what is paid that was not is settled.
LEMMA MemoryGrows ==
    ASSUME IndInv, step \in Saving, NEW h \in Hashes
    PROVE  /\ before.purchases[h] # None =>
                /\ mem.purchases[h] # None
                /\ mem.purchases[h].slug = before.purchases[h].slug
                /\ before.purchases[h].paid => mem.purchases[h].paid
           /\ mem.purchases[h] # None /\ mem.purchases[h].paid =>
                \/ before.purchases[h] # None /\ before.purchases[h].paid
                \/ h \in settled /\ before.purchases[h] # None
<1>1. /\ MemBar = before /\ TaskBar = task /\ LoopBar = loop /\ SaveInv /\ DetailOK
      /\ job # None /\ before \in Persisted /\ mem = Changed(before, job)
      /\ ~Unchanged(before, job) /\ Bar!IInv /\ job \in Jobs
  BY Elsewhere, JobKinds DEF IndInv, SaveInv, SaveTypeOK, Saving, MemBar
<1>2. ASSUME NEW g \in Hashes, g \in settled, before.purchases[g] # None,
             mem = [before EXCEPT !.purchases[g].paid = TRUE]
      PROVE  /\ before.purchases[h] # None =>
                  /\ mem.purchases[h] # None
                  /\ mem.purchases[h].slug = before.purchases[h].slug
                  /\ before.purchases[h].paid => mem.purchases[h].paid
             /\ mem.purchases[h] # None /\ mem.purchases[h].paid =>
                  \/ before.purchases[h] # None /\ before.purchases[h].paid
                  \/ h \in settled /\ before.purchases[h] # None
  <2>1. before.purchases[g] \in Purchase
    BY <1>1, <1>2 DEF Persisted
  <2>2. mem.purchases[g] = [before.purchases[g] EXCEPT !.paid = TRUE]
    BY <1>1, <1>2 DEF Persisted
  <2>3. /\ mem.purchases[g] \in Purchase
        /\ mem.purchases[g].slug = before.purchases[g].slug
        /\ mem.purchases[g].paid = TRUE
    BY <2>1, <2>2 DEF Purchase
  <2>4. mem.purchases[g] # None
    BY <2>3, DomainAssumption
  <2>5. h # g => mem.purchases[h] = before.purchases[h]
    BY <1>1, <1>2 DEF Persisted
  <2> QED BY <1>2, <2>3, <2>4, <2>5
<1>3. CASE job.by = "event"
  <2>1. loop = "wait" /\ queue # <<>> /\ queue \in Seq(Hashes)
    BY <1>1, <1>3 DEF SaveInv, Ready, Bar!IInv, Bar!TypeOK, Bar!NodeTypeOK
  <2>2. Head(queue) \in Hashes /\ Head(queue) \in settled
    BY <1>1, <2>1 DEF Bar!IInv, Bar!NodeSound
  <2>3. before.purchases[Head(queue)] # None
    BY <1>1, <1>3 DEF Unchanged, MarkedHash
  <2> QED BY <1>1, <1>2, <1>3, <2>2, <2>3 DEF Changed, MarkedHash
<1>4. CASE job.by \in {"status", "download"}
  <2> DEFINE w == job.of
  <2>1. w \in Tasks /\ task[w].pc \in {"st_mark", "dl_mark"}
    BY <1>1, <1>4 DEF SaveInv, Jobs, Ready, At
  <2>2. task[w].hash \in Hashes /\ task[w].hash \in settled
    BY <1>1, <2>1 DEF Bar!IInv, Bar!RequestSound, Bar!RequestOK, Bar!Asking
  <2>3. before.purchases[task[w].hash] # None
    BY <1>1, <1>4 DEF Unchanged, MarkedHash
  <2> QED BY <1>1, <1>2, <1>4, <2>2, <2>3 DEF Changed, MarkedHash
<1>5. CASE job.by = "record"
  <2> DEFINE r == task[job.of]
  <2>1. job.of \in Tasks /\ r.pc = "inv_record"
    BY <1>1, <1>5 DEF SaveInv, Jobs, Ready, At
  <2>2. r.hash \in Hashes /\ before.purchases[r.hash] = None
    BY <1>1, <2>1 DEF Bar!IInv, Bar!InvoiceOwned, Bar!InvoiceOK, Bar!Owning
  <2>3. /\ mem.purchases[r.hash].paid = FALSE
        /\ h # r.hash => mem.purchases[h] = before.purchases[h]
    BY <1>1, <1>5, <2>2 DEF Changed, Persisted
  <2> QED BY <2>2, <2>3
<1>6. CASE job.by = "upload"
  <2>1. mem.purchases = before.purchases
    BY <1>1, <1>6 DEF Changed, Persisted
  <2> QED BY <2>1
<1> QED BY <1>1, <1>3, <1>4, <1>5, <1>6 DEF Jobs

\* SoundOnDisk: nobody is marked paid who has not paid for that product, in
\* index.json or in memory, not even while the save of the mark is under way.
THEOREM SoundOnDisk == DiskSpec => []LedgerSound
<1>1. Bar!Spec => []Bar!LedgerSound
  BY Bar!LedgerIsSound, DomainAssumption, TornAssumption
     DEF Bar!Product, Product, Bar!Purchase, Purchase
<1>2. ASSUME IndInv, Bar!LedgerSound PROVE LedgerSound
  <2>1. ASSUME NEW h \in Hashes, disk.purchases[h] # None, disk.purchases[h].paid
        PROVE  Entitled(disk.purchases[h].slug, h)
    BY <1>2, <2>1 DEF Bar!LedgerSound, Bar!Entitled, Entitled
  <2>2. ASSUME NEW h \in Hashes, mem.purchases[h] # None, mem.purchases[h].paid
        PROVE  Entitled(mem.purchases[h].slug, h)
    <3>1. CASE step \notin Saving
      BY <1>2, <2>2, <3>1 DEF MemBar, Bar!LedgerSound, Bar!Entitled, Entitled
    <3>2. CASE step \in Saving
      <4>1. /\ before.purchases[h] # None
            /\ mem.purchases[h].slug = before.purchases[h].slug
            /\ h \in settled \/ before.purchases[h].paid
        BY <1>2, <2>2, <3>2, MemoryGrows
      <4>2. MemBar = before
        BY <3>2 DEF MemBar
      <4>3. bill[h] = before.purchases[h].slug /\ h \in settled
        <5>1. before.purchases[h].paid => h \in settled
          BY <1>2, <4>1, <4>2 DEF IndInv, Bar!IInv, Bar!PaidSettled
        <5>2. h \in settled
          BY <4>1, <5>1
        <5>3. bill[h] # None /\ bill[h] # Other /\ bill[h] \in Slugs \cup {None, Other}
          BY <1>2, <4>1, <4>2, <5>2
             DEF IndInv, Bar!IInv, Bar!NodeSound, Bar!PurchaseInvoiced, Bar!TypeOK,
                 Bar!NodeTypeOK
        <5>4. bill[h] \in Slugs => bill[h] = before.purchases[h].slug
          BY <1>2, <4>1, <4>2 DEF IndInv, Bar!IInv, Bar!PurchaseInvoiced
        <5> QED BY <5>2, <5>3, <5>4
      <4> QED BY <4>1, <4>3 DEF Entitled
    <3> QED BY <3>1, <3>2
  <2> QED BY <2>1, <2>2 DEF LedgerSound
<1> QED BY <1>1, <1>2, DiskIsBar, DiskInductive, PTL

\* PayersOnDisk: only who has paid is told so or served.
THEOREM PayersOnDisk == DiskSpec => []NoGoodsUnpaid
<1>1. ASSUME IndInv PROVE NoGoodsUnpaid
  <2>1. Bar!NoGoodsUnpaid
    <3>1. Bar!IInv => Bar!NoGoodsUnpaid
      BY Bar!PayersOnly, DomainAssumption, TornAssumption
         DEF Bar!Product, Product, Bar!Purchase, Purchase
    <3> QED BY <1>1, <3>1 DEF IndInv
  <2>2. ASSUME NEW w \in Tasks, task[w].pc \in {"paid", "stream"}
        PROVE  TaskBar[w] = task[w]
    BY <1>1, <2>2, Waits, Elsewhere DEF IndInv
  <2> QED BY <2>1, <2>2 DEF NoGoodsUnpaid, Entitled, Bar!NoGoodsUnpaid, Bar!Entitled
<1> QED BY <1>1, DiskInductive, PTL

\* RecordedOnDisk: an event is acknowledged only after memory calls its purchase
\* paid, also when another section is saving at that time.
THEOREM RecordedOnDisk == DiskSpec => []HandledIsRecorded
<1>1. Bar!Spec => []Bar!HandledIsRecorded
  BY Bar!AcknowledgedIsRecorded, DomainAssumption, TornAssumption
     DEF Bar!Product, Product, Bar!Purchase, Purchase
<1>2. ASSUME IndInv, Bar!HandledIsRecorded, loop = "marked", bill[Head(queue)] \in Slugs
      PROVE  mem.purchases[Head(queue)] # None /\ mem.purchases[Head(queue)].paid
  <2>1. LoopBar = loop
    BY <1>2, Waits, Elsewhere DEF IndInv
  <2>2. MemBar.purchases[Head(queue)] # None /\ MemBar.purchases[Head(queue)].paid
    BY <1>2, <2>1 DEF Bar!HandledIsRecorded
  <2>3. queue # <<>> /\ queue \in Seq(Hashes)
    BY <1>2, <2>1 DEF IndInv, Bar!IInv, Bar!NodeSound, Bar!TypeOK, Bar!NodeTypeOK
  <2>4. Head(queue) \in Hashes
    BY <2>3
  <2>5. CASE step \in Saving
    BY <1>2, <2>2, <2>4, <2>5, MemoryGrows DEF MemBar
  <2>6. CASE step \notin Saving
    BY <2>2, <2>6 DEF MemBar
  <2> QED BY <2>5, <2>6
<1>3. IndInv /\ Bar!HandledIsRecorded => HandledIsRecorded
  BY <1>2 DEF HandledIsRecorded
<1> QED BY <1>1, <1>3, DiskIsBar, DiskInductive, PTL

-----------------------------------------------------------------------------
(* The contract with the buyers.                                           *)

\* get_status has saved, and is about to say so.
Telling == step = "return" /\ job.by = "status"

\* What buyers see is what the mapping shows, but for an answer not yet given.
DeskMapped ==
    /\ ~Telling => Desk = Bar!Desk
    /\ Telling =>
         /\ job.of \in Tasks /\ TaskSaves(job.of)
         /\ Bar!Desk[job.of] = [slug |-> task[job.of].slug,
                                hash |-> task[job.of].hash, answer |-> "granted"]
         /\ Desk = [Bar!Desk EXCEPT ![job.of] =
                      [slug |-> task[job.of].slug,
                       hash |-> task[job.of].hash, answer |-> "open"]]

LEMMA DeskSeen == IndInv => DeskMapped
<1> SUFFICES ASSUME IndInv PROVE DeskMapped
  OBVIOUS
<1> USE DEF Desk, Bar!Desk, DeskOf, Bar!DeskOf, AnswerAt, Bar!AnswerAt, Granting,
            Bar!Granting, Refusing, Bar!Refusing, Asking, Bar!Asking
<1>0. SaveInv /\ DetailOK /\ task \in [Tasks -> Task]
  BY DEF IndInv, DetailOK
<1>1. ASSUME NEW w \in Tasks, ~TaskSaves(w) \/ step # "return"
      PROVE  Bar!Desk[w] = Desk[w]
  BY <1>0, <1>1, Elsewhere
<1>2. ASSUME NEW w \in Tasks, TaskSaves(w), step = "return", job.by # "status"
      PROVE  Bar!Desk[w] = Desk[w]
  <2>1. PICK pc, next : /\ task[w].pc = pc /\ TaskBar = [task EXCEPT ![w].pc = next]
                        /\ \/ pc = "inv_record" /\ next = "inv_reply"
                           \/ pc = "dl_mark" /\ next = "dl_open"
    BY <1>0, <1>2, Waits, TaskBarOfSaver DEF TaskSaves
  <2>2. TaskBar[w].pc = next /\ TaskBar[w].slug = task[w].slug /\ TaskBar[w].hash = task[w].hash
    BY <1>0, <2>1 DEF Task
  <2> QED BY <2>1, <2>2
<1>3. CASE ~Telling
  <2>1. \A w \in Tasks : Bar!Desk[w] = Desk[w]
    BY <1>1, <1>2, <1>3 DEF Telling
  <2> QED BY <1>3, <2>1 DEF DeskMapped
<1>4. CASE Telling
  <2>1. job.of \in Tasks /\ TaskSaves(job.of) /\ step = "return" /\ job.by = "status"
    BY <1>0, <1>4, JobKinds DEF Telling, SaveInv, LoopSaves, TaskSaves, UploadSaves
  <2>2. TaskBar = [task EXCEPT ![job.of].pc = "paid"] /\ task[job.of].pc = "st_mark"
    BY <1>0, <2>1, Waits, TaskBarOfSaver
  <2>3. /\ TaskBar[job.of].pc = "paid" /\ TaskBar[job.of].slug = task[job.of].slug
        /\ TaskBar[job.of].hash = task[job.of].hash
    BY <1>0, <2>1, <2>2 DEF Task
  <2>4. \A w \in Tasks \ {job.of} : Bar!Desk[w] = Desk[w]
    BY <1>1, <2>1 DEF TaskSaves
  <2> QED BY <1>4, <2>1, <2>2, <2>3, <2>4 DEF DeskMapped
<1> QED BY <1>3, <1>4

LEMMA DeskSeenNext == (IndInv => DeskMapped)'
BY DeskSeen, PTL

\* A step of the contract is one as well with an answer given that is held back.
LEMMA AnswerHeldBack ==
    ASSUME IndInv, IndInv', Bar!Promise, Telling, Telling', job' = job,
           task'[job.of] = task[job.of]
    PROVE  [Contract!Next]_<<bill, settled, Desk>>
<1> DEFINE w == job.of
           granted == [slug |-> task[w].slug, hash |-> task[w].hash, answer |-> "granted"]
           open == [slug |-> task[w].slug, hash |-> task[w].hash, answer |-> "open"]
<1>1. /\ w \in Tasks /\ Bar!Desk[w] = granted /\ Bar!Desk'[w] = granted
      /\ Desk = [Bar!Desk EXCEPT ![w] = open]
      /\ Desk' = [Bar!Desk' EXCEPT ![w] = open]
  BY DeskSeen, DeskSeenNext DEF DeskMapped
<1>2. granted.answer = "granted" /\ granted # Contract!Closed
  BY DEF Contract!Closed
<1>3. /\ DOMAIN Bar!Desk = Tasks /\ DOMAIN Bar!Desk' = Tasks
      /\ \A d \in Tasks \ {w} : Desk[d] = Bar!Desk[d] /\ Desk'[d] = Bar!Desk'[d]
      /\ Desk[w] = open /\ Desk'[w] = open
      /\ Desk = [d \in Tasks |-> Desk[d]] /\ Desk' = [d \in Tasks |-> Desk'[d]]
  BY <1>1 DEF Bar!Desk, Desk
<1> HIDE DEF granted, open, w
<1>4. CASE UNCHANGED <<bill, settled, Bar!Desk>>
  BY <1>1, <1>4
<1>5. ASSUME NEW h \in Hashes, Bar!Contract!Issue(h) PROVE Contract!Next
  BY <1>1, <1>5 DEF Bar!Contract!Issue, Contract!Issue, Contract!Next
<1>6. ASSUME NEW h \in Hashes, Bar!Contract!Settle(h) PROVE Contract!Next
  BY <1>1, <1>6 DEF Bar!Contract!Settle, Contract!Settle, Contract!Next
<1> USE DEF Bar!Contract!Verdict, Contract!Verdict, Bar!Contract!Entitled,
            Contract!Entitled, Bar!Contract!Closed, Contract!Closed,
            Bar!Contract!Question, Contract!Question
<1>7. ASSUME NEW d \in Tasks, Bar!Contract!Answer(d) PROVE Contract!Next
  <2>1. /\ d # w /\ Desk[d] = Bar!Desk[d]
        /\ Bar!Desk[d].answer = "open" /\ UNCHANGED <<bill, settled>>
        /\ Bar!Desk' = [Bar!Desk EXCEPT ![d].answer =
                          Contract!Verdict(Bar!Desk[d].slug, Bar!Desk[d].hash)]
    BY <1>1, <1>2, <1>3, <1>7 DEF Bar!Contract!Answer
  <2>2. Desk' = [Desk EXCEPT ![d].answer = Contract!Verdict(Desk[d].slug, Desk[d].hash)]
    BY <1>1, <1>3, <2>1
  <2>3. Contract!Answer(d)
    BY <2>1, <2>2 DEF Contract!Answer
  <2> QED BY <2>3 DEF Contract!Next
<1>8. ASSUME NEW d \in Tasks, NEW slug \in Slugs, NEW h \in Hashes,
             Bar!Contract!Ask(d, slug, h)
      PROVE  Contract!Next
  <2>1. PICK answer \in {"open", Contract!Verdict(slug, h)} :
          /\ Bar!Desk[d] = Contract!Closed /\ UNCHANGED <<bill, settled>>
          /\ Bar!Desk' = [Bar!Desk EXCEPT ![d] = Contract!Question(slug, h, answer)]
    BY <1>8 DEF Bar!Contract!Ask
  <2>2. d # w /\ Desk[d] = Bar!Desk[d]
    BY <1>1, <1>2, <1>3, <2>1
  <2>3. Desk' = [Desk EXCEPT ![d] = Contract!Question(slug, h, answer)]
    BY <1>1, <1>3, <2>1, <2>2
  <2>4. Contract!Ask(d, slug, h)
    BY <2>1, <2>2, <2>3 DEF Contract!Ask
  <2> QED BY <2>4 DEF Contract!Next
<1>9. ASSUME NEW D \in SUBSET Tasks, Bar!Contract!Leave(D) PROVE Contract!Next
  <2>1. /\ Bar!Desk' = [d \in Tasks |-> IF d \in D THEN Contract!Closed ELSE Bar!Desk[d]]
        /\ UNCHANGED <<bill, settled>>
    BY <1>9 DEF Bar!Contract!Leave
  <2>2. w \notin D
    BY <1>1, <1>2, <2>1
  <2>3. Desk' = [d \in Tasks |-> IF d \in D THEN Contract!Closed ELSE Desk[d]]
    BY <1>1, <1>3, <2>1, <2>2
  <2>4. Contract!Leave(D)
    BY <2>1, <2>3 DEF Contract!Leave
  <2> QED BY <2>4 DEF Contract!Next
<1> QED BY <1>4, <1>5, <1>6, <1>7, <1>8, <1>9 DEF Bar!Promise, Bar!Contract!Next

\* get_status says "paid" to one who has.
LEMMA TellsTheTruth ==
    ASSUME IndInv, Telling
    PROVE  Contract!Verdict(task[job.of].slug, task[job.of].hash) = "granted"
<1>1. /\ job.of \in Tasks /\ TaskSaves(job.of)
      /\ TaskBar = [task EXCEPT ![job.of].pc = "paid"]
  BY DeskSeen, TaskBarOfSaver DEF IndInv, Telling, DeskMapped
<1>2. /\ TaskBar[job.of].pc = "paid" /\ TaskBar[job.of].slug = task[job.of].slug
      /\ TaskBar[job.of].hash = task[job.of].hash
  BY <1>1 DEF IndInv, DetailOK, Task
<1>3. Bar!IInv => Bar!NoGoodsUnpaid
  BY Bar!PayersOnly, DomainAssumption, TornAssumption
     DEF Bar!Product, Product, Bar!Purchase, Purchase
<1> QED BY <1>1, <1>2, <1>3 DEF IndInv, Bar!NoGoodsUnpaid, Bar!Entitled,
           Contract!Verdict, Contract!Entitled

\* Nobody else moves the request that saves.
LEMMA SaverStays ==
    ASSUME IndInv, Others, NEW w \in Tasks, TaskSaves(w)
    PROVE  task'[w] = task[w]
<1>1. /\ task[w].pc \in {"inv_record", "st_mark", "dl_mark"}
      /\ task[w].pc = "inv_record" => Saves("record", w)
      /\ ~MutexFree /\ task \in [Tasks -> Task]
  BY Waits, JobKinds DEF IndInv, TaskSaves, MutexFree, DetailOK, Jobs, Saves
<1>2. UNCHANGED <<step, job>>
  BY DEF Others, saveVars
<1>3. ASSUME NEW v \in Tasks, Unlocked(v) PROVE task'[w] = task[w]
  <2>1. PICK r : task' = [task EXCEPT ![v] = r]
    BY <1>3 DEF Unlocked, InvoiceNode, InvoiceFails, InvoiceDelivered, StatusNode,
       DownloadByPreimage, DownloadNode, DownloadOpen, DownloadCancelled, Finish,
       Goto, Request, Proceed
  <2>2. v # w
    BY <1>1, <1>3 DEF Unlocked, InvoiceNode, InvoiceFails, InvoiceDelivered, StatusNode,
       DownloadByPreimage, DownloadNode, DownloadOpen, DownloadCancelled, Finish,
       At, Replies, Saves, TaskSaves
  <2> QED BY <1>1, <2>1, <2>2
<1>4. ASSUME NEW u \in Uploaders, Artist(u) PROVE task'[w] = task[w]
  <2>1. ASSUME NEW slug, NEW format, NEW artifact, UploadWrite(u, slug, format, artifact)
        PROVE  task'[w] = task[w]
    BY <1>2, <2>1, StreamsTear DEF UploadWrite, IndInv
  <2> QED BY <1>4, <2>1 DEF Artist, UploadWritten, UploadWriteFails, UploadClientGone
<1> QED BY <1>1, <1>3, <1>4 DEF Others, Locked, StartNode, Opens, OpenStore, Payments,
           Settle, Announce, OtherInvoice, EventHandled, gateVars

LEMMA DeskDomain == DOMAIN Bar!Desk = Tasks
BY DEF Bar!Desk

LEMMA DiskContract ==
    ASSUME IndInv, [DiskNext]_all
    PROVE  [Contract!Next]_<<bill, settled, Desk>>
<1>1. [Bar!Next]_(Bar!vars) /\ IndInv'
  BY DiskStep
<1>2. Bar!Promise
  <2>1. Bar!IInv /\ [Bar!Next]_(Bar!vars) => Bar!Promise
    BY Bar!NextContract, DomainAssumption, TornAssumption
       DEF Bar!Product, Product, Bar!Purchase, Purchase
  <2> QED BY <1>1, <2>1 DEF IndInv
<1>3. CASE ~Telling /\ ~Telling'
  <2>1. Desk = Bar!Desk /\ Desk' = Bar!Desk'
    BY <1>1, <1>3, DeskSeen, DeskSeenNext DEF DeskMapped
  <2>2. Bar!Contract!Next => Contract!Next
    BY <2>1 DEF Bar!Contract!Next, Contract!Next, Bar!Contract!Issue, Contract!Issue,
       Bar!Contract!Settle, Contract!Settle, Bar!Contract!Answer, Contract!Answer,
       Bar!Contract!Ask, Contract!Ask, Bar!Contract!Leave, Contract!Leave,
       Bar!Contract!Verdict, Contract!Verdict, Bar!Contract!Entitled, Contract!Entitled,
       Bar!Contract!Closed, Contract!Closed, Bar!Contract!Question, Contract!Question
  <2> QED BY <1>2, <2>1, <2>2 DEF Bar!Promise
<1>4. CASE ~Telling /\ Telling'
  <2>1. Rename
    BY <1>4 DEF Telling, DiskNext, Take, Skip, Create, Fill, Saved, Releases, SaveFails,
       EndsSaving, Others, saveVars, Calls, all
  <2> QED BY <2>1 DEF Rename, Calls, nodeVars, gateVars, Desk
<1>5. CASE Telling /\ ~Telling'
  <2>1. Saved \/ EndsSaving
    BY <1>5 DEF Telling, DiskNext, Take, Skip, Create, Fill, Rename, SaveFails,
       EndsSaving, Others, saveVars, Calls, all, MutexFree, Saving, IndInv, SaveInv
  <2>2. CASE EndsSaving
    <3>1. task' = [w \in Tasks |-> Idle] /\ UNCHANGED <<bill, settled>>
      BY <2>2 DEF EndsSaving, Crash, EventHandledFails, ProcessEnds, NodeEnds
    <3>2. Desk' = [d \in Tasks |-> IF d \in Tasks THEN Contract!Closed ELSE Desk[d]]
      BY <3>1 DEF Desk, DeskOf, AnswerAt, Idle, Granting, Refusing, Asking, Contract!Closed
    <3>3. Contract!Leave(Tasks)
      BY <3>1, <3>2 DEF Contract!Leave
    <3> QED BY <3>3 DEF Contract!Next
  <2>3. CASE Saved
    <3>1. UNCHANGED Bar!vars
      BY <2>3, SavedStep
    <3>2. Bar!Desk' = Bar!Desk /\ UNCHANGED <<bill, settled>>
      BY <3>1 DEF Bar!vars, Bar!Desk
    <3>3. /\ job.of \in Tasks /\ Desk' = Bar!Desk
          /\ Bar!Desk[job.of] = [slug |-> task[job.of].slug,
                                 hash |-> task[job.of].hash, answer |-> "granted"]
          /\ Desk = [Bar!Desk EXCEPT ![job.of] = [slug |-> task[job.of].slug,
                                 hash |-> task[job.of].hash, answer |-> "open"]]
          /\ DOMAIN Bar!Desk = Tasks
      BY <1>1, <1>5, <3>2, DeskSeen, DeskSeenNext, DeskDomain DEF DeskMapped
    <3>4. Contract!Verdict(task[job.of].slug, task[job.of].hash) = "granted"
      BY <1>5, TellsTheTruth
    <3> DEFINE v == job.of
               asked == [slug |-> task[v].slug, hash |-> task[v].hash, answer |-> "open"]
               told  == [slug |-> task[v].slug, hash |-> task[v].hash, answer |-> "granted"]
    <3>5. Desk[v] = asked
      BY <3>3
    <3>6. [Desk[v] EXCEPT !.answer = "granted"] = told
      BY <3>5
    <3>7. Desk' = [Desk EXCEPT ![v] = told]
      <4>1. Bar!Desk = [d \in Tasks |-> Bar!Desk[d]]
        BY DEF Bar!Desk
      <4>2. Desk = [d \in Tasks |-> IF d = v THEN asked ELSE Bar!Desk[d]]
        BY <3>3, <4>1
      <4>3. Desk' = [d \in Tasks |-> IF d = v THEN told ELSE Bar!Desk[d]]
        BY <3>3, <4>1
      <4> HIDE DEF asked, told
      <4> QED BY <3>3, <4>2, <4>3
    <3>8. Desk' = [Desk EXCEPT ![v].answer = "granted"]
      BY <3>6, <3>7
    <3>9. Contract!Verdict(Desk[v].slug, Desk[v].hash) = "granted"
      BY <3>4, <3>5
    <3>10. Desk[v].answer = "open"
      BY <3>5
    <3> HIDE DEF v
    <3>11. Contract!Answer(v)
      BY <3>2, <3>8, <3>9, <3>10 DEF Contract!Answer
    <3> QED BY <3>3, <3>11 DEF v, Contract!Next
  <2> QED BY <2>1, <2>2, <2>3
<1>6. CASE Telling /\ Telling'
  <2>1. UNCHANGED <<tmp, job, step, before>>
    BY <1>6 DEF Telling, DiskNext, Take, Skip, Create, Fill, Rename, Saved, Releases,
       SaveFails, EndsSaving, Others, saveVars, Calls, all, MutexFree, Saving, IndInv,
       SaveInv
  <2>2. job.of \in Tasks /\ TaskSaves(job.of)
    BY <1>6, DeskSeen DEF DeskMapped
  <2>3. task'[job.of] = task[job.of]
    <3>1. CASE Others
      BY <2>2, <3>1, SaverStays
    <3>2. CASE UNCHANGED all
      BY <3>2 DEF all, vars
    <3> QED BY <1>6, <2>1, <3>1, <3>2 DEF Telling, DiskNext, Take, Skip, Create, Fill,
               Rename, Saved, Releases, SaveFails, EndsSaving, Calls, MutexFree, Saving,
               IndInv, SaveInv
  <2> QED BY <1>1, <1>2, <1>6, <2>1, <2>3, AnswerHeldBack
<1> QED BY <1>3, <1>4, <1>5, <1>6

\* HonouredOnDisk: the gate over its file implements the contract with the
\* buyers, whichever call of a save fails and wherever the process ends between
\* two: get_status, whose verdict is open until its save has returned, then gives
\* the one the ledger owes.
THEOREM HonouredOnDisk == DiskSpec => KeepsContract
<1>1. DiskInit => Contract!Init
  BY DEF DiskInit, Init, NodeInit, Desk, DeskOf, AnswerAt, Idle, Granting, Refusing,
     Asking, Contract!Init, Contract!Closed
<1>2. IndInv /\ [DiskNext]_all => [Contract!Next]_<<bill, settled, Desk>>
  BY DiskContract
<1> QED BY <1>1, <1>2, DiskInductive, PTL DEF DiskSpec, KeepsContract, Contract!Spec
=============================================================================

-------------------------------- MODULE Gate --------------------------------
(***************************************************************************)
(* The purchase gate (src/src/gate.rs) with the event loop that settles    *)
(* purchases (run_event_loop in src/src/main.rs), over the store and the   *)
(* embedded node.                                                          *)
(*                                                                         *)
(* Handlers run concurrently on a multi-threaded runtime.  A step below is *)
(* the code between two points where another task can be seen: one section *)
(* under the store's Mutex, one call into the node, or one await on the    *)
(* file system.  A Task is a slot for one request of a buyer, an Uploader  *)
(* one for a PUT of the artist, with the write its blocking thread does.   *)
(***************************************************************************)
EXTENDS Store, LdkNode

CONSTANTS Tasks,      \* concurrent requests of buyers
          Uploaders,  \* concurrent uploads
          Torn        \* file contents that are no artifact: a partial write

ASSUME TornAssumption == Torn \notin Artifacts \cup {None}

VARIABLES proc,       \* "down", "node" (started, store not open), "serving"
          loop,       \* event loop: "wait" for an event, "marked" it
          task,       \* one record per buyer's request
          upload,     \* one record per upload
          file,       \* contents of each file of the products directory
          rewritten   \* history: files opened for writing more than once

gateVars == <<task, upload, file, rewritten>>
vars == <<mem, disk, kind, settled, pending, queue, bill,
          proc, loop, task, upload, file, rewritten>>

Files == Slugs \X Formats
FileName(slug, format) == <<slug, format>>

\* Where a buyer's request is: the section it runs next, or the reply it is
\* sending.  "stream" is the reply of a download, which is still reading.
Replies == {"inv_reply", "paid", "unpaid", "missing", "lost", "stream"}
Sections == {"inv_node", "inv_record", "st_node", "st_mark",
             "dl_lookup", "dl_node", "dl_mark", "dl_open"}

Idle == [pc |-> "idle", slug |-> None, hash |-> None,
         listing |-> None, body |-> None]
NoUpload == [pc |-> "idle", slug |-> None, record |-> None, alone |-> TRUE]

Task == [pc : Sections \cup Replies \cup {"idle"},
         slug : Slugs \cup {None},
         hash : Hashes \cup {None},
         listing : Product \cup {None},   \* the record read under the lock
         body : Artifacts \cup {None, Torn}]

Upload == [pc : {"idle", "writing", "written", "orphan"},
           slug : Slugs \cup {None},
           record : Product \cup {None},
           alone : BOOLEAN]               \* no other write overlapped it

GateTypeOK ==
    /\ proc \in {"down", "node", "serving"}
    /\ loop \in {"down", "wait", "marked"}
    /\ task \in [Tasks -> Task]
    /\ upload \in [Uploaders -> Upload]
    /\ file \in [Files -> Artifacts \cup {None, Torn}]
    /\ rewritten \in SUBSET Files

TypeOK == StoreTypeOK /\ NodeTypeOK /\ GateTypeOK

Init ==
    /\ StoreInit /\ NodeInit
    /\ proc = "down" /\ loop = "down"
    /\ task = [w \in Tasks |-> Idle]
    /\ upload = [u \in Uploaders |-> NoUpload]
    /\ file = [f \in Files |-> None]
    /\ rewritten = {}

-----------------------------------------------------------------------------
(* Process life (main.rs): the node runs before the store is opened.       *)

StartNode ==
    /\ proc = "down"
    /\ proc' = "node"
    /\ UNCHANGED <<mem, disk, nodeVars, loop, gateVars>>

OpenStore ==
    /\ proc = "node"
    /\ Open
    /\ proc' = "serving" /\ loop' = "wait"
    /\ UNCHANGED <<nodeVars, gateVars>>

\* Memory, requests and writes in progress are gone.  A graceful exit first
\* lets the blocking writes end: that is ClientGone for each upload, then this.
ProcessEnds ==
    /\ proc' = "down" /\ loop' = "down"
    /\ mem' = Default
    /\ task' = [w \in Tasks |-> Idle]
    /\ upload' = [u \in Uploaders |-> NoUpload]
    /\ NodeEnds
    /\ UNCHANGED <<disk, file, rewritten>>

Crash == proc # "down" /\ ProcessEnds

-----------------------------------------------------------------------------
(* The node and its payers.                                                *)

Settle(h) ==
    /\ proc # "down"
    /\ Settles(h)
    /\ UNCHANGED <<mem, disk, proc, loop, gateVars>>

Announce(h) ==
    /\ proc # "down"
    /\ Announces(h)
    /\ UNCHANGED <<mem, disk, proc, loop, gateVars>>

\* GET /invoice and the LNURL-pay callback bill a payer without a purchase.
OtherInvoice(h) ==
    /\ proc = "serving"
    /\ \E k \in InvoiceKinds : Receive(h, k)
    /\ Bill(h, Other)
    /\ UNCHANGED <<settled, pending, queue, mem, disk, proc, loop, gateVars>>

-----------------------------------------------------------------------------
(* Event loop: the event stays at the head of the queue until it has been  *)
(* handled, and an error of event_handled() ends the loop, so the process. *)

EventMark(ok) ==
    /\ loop = "wait" /\ queue # <<>>
    /\ MarkPaid(Head(queue), ok)
    /\ loop' = "marked"
    /\ UNCHANGED <<nodeVars, proc, gateVars>>

EventHandled ==
    /\ loop = "marked"
    /\ PopEvent
    /\ loop' = "wait"
    /\ UNCHANGED <<mem, disk, proc, gateVars>>

\* Mutant of EventHandledFails: nobody waits for the loop to end.
LoopDies == /\ loop = "marked"
            /\ loop' = "down"
            /\ UNCHANGED <<mem, disk, nodeVars, proc, gateVars>>

EventHandledFails == loop = "marked" /\ ProcessEnds

-----------------------------------------------------------------------------
(* Requests of buyers.                                                     *)

Proceed(w, rec) ==
    /\ task' = [task EXCEPT ![w] = rec]
    /\ UNCHANGED <<upload, file, rewritten, proc, loop>>

Goto(w, pc) == Proceed(w, [task[w] EXCEPT !.pc = pc])

Request(w, pc, slug, hash) ==
    Proceed(w, [pc |-> pc, slug |-> slug, hash |-> hash,
                listing |-> None, body |-> None])

At(w, pc) == task[w].pc = pc

\* Mutant of SettledOnNode: payments over a just-in-time channel are missed.
SettledPlainOnly(h) == kind[h] = "Bolt11" /\ h \in settled

\* settled_on_node: both kinds an invoice of this daemon can have.
SettledOnNode(h) == kind[h] \in {"Bolt11", "Bolt11Jit"} /\ h \in settled

\* POST /products/{slug}/invoice.  Requests refused at once change nothing.
InvoiceRead(w, slug) ==
    /\ proc = "serving" /\ At(w, "idle")
    /\ mem.products[slug] # None
    /\ Request(w, "inv_node", slug, None)
    /\ UNCHANGED <<mem, disk, nodeVars>>

\* A plain invoice when inbound capacity suffices, else a JIT one, else plain.
InvoiceNode(w, h) ==
    /\ At(w, "inv_node")
    /\ \E k \in InvoiceKinds : Receive(h, k)
    /\ Proceed(w, [task[w] EXCEPT !.pc = "inv_record", !.hash = h])
    /\ UNCHANGED <<mem, disk, settled, pending, queue, bill>>

\* The node has no invoice to give, or there is no randomness for the token.
InvoiceFails(w) ==
    /\ task[w].pc \in {"inv_node", "inv_record"}
    /\ Proceed(w, Idle)
    /\ UNCHANGED <<mem, disk, nodeVars>>

\* Mutant of InvoiceRecord: the error of create_purchase is ignored.
InvoiceRecordIgnoring(w, ok) ==
    /\ At(w, "inv_record")
    /\ CreatePurchase(task[w].hash, task[w].slug, ok)
    /\ Goto(w, "inv_reply")
    /\ UNCHANGED nodeVars

InvoiceRecord(w, ok) ==
    /\ At(w, "inv_record")
    /\ CreatePurchase(task[w].hash, task[w].slug, ok)
    /\ IF ok THEN Goto(w, "inv_reply") ELSE Proceed(w, Idle)
    /\ UNCHANGED nodeVars

InvoiceDelivered(w) ==
    /\ At(w, "inv_reply")
    /\ Bill(task[w].hash, task[w].slug)
    /\ Proceed(w, Idle)
    /\ UNCHANGED <<mem, disk, kind, settled, pending, queue>>

\* GET /products/{slug}/status?claim=...: the claim of a delivered invoice.
StatusRead(w, slug, h) ==
    /\ proc = "serving" /\ At(w, "idle")
    /\ bill[h] \in Slugs
    /\ Request(w, IF ~PurchaseFor(h, slug) THEN "missing"
                  ELSE IF mem.purchases[h].paid THEN "paid" ELSE "st_node",
               slug, h)
    /\ UNCHANGED <<mem, disk, nodeVars>>

\* Mutant of StatusNode: the purchase is marked before the node is asked.
StatusNodeTrusting(w) ==
    /\ At(w, "st_node")
    /\ Goto(w, "st_mark")
    /\ UNCHANGED <<mem, disk, nodeVars>>

StatusNode(w) ==
    /\ At(w, "st_node")
    /\ Goto(w, IF SettledOnNode(task[w].hash) THEN "st_mark" ELSE "unpaid")
    /\ UNCHANGED <<mem, disk, nodeVars>>

\* The result of mark_paid is ignored.
StatusMark(w, ok) ==
    /\ At(w, "st_mark")
    /\ MarkPaid(task[w].hash, ok)
    /\ Goto(w, "paid")
    /\ UNCHANGED nodeVars

\* GET /products/{slug}/download.  The payer of any settled invoice has its
\* preimage; the claim comes with a delivered purchase invoice.
DownloadByPreimage(w, slug, h) ==
    /\ proc = "serving" /\ At(w, "idle")
    /\ h \in settled
    /\ Request(w, "dl_lookup", slug, h)
    /\ UNCHANGED <<mem, disk, nodeVars>>

DownloadByClaim(w, slug, h) ==
    /\ proc = "serving" /\ At(w, "idle")
    /\ bill[h] \in Slugs
    /\ Request(w, IF mem.purchases[h] = None THEN "missing" ELSE "dl_lookup",
               slug, h)
    /\ UNCHANGED <<mem, disk, nodeVars>>

DownloadLookup(w) ==
    LET slug == task[w].slug
        h    == task[w].hash
    IN  /\ At(w, "dl_lookup")
        /\ IF PurchaseFor(h, slug) /\ mem.products[slug] # None
           THEN Proceed(w, [task[w] EXCEPT
                    !.pc = IF mem.purchases[h].paid THEN "dl_open"
                                                    ELSE "dl_node",
                    !.listing = mem.products[slug]])
           ELSE Goto(w, "missing")
        /\ UNCHANGED <<mem, disk, nodeVars>>

DownloadNode(w) ==
    /\ At(w, "dl_node")
    /\ Goto(w, IF SettledOnNode(task[w].hash) THEN "dl_mark" ELSE "unpaid")
    /\ UNCHANGED <<mem, disk, nodeVars>>

DownloadMark(w, ok) ==
    /\ At(w, "dl_mark")
    /\ MarkPaid(task[w].hash, ok)
    /\ Goto(w, "dl_open")
    /\ UNCHANGED nodeVars

DownloadOpen(w) ==
    LET body == file[FileName(task[w].slug, task[w].listing.format)]
    IN  /\ At(w, "dl_open")
        /\ IF body = None THEN Goto(w, "lost")
           ELSE Proceed(w, [task[w] EXCEPT !.pc = "stream", !.body = body])
        /\ UNCHANGED <<mem, disk, nodeVars>>

\* The reply is complete, or its client has gone.
Finish(w) ==
    /\ task[w].pc \in Replies
    /\ Proceed(w, Idle)
    /\ UNCHANGED <<mem, disk, nodeVars>>

\* A download awaits the open of its file: a client that has gone by then
\* cancels it.
DownloadCancelled(w) ==
    /\ At(w, "dl_open")
    /\ Proceed(w, Idle)
    /\ UNCHANGED <<mem, disk, nodeVars>>

-----------------------------------------------------------------------------
(* PUT /products/{slug}, once the request has been accepted.  The artifact *)
(* is written in place by a blocking thread.                               *)

FileOf(u) == FileName(upload[u].slug, upload[u].record.format)
Writing(f) == {u \in Uploaders :
                 upload[u].pc \in {"writing", "orphan"} /\ FileOf(u) = f}

StreamsFrom(w, f) ==
    At(w, "stream") /\ FileName(task[w].slug, task[w].listing.format) = f

\* Opening truncates: writes in progress overlap from here, and a stream of
\* the old contents loses what it has not read.
UploadWrite(u, slug, format, artifact) ==
    LET f == FileName(slug, format)
    IN  /\ proc = "serving" /\ upload[u].pc = "idle"
        /\ upload' = [v \in Uploaders |->
             IF v = u
             THEN [pc |-> "writing", slug |-> slug,
                   record |-> [format |-> format, size_bytes |-> artifact],
                   alone |-> Writing(f) = {}]
             ELSE [upload[v] EXCEPT !.alone = @ /\ v \notin Writing(f)]]
        /\ file' = [file EXCEPT ![f] = Torn]
        /\ rewritten' = IF file[f] = None THEN rewritten
                                          ELSE rewritten \cup {f}
        /\ task' = [w \in Tasks |-> IF StreamsFrom(w, f)
                                    THEN [task[w] EXCEPT !.body = Torn]
                                    ELSE task[w]]
        /\ UNCHANGED <<mem, disk, nodeVars, proc, loop>>

\* The write of a request that was cancelled goes on without it.
AfterWrite(u) == IF upload[u].pc = "writing"
                 THEN [upload[u] EXCEPT !.pc = "written"] ELSE NoUpload

\* Of writes that overlapped, the last to end may leave its artifact whole.
Written(u) ==
    IF Writing(FileOf(u)) # {u} THEN {Torn}
    ELSE IF upload[u].alone THEN {upload[u].record.size_bytes}
    ELSE {upload[u].record.size_bytes, Torn}

UploadWritten(u) ==
    /\ upload[u].pc \in {"writing", "orphan"}
    /\ \E c \in Written(u) : file' = [file EXCEPT ![FileOf(u)] = c]
    /\ upload' = [upload EXCEPT ![u] = AfterWrite(u)]
    /\ UNCHANGED <<mem, disk, nodeVars, proc, loop, task, rewritten>>

\* Mutant of UploadWriteFails: the error is not noticed.
UploadWriteIgnored(u) ==
    /\ upload[u].pc \in {"writing", "orphan"}
    /\ upload' = [upload EXCEPT ![u] = AfterWrite(u)]
    /\ UNCHANGED <<mem, disk, nodeVars, proc, loop, task, file, rewritten>>

\* Mutant of UploadWriteFails: the partial file is removed.
UploadWriteRemoved(u) ==
    /\ upload[u].pc \in {"writing", "orphan"}
    /\ upload' = [upload EXCEPT ![u] = NoUpload]
    /\ file' = [file EXCEPT ![FileOf(u)] = None]
    /\ UNCHANGED <<mem, disk, nodeVars, proc, loop, task, rewritten>>

\* The error is returned; what was written stays.
UploadWriteFails(u) ==
    /\ upload[u].pc \in {"writing", "orphan"}
    /\ upload' = [upload EXCEPT ![u] = NoUpload]
    /\ UNCHANGED <<mem, disk, nodeVars, proc, loop, task, file, rewritten>>

UploadRegister(u, ok) ==
    /\ upload[u].pc = "written"
    /\ UpsertProduct(upload[u].slug, upload[u].record, ok)
    /\ upload' = [upload EXCEPT ![u] = NoUpload]
    /\ UNCHANGED <<nodeVars, proc, loop, task, file, rewritten>>

\* The artist's client disconnects: the handler is dropped where it awaits.
UploadClientGone(u) ==
    /\ upload[u].pc \in {"writing", "written"}
    /\ upload' = [upload EXCEPT ![u] = IF @.pc = "writing"
                                       THEN [@ EXCEPT !.pc = "orphan"]
                                       ELSE NoUpload]
    /\ UNCHANGED <<mem, disk, nodeVars, proc, loop, task, file, rewritten>>

-----------------------------------------------------------------------------
Process == StartNode \/ OpenStore \/ Crash

Payments == \E h \in Hashes : Settle(h) \/ Announce(h) \/ OtherInvoice(h)

EventLoop == \/ \E ok \in BOOLEAN : EventMark(ok)
             \/ EventHandled \/ EventHandledFails

Invoice(w) == \/ \E slug \in Slugs : InvoiceRead(w, slug)
              \/ \E h \in Hashes : InvoiceNode(w, h)
              \/ InvoiceFails(w)
              \/ \E ok \in BOOLEAN : InvoiceRecord(w, ok)
              \/ InvoiceDelivered(w)

Status(w) == \/ \E slug \in Slugs, h \in Hashes : StatusRead(w, slug, h)
             \/ StatusNode(w)
             \/ \E ok \in BOOLEAN : StatusMark(w, ok)

Download(w) == \/ \E slug \in Slugs, h \in Hashes :
                     DownloadByPreimage(w, slug, h) \/ DownloadByClaim(w, slug, h)
               \/ DownloadLookup(w) \/ DownloadNode(w)
               \/ \E ok \in BOOLEAN : DownloadMark(w, ok)
               \/ DownloadOpen(w) \/ DownloadCancelled(w)

Put(u) == \/ \E slug \in Slugs, format \in Formats, artifact \in Artifacts :
                UploadWrite(u, slug, format, artifact)
          \/ UploadWritten(u) \/ UploadWriteFails(u) \/ UploadClientGone(u)
          \/ \E ok \in BOOLEAN : UploadRegister(u, ok)

Next == \/ Process \/ Payments \/ EventLoop
        \/ \E w \in Tasks : Invoice(w) \/ Status(w) \/ Download(w) \/ Finish(w)
        \/ \E u \in Uploaders : Put(u)

Spec == Init /\ [][Next]_vars
=============================================================================

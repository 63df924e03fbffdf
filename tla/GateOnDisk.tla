----------------------------- MODULE GateOnDisk -----------------------------
(***************************************************************************)
(* The gate over the file of its store: Gate, where a section that saves   *)
(* is not one step but the calls of persist (src/src/store.rs), made by    *)
(* the handler that holds the Mutex of the store, while all that does not  *)
(* need the Mutex goes on and the process may end between any two.         *)
(*                                                                         *)
(* `mem' is Store.state and `disk' what a start would find, also while a   *)
(* save is under way; `disk' is Torn if index.json does not parse.         *)
(***************************************************************************)
EXTENDS GateProperties

VARIABLES tmp,     \* index.json.tmp, None if there is none
          job,     \* the section that holds the Mutex to save, None if none does
          step,    \* the call of persist it makes next
          before   \* history: memory when it took the Mutex

saveVars == <<tmp, job, step, before>>
all == <<vars, tmp, job, step, before>>

\* The sections that save, and whose they are.
Jobs == [by : {"event"}, of : {None}]
        \cup [by : {"record", "status", "download"}, of : Tasks]
        \cup [by : {"upload"}, of : Uploaders]

ASSUME SaveAssumption == None \notin Jobs /\ Torn \notin Persisted

SaveTypeOK ==
    /\ tmp \in Persisted \cup {None, Torn}
    /\ job \in Jobs \cup {None}
    /\ step \in {"idle", "create", "fill", "rename", "return"}
    /\ before \in Persisted

DiskInit == Init /\ tmp = None /\ job = None /\ step = "idle" /\ before = Default

-----------------------------------------------------------------------------
(* The sections.                                                           *)

\* A handler is where it takes the Mutex.
Ready(j) ==
    CASE j.by = "event"    -> loop = "wait" /\ queue # <<>>
      [] j.by = "record"   -> At(j.of, "inv_record")
      [] j.by = "status"   -> At(j.of, "st_mark")
      [] j.by = "download" -> At(j.of, "dl_mark")
      [] j.by = "upload"   -> upload[j.of].pc = "written"

MarkedHash(j) == IF j.by = "event" THEN Head(queue) ELSE task[j.of].hash

\* mark_paid returns without a save: unknown, or paid already.
Unchanged(ledger, j) ==
    /\ j.by \in {"event", "status", "download"}
    /\ LET p == ledger.purchases[MarkedHash(j)]
       IN  IF p = None THEN TRUE ELSE p.paid

\* What the operation of the store makes of its maps, before it saves them.
Changed(ledger, j) ==
    CASE j.by = "record" ->
           [ledger EXCEPT !.purchases[task[j.of].hash] =
                            [slug |-> task[j.of].slug, paid |-> FALSE]]
      [] j.by = "upload" ->
           [ledger EXCEPT !.products[upload[j.of].slug] = upload[j.of].record]
      [] OTHER -> [ledger EXCEPT !.purchases[MarkedHash(j)].paid = TRUE]

\* Where the handlers are once it has returned.  Only post_invoice looks at the
\* result: get_status, get_download and the event loop go on as if it was saved,
\* and put_product is done in either case.
LoopAfter(j) == IF j.by = "event" THEN "marked" ELSE loop

TaskAfter(j, ok) ==
    CASE j.by = "record"   -> [task EXCEPT ![j.of] =
                                 IF ok THEN [@ EXCEPT !.pc = "inv_reply"] ELSE Idle]
      [] j.by = "status"   -> [task EXCEPT ![j.of].pc = "paid"]
      [] j.by = "download" -> [task EXCEPT ![j.of].pc = "dl_open"]
      [] OTHER -> task

UploadAfter(j) ==
    IF j.by = "upload" THEN [upload EXCEPT ![j.of] = NoUpload] ELSE upload

GoesOn(j, ok) ==
    /\ loop' = LoopAfter(j) /\ task' = TaskAfter(j, ok) /\ upload' = UploadAfter(j)
    /\ UNCHANGED <<nodeVars, proc, file, rewritten>>

-----------------------------------------------------------------------------
(* A save.                                                                 *)

MutexFree == job = None

Take(j) ==
    /\ MutexFree /\ Ready(j) /\ ~Unchanged(mem, j)
    /\ mem' = Changed(mem, j) /\ before' = mem
    /\ job' = j /\ step' = "create"
    /\ UNCHANGED <<disk, nodeVars, proc, loop, gateVars, tmp>>

\* There is nothing to save.
Skip(j) ==
    /\ MutexFree /\ Ready(j) /\ Unchanged(mem, j)
    /\ GoesOn(j, TRUE)
    /\ UNCHANGED <<mem, disk, saveVars>>

Calls(pc, next) ==
    /\ step = pc /\ step' = next
    /\ UNCHANGED <<mem, nodeVars, proc, loop, gateVars, job, before>>

\* std::fs::write truncates the temporary file and then fills it.
Create == Calls("create", "fill") /\ tmp' = Torn /\ UNCHANGED disk

\* Mutant of Fill: that the disk is full goes unnoticed.
FillPartly == Calls("fill", "rename") /\ tmp' \in {mem, Torn} /\ UNCHANGED disk

Fill == Calls("fill", "rename") /\ tmp' = mem /\ UNCHANGED disk

Rename == Calls("rename", "return") /\ disk' = tmp /\ tmp' = None

Saving == {"create", "fill", "rename"}

Releases(ok) ==
    /\ GoesOn(job, ok)
    /\ job' = None /\ step' = "idle" /\ before' = Default
    /\ UNCHANGED <<mem, disk, tmp>>

Saved == step = "return" /\ Releases(TRUE)

\* Mutant of SaveFails: the error of a call is not passed on.
SaveFailsSilently == step \in Saving /\ Releases(TRUE)

\* A call fails: memory keeps the change.
SaveFails == step \in Saving /\ Releases(FALSE)

\* The process ends with a save under way, or with none.
EndsSaving ==
    /\ Crash \/ EventHandledFails
    /\ job' = None /\ step' = "idle" /\ before' = Default
    /\ UNCHANGED tmp

-----------------------------------------------------------------------------
(* Everything else.                                                        *)

\* main() exits if the index does not parse.
Opens == disk # Torn /\ OpenStore

\* Mutant of Locked: get_download looks a purchase up while another task saves.
LockedButLookup(w) ==
    \/ /\ MutexFree
       /\ \E slug \in Slugs :
            \/ InvoiceRead(w, slug)
            \/ \E h \in Hashes : StatusRead(w, slug, h) \/ DownloadByClaim(w, slug, h)
    \/ DownloadLookup(w)

\* The sections that read the store.
Locked(w) ==
    /\ MutexFree
    /\ \/ \E slug \in Slugs :
            \/ InvoiceRead(w, slug)
            \/ \E h \in Hashes : StatusRead(w, slug, h) \/ DownloadByClaim(w, slug, h)
       \/ DownloadLookup(w)

\* A handler that saves, or waits for the Mutex, cannot be dropped.
Saves(by, x) == job # None /\ job = [by |-> by, of |-> x]

\* The sections that do not, of a handler that is not in one that saves.
Unlocked(w) ==
    \/ \E h \in Hashes : InvoiceNode(w, h)
    \/ InvoiceFails(w) /\ ~Saves("record", w)
    \/ InvoiceDelivered(w) \/ StatusNode(w)
    \/ \E slug \in Slugs, h \in Hashes : DownloadByPreimage(w, slug, h)
    \/ DownloadNode(w) \/ DownloadOpen(w) \/ DownloadCancelled(w) \/ Finish(w)

Artist(u) ==
    \/ \E slug \in Slugs, format \in Formats, artifact \in Artifacts :
         UploadWrite(u, slug, format, artifact)
    \/ UploadWritten(u) \/ UploadWriteFails(u)
    \/ UploadClientGone(u) /\ ~Saves("upload", u)

Others ==
    /\ \/ StartNode \/ Opens \/ Payments \/ EventHandled
       \/ \E w \in Tasks : Locked(w) \/ Unlocked(w)
       \/ \E u \in Uploaders : Artist(u)
    /\ UNCHANGED saveVars

DiskNext ==
    \/ \E j \in Jobs : Take(j) \/ Skip(j)
    \/ Create \/ Fill \/ Rename \/ Saved \/ SaveFails
    \/ EndsSaving \/ Others

DiskSpec == DiskInit /\ [][DiskNext]_all

-----------------------------------------------------------------------------
(* It implements Gate: a section that saves happens at the rename or when  *)
(* a call fails.  Until then nobody has seen what it did to memory, and    *)
(* from then on its handler has it behind it.                              *)

MemBar    == IF step \in Saving THEN before ELSE mem
LoopBar   == IF step = "return" THEN LoopAfter(job) ELSE loop
TaskBar   == IF step = "return" THEN TaskAfter(job, TRUE) ELSE task
UploadBar == IF step = "return" THEN UploadAfter(job) ELSE upload

OneStep == INSTANCE Gate WITH
    mem <- MemBar, loop <- LoopBar, task <- TaskBar, upload <- UploadBar

\* ImplementsGate: a section under the Mutex of the store is one step for all
\* others, wherever the save fails, whoever runs meanwhile and wherever the
\* process ends between its calls (store.rs:72): what holds of Gate holds of the
\* daemon as its file system sees it.
ImplementsGate == OneStep!Spec

\* Why: the job of whoever holds the Mutex is still the one that was taken,
\* memory is what it made of it, and what is renamed is a copy of that.
SaveInv ==
    /\ SaveTypeOK
    /\ job = None <=> step = "idle"
    /\ job # None => proc = "serving" /\ Ready(job) /\ ~Unchanged(before, job)
                     /\ mem = Changed(before, job)
    /\ step = "rename" => tmp = mem
    /\ step = "return" => disk = mem
    /\ disk # Torn
=============================================================================

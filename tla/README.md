# A verification development for lightning-fm-artist-nodes

TLA+ models of the headless artist node, the TLC runs that check them and the
TLAPS proofs about them. Paths such as `src/gate.rs` are those of the
repository; `PROJECT.json` ties each definition to the lines it models.

## 1. The system

The daemon is one Rust process. It embeds a Lightning node (the `ldk-node`
library), sells downloads from a directory of artifacts, answers LNURL-pay for
the artist's Lightning address, and offers a signed admin API. Everything runs
in one multi-threaded tokio runtime.

| component | source | state | operations | talks to |
|---|---|---|---|---|
| product store | `src/store.rs` | products and purchases in memory, `index.json`, `index.json.tmp` | `open`, `upsert_product`, `create_purchase`, `mark_paid`, lookups; each change ends in `persist` | file system; shared through `Arc<Mutex<Store>>` |
| purchase gate | `src/gate.rs` | none of its own but what a request has read; artifact files | PUT product, POST invoice, GET product, status, download | store, node, file system |
| event loop | `run_event_loop` in `src/main.rs` | the event at hand | take an event, `mark_paid`, `event_handled` | node's event queue, store |
| process | `main` in `src/main.rs`, `deploy/`, compose files | how far the start has got, exit status | configure, build, start (3 attempts), open, bind, serve, stop | supervisor, operator |
| embedded node | external (`ldk-node`) | payment list, event queue, channels, wallet; all durable | issue invoices, list payments, deliver events | Lightning network |
| LNURL-pay | `src/lnurl.rs` | none | metadata, invoice for an amount | node |
| management API | `src/main.rs` | none | health, node-id, bootstrap invoice | node |
| NIP-98 | `src/nip98.rs`, `src/bin/nip98_sign.rs` | the two keys `main` read | sign a header, verify one | clients; in front of PUT product and the admin API |
| admin API | `src/admin.rs` | none | address, balance, connect, send on-chain, LSPS1 order | node's wallet, LSPS1 provider |
| onboarding | `scripts/lsps1-onboard.sh`, `scripts/bootstrap-channels.sh` | none but shell variables | order a channel, pay, poll | admin and management API |
| configuration | `Config::from_env`, `build_node` in `src/main.rs`, `deploy/*.env.example` | the environment file | read at every start | everything above |
| installer, images, releases, helpers | `install.sh`, `Dockerfile`, workflows, `src/bin` | files on the host | install, print keys and headers | none |

What is hard about it, and what must be true all the same:

* **Two copies of the ledger.** Every operation changes memory first and saves
  afterwards, and the save may fail. Readers see memory, a restart sees the
  file. An invoice that is handed out must be on disk; memory may be ahead of the
  file but never behind it; a failed save must not cost a buyer the product.
* **Three writers of one fact.** That a purchase is paid may be recorded by the
  event loop, by a status poll or by a download, each deciding from what it read
  before it let go of the lock. Nobody may be marked paid who is not, and no
  answer may be wrong at the moment it is given.
* **Events are delivered at least once, and only until acknowledged.** The node
  may replay an event after a restart; the loop acknowledges one even when its
  settlement could not be saved. A buyer must still be told that they have paid.
* **Requests are dropped anywhere they await.** A client that goes away cancels
  its handler, but not the blocking write a PUT has started.
* **Artifacts are overwritten in place** while they are being sold and streamed.
* **The process ends at any point**, and its supervisor decides from the exit
  status whether it comes back. It may come back with another configuration while
  a wallet is between two steps.
* **The power may fail**, and nothing that is saved is synced.
* **Capacity is read early and used late.** The invoice that is issued depends on
  the channels a request looked at; uploads, other payments and the channels
  themselves move before it is paid.
* **Signed headers can be late, repeated, damaged or misdirected**, and carry any
  time at all, up to the limits of its integer.
* **The onboarding script spends money over a connection that loses answers**,
  ends at the first failure and is then run again.

`PROJECT.json` lists each hazard with its line and the properties aimed at it.

## 2. The modules

| module | what it is |
|---|---|
| `Domain` | slugs, formats, artifacts, payment hashes; the product and purchase records |
| `Store` | the store as the handlers see it: each operation one step, its save may fail |
| `LdkNode` | the part of `ldk-node` the daemon relies on (external) |
| `Gate` | the composition: handlers, uploads, event loop, process life, over `Store` and `LdkNode` |
| `GateProperties` | the properties of `Gate`, the fairness, the refinement mapping |
| `SaleContract` | the abstract specification: what a buyer is promised |
| `GateInvariant` | the inductive invariant |
| `GateProofs` | the proofs about `Gate`: the invariant and what follows from it |
| `MCGate` | instances of `Gate` for TLC |
| `GateOnDisk` | the gate over its file: `Gate` with each save as the calls of `persist` |
| `GateOnDiskProofs`, `MCGateOnDisk` | the proof that it implements `Gate`, its instance |
| `StoreFile` | `open` and `persist`, one call of the file system per step |
| `AtomicStore` | the abstract specification of `StoreFile`: what `Store` takes for granted |
| `PowerLoss` | `StoreFile` on a machine whose page cache may be lost |
| `StoreFileProofs`, `MCStoreFile` | the proofs about both, their instance |
| `Lifecycle`, `LifecycleProofs`, `MCLifecycle` | `main` under systemd, docker and a terminal |
| `Invoicing`, `InvoicingProofs`, `MCInvoicing` | amounts, routes and limits of the invoices of all three handlers that issue them |
| `LightningAddress`, `LightningAddressProofs`, `MCLightningAddress` | from the environment to the two steps of a wallet, restarts in between |
| `Nip98`, `Nip98Proofs`, `MCNip98` | keys, signed headers, `verify` |
| `Onboarding`, `OnboardingProofs`, `MCOnboarding` | `lsps1-onboard.sh` over the admin API, the node and the provider |

### Store and StoreFile

`mem` is `Store.state`, `disk` is `index.json`. `Persist(ok)` is the last thing
each operation does: with `ok` the file becomes what memory is, without it the
file stays. `MarkPaid` keeps the early returns of `mark_paid`: an unknown hash
and a purchase already paid in memory change nothing, also when the write that
marked it failed.

That a save is one step is not assumed but shown: `StoreFile` splits `persist`
into creating the temporary file, filling it, renaming it and returning, lets
each call fail and the process end in between, for tasks that share the Mutex.
It implements `AtomicStore`.

`PowerLoss` adds what `persist` leaves out, a sync. `stable` is what is left of
`index.json` if the power fails now; `WriteBack` is the kernel writing name and
data, `WriteBackName` the name alone (an empty or a partial file). It is not a
step of the model that the power fails: every state is checked for what would be left.

### LdkNode

Issued invoices have fresh hashes (`kind`), payments are recorded as succeeded
(`settled`), the event follows as a step of its own (`pending`, `queue`), the
head of the queue goes away with `event_handled()`, and when the process ends
any event may be replayed. `bill` is a history variable: what the wallet that was
given an invoice was billed for. It is written when a reply is delivered, so an
invoice whose reply was lost is never paid.

### Gate

A step is what the code does between two points where another task can get in:
one section under the lock, one call into the node, one await on a file. A
request is a record in `task[w]` whose `pc` names the section it runs next, with
the values the handler carries in local variables (`slug`, `hash`, `listing`).

| handler | actions |
|---|---|
| `post_invoice` | `InvoiceRead`, `InvoiceNode`, `InvoiceRecord`, `InvoiceDelivered`; `InvoiceFails` |
| `get_status` | `StatusRead`, `StatusNode`, `StatusMark` |
| `get_download` | `DownloadByPreimage` or `DownloadByClaim`, `DownloadLookup`, `DownloadNode`, `DownloadMark`, `DownloadOpen`; `DownloadCancelled` |
| any reply | `Finish` |
| `put_product` | `UploadWrite`, `UploadWritten` or `UploadWriteFails`, `UploadRegister`; `UploadClientGone` |
| `run_event_loop` | `EventMark`, `EventHandled`, `EventHandledFails` |
| `main` | `StartNode`, `OpenStore`, `Crash` |

A handler is dropped only where it awaits: `get_download` at the open of its
file, `put_product` at its write (which goes on, `orphan`). The others run to
their reply, which may or may not arrive: `Finish` is both. The reply of
`post_invoice` is lost when the process ends before `InvoiceDelivered`.

The contents of a file are an artifact, `Torn` (a partial or mixed write) or
`None`. `UploadWrite` truncates, which also tears a download that is under way.
Writes to one file that overlap may leave anything, unless theirs is the last to
end. `rewritten` is a history variable: the files opened for writing when they
existed.

### GateOnDisk

In `Gate` a section under the Mutex is one step, its save included. In the daemon
it is not: `mark_paid`, `create_purchase` and `upsert_product` change the maps and then
make the three calls of `persist`, during which the node settles payments, other
handlers run up to the point where they need the Mutex, uploads write their artifacts, and the
process may end. `GateOnDisk` has those steps: `Take` (the Mutex and the change of
the maps), `Create`, `Fill`, `Rename`, `Saved` (the handler goes on), `SaveFails`
at any of the calls, and `EndsSaving`. `job` says whose section it is, `tmp` is
`index.json.tmp`. `Skip` is `mark_paid` when there is nothing to save. `Locked` are the
sections that only read, and wait; everything else (`Unlocked`, `Artist`, `Payments`,
`EventHandled`) does not wait. `DownloadOpen` and `UploadWrite` take the Mutex for
the name of the directory only, which never changes, and open their file after they
have let go of it: they are among those that do not wait.

`ImplementsGate` is the refinement. A section happens, for all others, at the rename
or where a call fails. Until then `MemBar` is what memory was before, which
nobody can tell from what it is, since nobody else can take the Mutex;
between the rename and the end of the section its handler is mapped to where it will be
(`TaskBar`, `LoopBar`, `UploadBar`).

### Lifecycle

`at` is where `main` is. Faults are pairs of a deployment and a kind, so that a
run says exactly what may go wrong where. `Restart` is the supervisor:
`Restart=on-failure` (systemd) restarts after a non-zero status or a kill,
`restart: unless-stopped` (docker) after any end, a terminal never. `Signalled`
is the delivery of the deployment's stop signal.

### Invoicing

One product, any number of requests. A sale is `Price` (the section under the
lock), `Decide` (the sum over `list_channels` and the choice that follows),
`Issue`; a zap is `Metadata`, `Callback`, `Issue`; `Bootstrap` is GET /invoice.
`Issue` may turn a just-in-time invoice into a plain one, as the handlers do
when the provider does not answer. `PutProduct` and `ChannelsChange` may happen between
any two of them. A payment takes capacity (`PayOverChannel`); over a just-in-time
invoice it brings a channel (`PayJustInTime`), or the provider forwards what is
left after its fee over a channel that holds the payment, and the node rejects it
(`PayJustInTimeRejected`), which is what the comment at `gate.rs:253` warns of.
`noted`, `seen` and `paidAt` are history. `ToMsat` is the product with 1000 as a
release build computes it, modulo `Wrap`; a debug build would panic there.

`Gate` has the same handler with everything but amounts and routes; the two
share no state but the listing, whose changes `PutProduct` makes arbitrary here.

### LightningAddress

`FromEnv` and `BuildNode` are a start of the process with whatever the
environment file says at the time; variables may be set, empty or absent, which
the code tells apart. `Resolve` and `Pay` are the wallet's two GET requests. An
ASCII comparison without case is `Lower`, a slug is `Letters`: the constants say
what they make of each name. `shown` and `paid` are history, the configurations that answered.

### Nip98

`Sign` adds a header to `signed`; any header that has been signed, or a damaged
copy of one, may arrive at any time for any call, any number of times
(`Arrive`). A call has a method, a path, a query and a body. The query of an upload
holds its terms: title, price, floor and format. `VerifiedUrl` is the URL the daemon
compares a header with, which has no query, so that a header arrives with the terms
it was signed for or with others; a client may also sign the URL with its query
(`Sign`), and is refused. `call` and `signedAt` of a header are history. `Verify` is `verify`, with its additions at the width of the type; `KeyFor`
is the choice of key that `main` and the two `authorize` steps make together.

### Onboarding

One action per request of the script; `heard` is whether its answer comes back.
The script runs under `set -e`: without an answer it ends (`Fails`), and its
shell variables with it. `Provider` is the LSPS1 provider, `Channel` any other
change of a channel. Runs follow and overlap each other without limit.

## 3. Properties

Of the gate:

* `SoldIsDurable`: a delivered invoice has its purchase *and its product* in
  `index.json`. The second half is not obvious: the upsert of the product may have
  failed to save. It holds because every save writes all of memory.
* `LedgerSound`, `NoGoodsUnpaid`: nobody is marked paid, told "paid" or served
  who has not paid for that very product.
* `LedgerMonotone`: no step takes a purchase out of `index.json`, moves it to
  another product or unmarks it; no product leaves it.
* `KeepsContract`: the gate implements `SaleContract`. There, a question is
  asked and answered, and the answer is "granted" exactly when the buyer has paid
  for the product *at the moment it is decided*; neither a restart nor a failed
  save exists. In particular `get_download` never answers 404, 402 or 500 to a
  buyer who has paid.
* `HandledIsRecorded`: an event is acknowledged only when memory calls the
  purchase it pays for paid. That the purchase is known by then is the order of
  `post_invoice` (saved, then handed out); that it is paid though the save may have failed
  is that of `mark_paid`.
* `FirstUploadIntact`: a file that has been written only once is the artifact
  its record measured, in memory and in `index.json`, and so is what is streamed.
* `EventsDrain`, `PollerIsTold`: if crashes cease, every payment's event is
  handled, and a buyer who has paid and polls is told, even if no save succeeds
  and the event was acknowledged by a process that is gone.

* `ImplementsGate`: with saves made call by call, everything above still holds
  of what others see. `SaveInv` is why: one section at a time saves, and what it renames is a
  whole copy of memory.

Of the store's file:

* `OpensAgain`: the daemon can always read its index.
* `SavesAtomically`: `StoreFile` implements `AtomicStore`.
* `LosesRecentOnly`: after a loss of power the daemon refuses to start or starts
  with an index as it was saved at some time since one last reached the disk; it
  never starts over with an empty store.

Of the process: `StaysUp`, once the environment is calm a daemon that is wanted
is up. `NeverStranded` is the part of it that no fairness is needed for: a daemon that is
wanted and down is one its supervisor restarts, unless the event loop can end under
systemd.

Of invoices:

* `FairUnlessWrapped`: a buyer is billed what the listing she was shown asks for, to
  the millisatoshi, whatever is uploaded meanwhile; only a sale whose own amount
  exceeds the width of a bill is billed otherwise, and then less. `FairPrice` is the same
  without the exception, and is violated (`underpaid`).
* `RejectedOnlyIfGrown`, `UnroutableOnlyIfShrunk`: what the early reading of the
  capacity can cost. A payment fails only if the channels have changed since, and
  in that direction.
* `LimitsHonoured`: a wallet within the limits it was told is refused only if the
  channels have changed since.
* `ZapsOpenFirstChannel`: LNURL-pay buys a channel only where the node can
  receive next to nothing.
* `DescriptionBound`: an invoice commits to the metadata the wallet was shown,
  unless a restart has changed the name or the address.
* `AddressWorks`: the address the daemon answers for resolves, in its own letters or
  in lower case, and its callback leads back, whatever defaults were used.

Of signed requests:

* `DoneWasSigned`: what is done was signed by the key that call takes, for this
  daemon. An admin call was signed as it is; an upload was signed for this path and this
  artifact, but not for these terms, which nothing signs.
* `DoneInWindow`: nothing is done outside of the window, whatever time a header
  states. It bounds how long a call can be repeated, as nothing else does: within the
  window a payment that arrives twice is made twice, and an artifact is put on sale
  again on other terms.
* `PromptIsDone`: a right and timely header is never refused.
* `ArtistOnlyUploads`: with an operator key, the artist's key only uploads.

Of onboarding:

* `OrderPaidOnce`: no order is paid twice by the script, over lost answers, reruns and
  runs at the same time. It says nothing of a second order: a run that follows a failed
  one makes and pays another.
* `RefusedOnlyIfSpent`: an order is made for nothing only if the wallet lost
  money meanwhile, or by less than the fee, which the script does not count.
* `DoneAfterOpening`: the script reports success only if a channel has been
  opened since it started, though what it compares is numbers of channels. That a
  channel has opened does not mean that the script notices, see section 6.

## 4. The runs

| run | instance | what it shows |
|---|---|---|
| `sales` | 2 products, 2 hashes, 2 buyers' requests, no uploads; 449,926 states | `IInv` and the safety properties of sales, `KeepsContract` |
| `shelf` | `GateOnDisk`; 1 product, 1 artifact, 1 hash, 1 request, 2 uploads; 95,007 states | `ImplementsGate`, `SaveInv`, and the same contract while the shelf is being rewritten, `FirstUploadIntact` |
| `live` | 1 product, 1 hash, 2 requests, 1 upload; 23,786 states | `EventsDrain`, `PollerIsTold` |
| `served` | `Gate`; 1 product, 2 artifacts, 1 hash, 1 request, 2 uploads | **violation**: `ServedIntact`, see below |
| `file` | 3 contents, 2 tasks; 3,214 states | `FileInv`, `OpensAgain`, `SavesAtomically`, and under a loss of power `LosesRecentOnly` |
| `uptime` | 3 deployments, every fault but the end of the loop under systemd; 826 states | `StaysUp`, `NeverStranded`, at most three attempts (`TypeOK`) |
| `invoices` | 2 requests of any kind, prices and floors 0 to 2, offers of 1 and 4 sat, of which bills hold 2; capacities 0 to 2 sat; 2,288,637 states | the five properties of `Invoicing` |
| `underpaid` | 1 request, a floor of 2 sat, an offer of 4 sat, of which bills hold 2 | **violation**: `FairPrice` |
| `zap` | 2 names, 4 local parts, 2 hosts, every environment; 90,326 states | `DescriptionBound`, `AddressWorks` |
| `signed` | 2 keys, 5 calls (one upload on two terms), 2 base URLs, window 2, time of 4 bits; 515,178 states | the four properties of `Nip98` |
| `onboard` | 2 runs at a time, 2 orders, 1 other channel; 2,238,368 states | the three properties of `Onboarding` |
| `deaf` | systemd, the event loop may end | **violation**: `StaysUp` |

*Bounds.* Two hashes suffice for one request to disturb another's purchase or an
event to be another's; two products for an answer about the wrong one; two requests with the event loop make three concurrent
writers of one purchase. Two uploads overlap, and follow each other, in all ways;
a third only repeats what two do to a file whose contents are already `Torn`.
Nothing else is bounded: the number of restarts, replays and failed writes is
not, as they need no counter. `Hashes` bounds the invoices ever issued. The
instances without uploads start from a stocked shelf (`StockedInit`, what a
successful upload of each product leaves behind).

In `shelf` one buyer's request suffices, as the Mutex is contended by the event loop
and two uploads as well: five kinds of sections save, and each of them meets
each step of the others. One artifact suffices because a file that is being written or was left partial is
`Torn`, whatever is written. The same run with two artifacts (982,902 states)
finds nothing else.

In `invoices` the capacities lie at, one below and one above each amount and
the limits of LNURL-pay, and two requests make one payment take the capacity the other
counted on; `MaxInbound` only keeps the sum finite. `Wrap`, 2^64 in the code, is 3000
msat: prices, floors and the offer of 1 sat fit, and the offer of 4 sat becomes a bill of
1 sat, less than the floor of 2. In `zap` the daemon is restarted without
limit; the names are one with letters and one without. In `signed` time is so
narrow that a header may state one within a window of the largest; `MaxSigned` is
1 because a header is served without regard to any other, and it may arrive any
number of times. In `onboard` the deposits are nothing, less than price
and fee, or enough for two orders; two runs overlap or follow each other in all
ways; one poll is enough to be the last one. What is proved holds for any values.

*Symmetry* is used in the safety runs only, over sets of model values among which no
definition chooses.

*Deadlock* is checked in every run but `signed`, where the daemon exits if a key
is set to what is no key, and time stops at its bound.

*Fairness.* `live` assumes that the sections of a handler that has begun go on,
that the event loop takes the next event, that a restart follows a crash (the
supervisor), and that the node queues the event of a payment it has recorded.
Nothing is assumed about writes: `ok` may be FALSE for ever. `Polling` is the
buyer's page: its status requests are among those that find a free slot. That
the process eventually stays up is a premise of the properties (`Stays`), not an
assumption. In `Lifecycle` `main`'s own calls return, a pending signal is
delivered, the supervisor restarts and the environment is calm in the end.

*What the violations show.*

* `served`: `put_product` writes the artifact in place and `get_download`
  announces the size it read earlier under the lock. A repeated PUT that fails, is
  cancelled or overlaps a download makes a paid buyer receive a truncated or mixed
  body (`gate.rs:120`). The next successful PUT repairs the file. First uploads
  are safe: `FirstUploadIntact`.
* `deaf`: when `event_handled()` fails, the loop ends, `main` stops the node
  and returns: status 0, which `Restart=on-failure` does not restart. Under docker the
  same fault is survived (`uptime`).
* `underpaid`: `post_invoice` compares the amount a buyer names with the floor in
  sats (`gate.rs:214`) and multiplies it by 1000 afterwards (`gate.rs:244`). Nothing
  bounds it from above, and a release build wraps: of 18446744073709552 sats a bill of
  384 msat remains, and whoever pays that has bought the product. A listing with a
  fixed price is safe from its buyers, as they can only name that price.

Each property of a passing run has a mutant in `PROJECT.json`: a variant of one
definition, kept beside the original and marked as such, with a plausible bug
under which TLC finds the property violated.

## 5. The proofs

For every value of the constants, from assumptions that say that special values
are not ordinary ones (`DomainAssumption`, `TornAssumption`, `SaveAssumption`,
`StoreFileAssumption`),
that amounts and limits are natural numbers, sets of orders finite
(`InvoicingAssumption`, `OnboardingAssumption`), that the conversions of names
give names (`LightningAddressAssumption`), and that no clock is within two windows
of the largest time (`Nip98Assumption`):

| theorem | of | states |
|---|---|---|
| `TypeCorrect`, `InvariantHolds` | `GateProofs` | `[]TypeOK`, `[]IInv` |
| `SoldSurvives`, `LedgerIsSound`, `OnlyPayersServed` | `GateProofs` | `[]SoldIsDurable`, `[]LedgerSound`, `[]NoGoodsUnpaid` |
| `AcknowledgedIsRecorded` | `GateProofs` | `[]HandledIsRecorded` |
| `LedgerNeverShrinks` | `GateProofs` | `LedgerMonotone` |
| `Honoured` | `GateProofs` | `KeepsContract`: the gate implements `SaleContract` |
| `CredentialsLast` | `GateProofs` | `Contract!OwedForGood`: what a buyer has paid for they are owed for ever |
| `FirstUploadIntactHolds` | `GateProofs` | `[]FirstUploadIntact` |
| `SavesAreSteps` | `GateOnDiskProofs` | `DiskSpec => ImplementsGate`: the gate over its file implements the gate |
| `SaveIsWhole` | `GateOnDiskProofs` | `[]SaveInv` |
| `SoldStaysOnDisk`, `SoundOnDisk`, `PayersOnDisk`, `RecordedOnDisk`, `FileNeverShrinks`, `ShelfOnDisk` | `GateOnDiskProofs` | `SoldIsDurable`, `LedgerSound`, `NoGoodsUnpaid`, `HandledIsRecorded`, `LedgerMonotone`, `FirstUploadIntact`, now of `DiskSpec` |
| `HonouredOnDisk` | `GateOnDiskProofs` | `KeepsContract` of `DiskSpec` |
| `FileHolds`, `AlwaysOpens`, `Saved` | `StoreFileProofs` | `[]FileInv`, `[]OpensAgain`, `SavesAtomically` |
| `LosesLittle` | `StoreFileProofs` | `PowerSpec => []LosesRecentOnly` |
| `TypeCorrect` | `LifecycleProofs` | `[]TypeOK`: also that a start makes at most three attempts |
| `NeverStrandedHolds` | `LifecycleProofs` | `[]NeverStranded` |
| `FairUnlessWrappedHolds` | `InvoicingProofs` | `[]FairUnlessWrapped`, for any amounts and width |
| `RejectedOnlyIfGrownHolds`, `UnroutableOnlyIfShrunkHolds`, `LimitsHonouredHolds`, `ZapsOpenFirstChannelHolds` | `InvoicingProofs` | the other four |
| `DescriptionBoundHolds`, `AddressWorksHolds` | `LightningAddressProofs` | for any names, hosts and restarts |
| `FreshIsExact` | `Nip98Proofs` | the check with sums that wrap is the check without |
| `DoneWasSignedHolds`, `DoneInWindowHolds`, `PromptIsDoneHolds`, `ArtistOnlyUploadsHolds` | `Nip98Proofs` | the four properties; the last one if the two keys differ |
| `OrderPaidOnceHolds`, `RefusedOnlyIfSpentHolds`, `DoneAfterOpeningHolds` | `OnboardingProofs` | for any number of runs, orders and channels |
| `TypeCorrect` | each of the last four | `[]TypeOK` |

*The argument for the gate.* None of the properties is inductive. `SoldIsDurable`
alone breaks when a save replaces the file with a memory that lacks the purchase:
hence `MemoryAhead`, memory has everything the file has while the store is open,
and is empty otherwise. That a new purchase does not replace an old one needs
`InvoiceOwned`: the hash of an invoice being made is that of one request, is
unknown to both copies of the ledger and has been billed to nobody.
`LedgerSound` needs `PaidSettled`, which rests on what a request established
before it marks a purchase (`RequestSound`: `st_mark` and `dl_mark` are reached
only for a settled hash) and on what the node promises (`NodeSound`: a queued
event is a settled payment, a settled one was billed), and `PurchaseInvoiced`, a
purchase's hash is never that of another bill. That a paid download finds its
file needs `FileExists`: `put_product` registers a file after writing it, and
nothing removes one. `IInv` is their conjunction; TLC checks it in `sales`,
`GateProofs` proves that `Init` establishes it and each action keeps it,
one lemma per action.

The refinement maps a request to a desk that sees question and answer only
(`DeskOf`). With `IInv` in two consecutive states, each action of the gate is a
step of the contract or a stutter: a reply decided in `StatusRead` is an `Ask` that is
answered at once, one decided later an `Answer`, `Crash` and `Finish` are `Leave`,
`InvoiceDelivered` and `OtherInvoice` are `Issue`, and saves, events and uploads
do not show.

`HandledIsRecorded` adds `EventMarked`: what the loop has marked stays marked.
Only `create_purchase` could undo it, with a second purchase of the same hash; but
the event at hand is of a settled payment, and the hash of an invoice being made has been
billed to nobody.

*The argument for the gate over its file.* `IndInv` is `IInv` of the mapped
state, `SaveInv` of the detailed one, and types. `JobStays` says that what the others
do leaves the section that saves where it is (`Ready`), so that what it made of
memory when it took the Mutex is what it would make of it at the rename
(`SectionHappens`): this is where `Take` and the calls stutter and `Rename` and
`SaveFails` become a section of `Gate`. Each other step is the step of `Gate` of the same name,
because the Mutex is free or it does not look (`LockedStep`, `UnlockedStep`, ...).
What is only about `index.json` and the node follows from `Gate`'s theorems by
transitivity. What is about memory or a handler needs more, as those are ahead of
the mapped ones while a save is under way: `MemoryGrows` compares memory with
what it was (`SoundOnDisk`, `RecordedOnDisk`), `ShelfOnDisk` looks at the record an
upload is saving. `HonouredOnDisk` is stronger than transitivity gives: in `Gate` a status poll
is answered at the rename, in the daemon when `persist` has returned, so the
desk lags behind (`DeskMapped`), and that answer is still the right one
because who has paid stays one who has.

*The argument for restarts.* `WantedInv` adds to `NeverStranded` that a stop
signal is pending only while the operator wants the daemon down and the process it
was sent to lives, and that only the end of the event loop lets systemd's daemon
return from `main`.

*The argument for the file.* `FileInv` says who is in `persist` (one task, that
holds the Mutex), that the temporary file is a whole copy of memory when it is
renamed, and that until then `index.json` is what the last unlock left. A task
that returns is then one atomic change; a crash is one before or after the
rename.

After a loss of power (`PowerInv`): what a start would find now is among `recent`,
and unless `dirty` it is what is on the disk. A rename sets `dirty`, so `recent` only
ever loses what was there before a write-back.

*The argument for uploads.* `FirstUploadIntact` speaks of files opened for
writing once; `ShelfInv` adds who is writing. Of a file not in `rewritten`, the
only upload is alone with it: a second one would have put it
there. Hence it stays `Torn` until that upload has written it, is what was
measured when it is registered, and nothing that is listed or streamed can be
anything else.

*The argument for invoices.* `RouteInv` says of each request how its route
relates to the capacity it saw, how its limits relate to the capacity when they were
quoted, and how its outcome relates to the capacity a payment found. The
properties compare the first with the last. `FairInv` says of each sale what
`FairUnlessWrapped` does; `ResolveAmountFair` is what `resolve_amount` returns, and
`ToMsatExact` and `ToMsatAtMost` what becomes of it: the exact product where that fits
the width, and never more than the product.

*The argument for signed requests.* `Inv` says that the last call served was
verified at the time it arrived, that what arrives undamaged was signed, and that the
tags of a header are those of the call it was signed for (`TagsRight`). So the URL
settles the path, the payload the body, and nothing the query: that an admin call is as it
was signed rests on `Nip98Assumption`, by which those have none, as no handler of
`admin.rs` reads one. The
sums of `Fresh` do wrap, for a stated time within a window of the largest; then the
comparison with the present fails all the same, as `FreshIsExact` shows
for times up to `MaxTime`.

*The argument for onboarding.* An order belongs to the run that made it
(`OwnOrder`) and is unpaid until that run pays it (`Right`); a run that ends
forgets it, and no later run can learn its number. `baseline` is the number of
channels in `before`: more channels than at first must include one that was not there.

*Only model-checked*: liveness (`EventsDrain`, `PollerIsTold`, `StaysUp`), which
the prover cannot do.

## 6. Where the code and its documents disagree

Three are shown by runs (`served`, `deaf`, `underpaid`, above). These can be read
off the models directly and have no run of their own:

* *A bootstrap invoice is a plain one.* `scripts/bootstrap-channels.sh:6` says that
  asking for it triggers a just-in-time channel; `create_invoice` (`main.rs:393`) issues an
  ordinary invoice, which a node without channels cannot be paid with
  (`Bootstrap` in `Invoicing`).
* *An empty key is not an absent one.* `deploy/lfm-artist-node.env.example:36` says
  that uploads are disabled when `ARTIST_PUBKEY` is empty, and ships it as `""`;
  `main.rs:502` stops the daemon (`ReadKeys` in `Nip98`).
* *A provider URI that does not parse* is a warning in `main.rs:638`, and would be
  non-fatal, but `build_node` has parsed it before (`main.rs:166`) and stopped the daemon
  (`BuildNode` in `LightningAddress`).
* *No shutdown on SIGTERM.* `main.rs:647` announces one on SIGTERM and SIGINT; only SIGINT is
  awaited (`main.rs:657`). Both supervisors send SIGTERM, so that `node.stop()` never
  runs in production (`Signalled` in `Lifecycle`). The gate's properties do not
  depend on it: `Crash` is the same step there.
* *The terms of an upload are not signed.* `README.md:121` lists `PUT
  /products/{slug}?title=...&price_sats=...&format=...` as artist-signed. The URL that is
  verified ends before the query (`gate.rs:95`), so that a header the artist signed for
  one price puts the same artifact on sale at another, until its window is over
  (`DoneWasSigned`). NIP-98 asks clients to sign the whole URL; those that do are refused.
* *DONE before a channel can be used.* `lsps1-onboard.sh:113` says the node can now
  receive; the count at `:110` includes channels that are pending (`Arrived` in
  `Onboarding`), and may be of another channel than the one bought. A channel that
  closes meanwhile hides one that opens, and the script waits on.
* *Half a configuration.* `install.sh:12` says it is idempotent; a download
  that breaks off at `:87` leaves part of the file, which the next run keeps (`:81`).
* *Amounts that wrap.* What `underpaid` shows of `gate.rs:244` is so of the bootstrap
  invoice, too (`main.rs:385`, `Bootstrap` in `Invoicing`), where the operator's own
  script names the amount.

## 7. Not modelled

* Titles, dates, descriptions, formats of answers; requests that are refused
  before they change anything.
* A registered file that is there and cannot be opened (`gate.rs:472`: permissions,
  descriptors used up): `get_download` answers as if it were missing. In the model a
  file is missing or can be opened.
* Purchases without a claim token, left by older versions.
* Poisoning of the Mutex: no code panics while it holds the lock.
* The preimage: whoever paid has it, as the sender of a payment does.
* The `axum::serve` branch of `main`'s `select!`: it does not return while its
  listener lives.
* Routing, fees, the chain, and what a provider charges for a just-in-time channel.
* `get_address`, which hands out an address and changes nothing that is asked for
  again; `gen_mnemonic`, which prints one value.
* `NETWORK`, `HEALTH_PORT`, and the three variables of the LSPS2 provider, which
  are read once and have no part in a property.
* Installer, image and release workflow: a straight line each, run once, by hand
  or by a machine that starts afresh.

## 8. Plan

Done, in this order, because the daemon exists to sell: the gate with its store,
node and event loop, their contract and proofs; the file under the store; the
process around both; the gate over its file call by call; then what an invoice is for and over which channel it is
paid, the artist's address, signed requests, onboarding, loss of power, and the
proofs of all safety properties that the runs check. Left:

1. The end of a run of `lsps1-onboard.sh` (it polls a bounded number of times), and what
   becomes of an order whose run has ended: liveness of `Onboarding`.
2. Two replays of one signed payment within the window, with the wallet of
   `Onboarding` behind `Nip98`.
3. `install.sh`, interrupted and run again.
4. `GateOnDisk` on the machine of `PowerLoss`: what an invoice is worth whose
   purchase was saved after the last write-back.

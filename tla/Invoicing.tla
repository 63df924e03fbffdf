------------------------------ MODULE Invoicing ------------------------------
(***************************************************************************)
(* How the daemon prices an invoice and over which channel it asks to be   *)
(* paid: post_invoice (src/src/gate.rs), the LNURL-pay handlers            *)
(* (src/src/lnurl.rs) and GET /invoice (src/src/main.rs).                  *)
(*                                                                         *)
(* A handler reads the listing, then the capacity of the channels, then    *)
(* asks the node for an invoice, which is paid within the hour or never.   *)
(* Uploads, other payments and the channels themselves move in between.    *)
(* Capacities and msat amounts count thousandths of a satoshi.             *)
(***************************************************************************)
EXTENDS Integers

CONSTANTS Requests,       \* requests in progress, or invoices still payable
          Prices, Floors, \* sats an upload may set
          Asked,          \* sats a buyer, or the bootstrap script, asks for
          Zaps,           \* msat a wallet asks for
          Capacities,     \* msat that channels can hold
          MaxInbound,     \* bound: what opening channels may bring it to
          MinSendable, FallbackMax,   \* limits of LNURL-pay, in msat
          Wrap,           \* one more than the largest amount of msat
          None

ASSUME InvoicingAssumption ==
    /\ Prices \cup Floors \cup Asked \cup Zaps \cup Capacities \subseteq Nat
    /\ {MaxInbound, MinSendable, FallbackMax} \subseteq Nat
    /\ Wrap \in Nat \ {0}
    /\ None \notin Nat

VARIABLES listing,   \* what the registry has for the one product sold here
          usable,    \* inbound capacity of the channels that are usable
          idle,      \* ... and of those that are not: pending, peer offline
          request    \* one record per request

vars == <<listing, usable, idle, request>>

Listing == [price : Nat, floor : Nat \cup {None}]

ASSUME NoListingAssumption == None \notin Listing

\* What a request has seen and been given.  The history fields are read by the
\* properties only: noted and seen, the capacity when the limits were quoted
\* and when the route was chosen; paidAt, the one a payment last found.
Request ==
    [pc : {"idle", "priced", "quoted", "decided", "refused", "issued"},
     ask : {"sale", "zap", "bootstrap", "nothing"},
     listing : Listing \cup {None},
     sats : Nat \cup {None},
     msat : Nat,
     limit : Nat,
     noted : Nat, seen : Nat,
     route : {"plain", "jit", "fallback", "unset"},
     outcome : {"open", "received", "rejected", "unroutable"},
     paidAt : Nat]

Free == [pc |-> "idle", ask |-> "nothing", listing |-> None, sats |-> None,
         msat |-> 0, limit |-> 0, noted |-> 0, seen |-> 0, route |-> "unset",
         outcome |-> "open", paidAt |-> 0]

TypeOK ==
    /\ listing \in Listing \cup {None}
    /\ usable \in Nat /\ idle \in Nat
    /\ request \in [Requests -> Request]

Init ==
    /\ listing = None
    /\ usable = 0 /\ idle \in Capacities
    /\ request = [r \in Requests |-> Free]

-----------------------------------------------------------------------------
(* Amounts.                                                                *)

\* A release build multiplies without a check for overflow.
ToMsat(sats) == (sats * 1000) % Wrap

\* Mutant of ResolveAmount: the floor is only a default.
ResolveAmountNoFloor(item, sats) ==
    IF item.floor = None
    THEN IF sats \in {None, item.price} THEN item.price ELSE None
    ELSE IF sats = None THEN item.price ELSE sats

\* resolve_amount: None where it returns an error.
ResolveAmount(item, sats) ==
    IF item.floor = None
    THEN IF sats \in {None, item.price} THEN item.price ELSE None
    ELSE IF sats = None
         THEN IF item.price >= item.floor THEN item.price ELSE item.floor
         ELSE IF sats >= item.floor THEN sats ELSE None

\* Mutants of MaxSendable: a reserve is kept back, also where there is none; the
\* ceiling is advertised whatever the channels hold.
MaxSendableReserved(inbound) == inbound - MinSendable
MaxSendableCeiling(inbound) == FallbackMax

\* max_sendable_msat
MaxSendable(inbound) ==
    IF inbound >= MinSendable THEN inbound ELSE FallbackMax

\* inbound_msat, and the same sum in post_invoice: usable channels only.
Inbound == usable

\* A plain invoice where the channels hold the payment, else one for a channel
\* opened just in time.
Route(inbound, msat) == IF inbound >= msat THEN "plain" ELSE "jit"

-----------------------------------------------------------------------------
(* The artist and the channels.                                            *)

\* PUT /products/{slug}, once accepted: a price or a floor.
PutProduct(price, floor) ==
    /\ price > 0 \/ floor # None
    /\ listing' = [price |-> price, floor |-> floor]
    /\ UNCHANGED <<usable, idle, request>>

\* Channels open and close, and become usable or stop being so.
ChannelsChange(u, i) ==
    /\ usable' = u /\ idle' = i
    /\ UNCHANGED <<listing, request>>

-----------------------------------------------------------------------------
(* Requests.                                                               *)

Set(r, record) ==
    /\ request' = [request EXCEPT ![r] = record]
    /\ UNCHANGED <<listing, usable, idle>>

At(r, pc) == request[r].pc = pc

\* post_invoice reads the listing under the lock of the store.
Price(r, sats) ==
    LET amount == ResolveAmount(listing, sats)
    IN  /\ At(r, "idle") /\ listing # None
        /\ IF amount \in {None, 0}
           THEN Set(r, Free)
           ELSE Set(r, [Free EXCEPT !.pc = "priced", !.ask = "sale",
                                    !.listing = listing, !.sats = sats,
                                    !.msat = ToMsat(amount)])

\* Mutants of Decide: channels that are not usable count; a new channel is
\* asked for in any case.
DecideOnAllChannels(r) ==
    /\ At(r, "priced")
    /\ Set(r, [request[r] EXCEPT !.pc = "decided", !.seen = usable,
                 !.route = Route(usable + idle, request[r].msat)])

DecideJustInTime(r) ==
    /\ At(r, "priced")
    /\ Set(r, [request[r] EXCEPT !.pc = "decided", !.seen = usable,
                                 !.route = "jit"])

\* ... and the channels without it.
Decide(r) ==
    /\ At(r, "priced")
    /\ Set(r, [request[r] EXCEPT !.pc = "decided", !.seen = usable,
                 !.route = Route(Inbound, request[r].msat)])

\* metadata_response: the wallet is told the limits.
Metadata(r) ==
    /\ At(r, "idle")
    /\ Set(r, [Free EXCEPT !.pc = "quoted", !.ask = "zap", !.noted = usable,
                           !.limit = MaxSendable(Inbound)])

\* Mutant of WithinLimits: the maximum itself is refused.
WithinLimitsStrictly(msat) == msat >= MinSendable /\ msat < MaxSendable(Inbound)

WithinLimits(msat) == msat >= MinSendable /\ msat <= MaxSendable(Inbound)

\* The first half of invoice_response, which reads the channels again.
Callback(r, msat) ==
    /\ At(r, "quoted")
    /\ IF WithinLimits(msat)
       THEN Set(r, [Free EXCEPT !.pc = "decided", !.ask = "zap",
                                !.msat = msat, !.seen = usable,
                                !.route = Route(Inbound, msat)])
       ELSE Set(r, [request[r] EXCEPT !.pc = "refused", !.msat = msat,
                                      !.seen = usable])

\* The node issues the invoice.  The provider may not answer for a channel,
\* and then the invoice is a plain one after all.
Issue(r) ==
    /\ At(r, "decided")
    /\ \E route \in IF request[r].route = "jit" THEN {"jit", "fallback"}
                                                 ELSE {"plain"} :
         Set(r, [request[r] EXCEPT !.pc = "issued", !.route = route])

\* create_invoice: whatever the channels hold.
Bootstrap(r, sats) ==
    /\ At(r, "idle")
    /\ Set(r, [Free EXCEPT !.pc = "issued", !.ask = "bootstrap", !.sats = sats,
                           !.msat = ToMsat(sats), !.seen = usable,
                           !.route = "plain"])

\* The node has no invoice to give, the reply has been read, or the invoice
\* has expired.
Done(r) ==
    /\ request[r].pc \in {"quoted", "decided", "refused", "issued"}
    /\ Set(r, Free)

-----------------------------------------------------------------------------
(* Payment of an open invoice, by the network and the provider.            *)

Paid(r, outcome, inbound) ==
    /\ request' = [request EXCEPT ![r].outcome = outcome,
                                  ![r].paidAt = usable]
    /\ usable' = inbound
    /\ UNCHANGED <<listing, idle>>

Payable(r) == At(r, "issued") /\ request[r].outcome # "received"

\* A payment takes inbound capacity; without enough of it, it fails.
PayOverChannel(r) ==
    /\ Payable(r) /\ request[r].route # "jit"
    /\ IF usable >= request[r].msat
       THEN Paid(r, "received", usable - request[r].msat)
       ELSE Paid(r, "unroutable", usable)

\* The provider opens a channel, takes its fee from the payment and forwards
\* the rest ...
PayJustInTime(r) ==
    /\ Payable(r) /\ request[r].route = "jit"
    /\ \E c \in Capacities :
         usable + c <= MaxInbound /\ Paid(r, "received", usable + c)

\* ... but where a channel holds the payment it may forward the rest over it,
\* and the node rejects what is less than the invoice says.
PayJustInTimeRejected(r) ==
    /\ Payable(r) /\ request[r].route = "jit"
    /\ usable >= request[r].msat
    /\ Paid(r, "rejected", usable)

-----------------------------------------------------------------------------
Next ==
    \/ \E p \in Prices, f \in Floors \cup {None} : PutProduct(p, f)
    \/ \E u, i \in Capacities : ChannelsChange(u, i)
    \/ \E r \in Requests :
         \/ \E s \in Asked \cup {None} : Price(r, s)
         \/ \E s \in Asked : Bootstrap(r, s)
         \/ \E m \in Zaps : Callback(r, m)
         \/ Decide(r) \/ Metadata(r) \/ Issue(r) \/ Done(r)
         \/ PayOverChannel(r) \/ PayJustInTime(r) \/ PayJustInTimeRejected(r)

Spec == Init /\ [][Next]_vars

-----------------------------------------------------------------------------
(* Properties.                                                             *)

\* What a sale was agreed at, in sats.
Agreed(q) ==
    LET l == q.listing
    IN  IF q.sats # None THEN q.sats
        ELSE IF l.floor # None /\ l.floor > l.price THEN l.floor ELSE l.price

\* Billed as the listing asks for: its price, or what the buyer chose at or
\* above its floor, to the millisatoshi and never nothing.
Fair(q) ==
    LET l == q.listing
    IN  /\ q.msat > 0
        /\ l.floor = None => q.msat = l.price * 1000
        /\ l.floor # None => q.msat >= l.floor * 1000
        /\ q.sats # None => q.msat = q.sats * 1000

\* "Name-your-price: anything at or above the floor" (gate.rs:212): each sale is
\* billed as the listing asks for.  It is not: the product of gate.rs:244 wraps.
FairPrice == \A r \in Requests :
    request[r].ask = "sale" => Fair(request[r])

\* A buyer is billed as the listing she was shown asks for, whatever is uploaded
\* meanwhile, unless the very amount she was to pay is too large for its msat to
\* fit their width; and then she is billed less, never more (resolve_amount,
\* gate.rs:244).
FairUnlessWrapped == \A r \in Requests :
    LET q == request[r]
    IN  q.ask = "sale" =>
          /\ Agreed(q) * 1000 < Wrap => Fair(q)
          /\ q.msat <= Agreed(q) * 1000

\* The node rejects a payment, as it would one forwarded over a channel for an
\* invoice that asks for a new one, only if its channels have come to hold the
\* payment since the request looked at them (gate.rs:253).
RejectedOnlyIfGrown == \A r \in Requests :
    LET q == request[r]
    IN  q.outcome = "rejected" => q.seen < q.msat /\ q.msat <= q.paidAt

\* A payer who was sent to the existing channels fails only if they hold less
\* than when the request looked at them; the invoices issued because no channel
\* could be opened, and the bootstrap invoices, never looked.
UnroutableOnlyIfShrunk == \A r \in Requests :
    LET q == request[r]
    IN  (q.outcome = "unroutable" /\ q.ask # "bootstrap" /\ q.route = "plain")
          => q.paidAt < q.seen

\* A wallet that keeps to the limits it was told is refused only if the
\* channels have changed since: the two handlers agree on the limits
\* (lnurl.rs:115 and lnurl.rs:138).
LimitsHonoured == \A r \in Requests :
    LET q == request[r]
    IN  (q.pc = "refused" /\ MinSendable <= q.msat /\ q.msat <= q.limit)
          => q.seen # q.noted

\* LNURL-pay asks for a new channel only where the node can receive next to
\* nothing: with channels, what exceeds them is refused (lnurl.rs:75).
ZapsOpenFirstChannel == \A r \in Requests :
    LET q == request[r]
    IN  (q.ask = "zap" /\ q.route = "jit") => q.seen < MinSendable
=============================================================================

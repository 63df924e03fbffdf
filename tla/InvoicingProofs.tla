--------------------------- MODULE InvoicingProofs ---------------------------
(***************************************************************************)
(* Proofs about Invoicing, for any listing, capacities and number of       *)
(* requests.  The properties of the run follow from one invariant, which   *)
(* says of every request how its price, its route and the outcome of its   *)
(* payment relate to what it saw.                                          *)
(***************************************************************************)
EXTENDS Invoicing, TLAPS

\* The route a request was given, by the capacity it saw.
Routed(q) ==
    /\ q.route = "plain" /\ q.ask # "bootstrap" => q.seen >= q.msat
    /\ q.route = "jit" => q.seen < q.msat
    /\ q.ask = "zap" /\ q.route = "jit" => q.seen < MinSendable

\* The limits a wallet was told, and why it was refused.
Limited(q) ==
    /\ q.pc \in {"quoted", "refused"} => q.limit = MaxSendable(q.noted)
    /\ q.pc = "refused" => ~(MinSendable <= q.msat /\ q.msat <= MaxSendable(q.seen))

\* How its payment ended.
Ended(q) ==
    /\ q.outcome = "rejected" => q.route = "jit" /\ q.msat <= q.paidAt
    /\ q.outcome = "unroutable" => q.paidAt < q.msat

\* By the state it is in.
Shaped(q) ==
    /\ q.pc \in {"idle", "priced", "quoted", "refused"} => q.route = "unset"
    /\ q.pc = "priced" => q.ask = "sale"
    /\ q.pc = "quoted" => q.ask = "zap"
    /\ q.pc = "decided" => q.route \in {"plain", "jit"}
    /\ q.pc # "issued" => q.outcome = "open"

Sound(q) == Routed(q) /\ Limited(q) /\ Ended(q) /\ Shaped(q)

RouteInv == TypeOK /\ \A r \in Requests : Sound(request[r])

-----------------------------------------------------------------------------
(* Amounts.                                                                *)

\* Within the width the conversion is exact.
Fits(sats) == sats * 1000 < Wrap

LEMMA ToMsatExact ==
    ASSUME NEW s \in Nat, Fits(s) PROVE ToMsat(s) = s * 1000
  <1> DEFINE x == s * 1000
  <1>1. x \in Nat /\ x < Wrap /\ Wrap \in Nat
    BY InvoicingAssumption DEF Fits
  <1>2. x % Wrap = x
    <2> HIDE DEF x
    <2> QED BY <1>1
  <1> QED BY <1>2 DEF ToMsat

LEMMA ToMsatAtMost ==
    ASSUME NEW s \in Nat PROVE ToMsat(s) <= s * 1000
  <1> DEFINE x == s * 1000
  <1>1. x \in Nat /\ Wrap \in Nat /\ Wrap > 0
    BY InvoicingAssumption
  <1>2. x % Wrap <= x
    <2> HIDE DEF x
    <2>1. CASE x < Wrap BY <1>1, <2>1
    <2>2. CASE ~(x < Wrap)
      <3>1. x % Wrap < Wrap /\ x % Wrap \in Nat BY <1>1
      <3> QED BY <1>1, <2>2, <3>1
    <2> QED BY <2>1, <2>2
  <1> QED BY <1>2 DEF ToMsat

LEMMA ToMsatType ==
    ASSUME NEW s \in Nat PROVE ToMsat(s) \in Nat
  <1> DEFINE x == s * 1000
  <1>1. x \in Nat /\ Wrap \in Nat /\ Wrap > 0
    BY InvoicingAssumption
  <1>2. x % Wrap \in Nat
    <2> HIDE DEF x
    <2> QED BY <1>1
  <1> QED BY <1>2 DEF ToMsat

LEMMA FreeRequest == Free \in Request /\ Sound(Free)
  BY InvoicingAssumption DEF Free, Request, Sound, Routed, Limited, Ended, Shaped

-----------------------------------------------------------------------------
(* One request changes, the others stay as they are.                       *)

LEMMA SetSound ==
    ASSUME RouteInv, NEW r \in Requests, NEW q, q \in Request, Sound(q),
           Set(r, q)
    PROVE  RouteInv'
  <1>1. request' = [request EXCEPT ![r] = q] /\ UNCHANGED <<listing, usable, idle>>
    BY DEF Set
  <1>2. request \in [Requests -> Request] /\ \A p \in Requests : Sound(request[p])
    BY DEF RouteInv, TypeOK
  <1>3. request' \in [Requests -> Request]
    BY <1>1, <1>2
  <1>4. \A p \in Requests : request'[p] = IF p = r THEN q ELSE request[p]
    BY <1>1, <1>2
  <1>5. \A p \in Requests : Sound(request'[p])
    BY <1>2, <1>4
  <1> QED BY <1>1, <1>3, <1>5 DEF RouteInv, TypeOK, Sound, Routed, Limited, Ended, Shaped

LEMMA PriceSound ==
    ASSUME RouteInv, NEW r \in Requests, NEW s \in Asked \cup {None}, Price(r, s)
    PROVE  RouteInv'
  <1> DEFINE amount == ResolveAmount(listing, s)
             q == [Free EXCEPT !.pc = "priced", !.ask = "sale",
                               !.listing = listing, !.sats = s,
                               !.msat = ToMsat(amount)]
  <1>1. listing \in Listing /\ s \in Nat \cup {None}
    BY InvoicingAssumption DEF Price, RouteInv, TypeOK
  <1>2. CASE amount \in {None, 0}
    <2>1. Set(r, Free) BY <1>2 DEF Price
    <2> QED BY <2>1, FreeRequest, SetSound
  <1>3. CASE amount \notin {None, 0}
    <2>1. Set(r, q) BY <1>3 DEF Price
    <2>2. amount \in Nat
      BY <1>1, <1>3 DEF ResolveAmount, Listing
    <2>3. ToMsat(amount) \in Nat BY <2>2, ToMsatType
    <2>4. q \in Request /\ Sound(q)
      <3> HIDE DEF amount
      <3> QED BY <1>1, <2>3 DEF Free, Request, Sound, Routed, Limited, Ended, Shaped
    <2> QED BY <2>1, <2>4, SetSound
  <1> QED BY <1>2, <1>3

\* The route by the capacity, and the capacity a request records.
LEMMA RouteRight ==
    ASSUME NEW msat \in Nat, NEW inbound \in Nat
    PROVE  /\ Route(inbound, msat) \in {"plain", "jit"}
           /\ Route(inbound, msat) = "plain" <=> inbound >= msat
  BY DEF Route

LEMMA DecideSound ==
    ASSUME RouteInv, NEW r \in Requests, Decide(r) PROVE RouteInv'
  <1> DEFINE q == request[r]
             n == [q EXCEPT !.pc = "decided", !.seen = usable,
                            !.route = Route(Inbound, q.msat)]
  <1>1. q \in Request /\ Sound(q) /\ q.pc = "priced" /\ usable \in Nat
    BY DEF RouteInv, TypeOK, Decide, At
  <1>2. q.msat \in Nat BY <1>1 DEF Request
  <1>3. /\ Route(usable, q.msat) \in {"plain", "jit"}
        /\ Route(usable, q.msat) = "plain" <=> usable >= q.msat
    BY <1>1, <1>2, RouteRight
  <1>4. Set(r, n) BY DEF Decide
  <1>5. /\ n \in Request
        /\ n.pc = "decided" /\ n.ask = "sale" /\ n.msat = q.msat
        /\ n.seen = usable /\ n.route = Route(usable, q.msat)
        /\ n.outcome = "open"
    <2> HIDE DEF q
    <2> QED BY <1>1, <1>2, <1>3 DEF Request, Sound, Shaped, Inbound
  <1>6. Sound(n)
    <2> HIDE DEF n, q
    <2> QED BY <1>1, <1>2, <1>3, <1>5
            DEF Sound, Routed, Limited, Ended, Shaped
  <1> QED BY <1>4, <1>5, <1>6, SetSound

LEMMA MetadataSound ==
    ASSUME RouteInv, NEW r \in Requests, Metadata(r) PROVE RouteInv'
  <1> DEFINE n == [Free EXCEPT !.pc = "quoted", !.ask = "zap", !.noted = usable,
                               !.limit = MaxSendable(Inbound)]
  <1>1. usable \in Nat /\ MaxSendable(usable) \in Nat
    BY InvoicingAssumption DEF RouteInv, TypeOK, MaxSendable
  <1>2. Set(r, n) BY DEF Metadata
  <1>3. n \in Request /\ Sound(n)
    BY <1>1
    DEF Free, Request, Sound, Routed, Limited, Ended, Shaped, Inbound
  <1> QED BY <1>2, <1>3, SetSound

LEMMA CallbackSound ==
    ASSUME RouteInv, NEW r \in Requests, NEW msat \in Zaps, Callback(r, msat)
    PROVE  RouteInv'
  <1> DEFINE q == request[r]
             n == [Free EXCEPT !.pc = "decided", !.ask = "zap", !.msat = msat,
                               !.seen = usable, !.route = Route(Inbound, msat)]
             m == [q EXCEPT !.pc = "refused", !.msat = msat, !.seen = usable]
  <1>1. q \in Request /\ Sound(q) /\ q.pc = "quoted" /\ usable \in Nat
    BY DEF RouteInv, TypeOK, Callback, At
  <1>2. msat \in Nat /\ MinSendable \in Nat
    BY InvoicingAssumption
  <1>3. CASE WithinLimits(msat)
    <2>1. Set(r, n) BY <1>3 DEF Callback
    <2>2. /\ Route(usable, msat) \in {"plain", "jit"}
          /\ Route(usable, msat) = "plain" <=> usable >= msat
      BY <1>1, <1>2, RouteRight
    <2>3. usable < msat => usable < MinSendable
      BY <1>1, <1>2, <1>3 DEF WithinLimits, MaxSendable, Inbound
    <2>4. n = [Free EXCEPT !.pc = "decided", !.ask = "zap", !.msat = msat,
                           !.seen = usable, !.route = Route(usable, msat)]
      BY DEF Inbound
    <2>5. usable \in Nat BY <1>1
    <2>6. n \in Request
      BY <1>2, <2>2, <2>4, <2>5 DEF Free, Request
    <2>7. /\ n.pc = "decided" /\ n.ask = "zap" /\ n.msat = msat
          /\ n.seen = usable /\ n.route = Route(usable, msat)
          /\ n.outcome = "open"
      BY <2>4 DEF Free
    <2>8. Sound(n)
      <3> HIDE DEF n, q
      <3>1. Routed(n) BY <1>2, <2>2, <2>3, <2>5, <2>7 DEF Routed
      <3> QED BY <2>2, <2>7, <3>1 DEF Sound, Limited, Ended, Shaped
    <2> QED BY <2>1, <2>6, <2>8, SetSound
  <1>4. CASE ~WithinLimits(msat)
    <2>1. Set(r, m) BY <1>4 DEF Callback
    <2>2. ~(MinSendable <= msat /\ msat <= MaxSendable(usable))
      BY <1>1, <1>2, <1>4 DEF WithinLimits, Inbound
    <2>3. m \in Request /\ Sound(m)
      <3> HIDE DEF q
      <3> QED BY <1>1, <1>2, <2>2
              DEF Request, Sound, Routed, Limited, Ended, Shaped
    <2> QED BY <2>1, <2>3, SetSound
  <1> QED BY <1>3, <1>4

LEMMA IssueSound ==
    ASSUME RouteInv, NEW r \in Requests, Issue(r) PROVE RouteInv'
  <1> DEFINE q == request[r]
  <1>1. q \in Request /\ Sound(q) /\ q.pc = "decided"
    BY DEF RouteInv, TypeOK, Issue, At
  <1>2. PICK route \in IF q.route = "jit" THEN {"jit", "fallback"} ELSE {"plain"} :
          Set(r, [q EXCEPT !.pc = "issued", !.route = route])
    BY DEF Issue
  <1> DEFINE n == [q EXCEPT !.pc = "issued", !.route = route]
  <1>3. q.route \in {"plain", "jit"} BY <1>1 DEF Sound, Shaped
  <1>4. /\ route \in {"plain", "jit", "fallback"}
        /\ route # "fallback" => route = q.route
    BY <1>2, <1>3
  <1>5. n \in Request /\ Sound(n)
    <2> HIDE DEF q
    <2> QED BY <1>1, <1>4 DEF Request, Sound, Routed, Limited, Ended, Shaped
  <1>6. Set(r, n) BY <1>2
  <1> QED BY <1>5, <1>6, SetSound

LEMMA BootstrapSound ==
    ASSUME RouteInv, NEW r \in Requests, NEW s \in Asked, Bootstrap(r, s)
    PROVE  RouteInv'
  <1> DEFINE n == [Free EXCEPT !.pc = "issued", !.ask = "bootstrap", !.sats = s,
                               !.msat = ToMsat(s), !.seen = usable,
                               !.route = "plain"]
  <1>1. s \in Nat /\ usable \in Nat
    BY InvoicingAssumption DEF RouteInv, TypeOK
  <1>2. ToMsat(s) \in Nat BY <1>1, ToMsatType
  <1>3. Set(r, n) BY DEF Bootstrap
  <1>4. n \in Request /\ Sound(n)
    BY <1>1, <1>2, InvoicingAssumption
    DEF Free, Request, Sound, Routed, Limited, Ended, Shaped
  <1> QED BY <1>3, <1>4, SetSound

-----------------------------------------------------------------------------
(* Payments.                                                               *)

LEMMA PaidSound ==
    ASSUME RouteInv, NEW r \in Requests, Payable(r),
           NEW outcome \in {"received", "rejected", "unroutable"},
           NEW inbound \in Nat, Paid(r, outcome, inbound),
           outcome = "rejected" =>
             request[r].route = "jit" /\ request[r].msat <= usable,
           outcome = "unroutable" => usable < request[r].msat
    PROVE  RouteInv'
  <1> DEFINE q == request[r]
             n == [q EXCEPT !.outcome = outcome, !.paidAt = usable]
  <1>1. q \in Request /\ Sound(q) /\ q.pc = "issued" /\ usable \in Nat
    BY DEF RouteInv, TypeOK, Payable, At
  <1>2. n \in Request /\ Sound(n)
    <2> HIDE DEF q
    <2>1. n.pc = "issued" /\ n.route = q.route /\ n.msat = q.msat
      BY <1>1 DEF Request
    <2> QED BY <1>1 DEF q, Request, Sound, Routed, Limited, Ended, Shaped
  <1>3. request' = [request EXCEPT ![r] = n] /\ usable' = inbound
        /\ UNCHANGED <<listing, idle>>
    BY DEF Paid, RouteInv, TypeOK
  <1>4. request \in [Requests -> Request] /\ \A p \in Requests : Sound(request[p])
    BY DEF RouteInv, TypeOK
  <1>5. request' \in [Requests -> Request]
        /\ \A p \in Requests : Sound(request'[p])
    <2> HIDE DEF n
    <2>1. \A p \in Requests : request'[p] = IF p = r THEN n ELSE request[p]
      BY <1>3, <1>4
    <2> QED BY <1>2, <1>3, <1>4, <2>1
  <1> QED BY <1>3, <1>5 DEF RouteInv, TypeOK, Sound, Routed, Limited, Ended, Shaped

LEMMA PaymentSound ==
    ASSUME RouteInv, NEW r \in Requests,
           PayOverChannel(r) \/ PayJustInTime(r) \/ PayJustInTimeRejected(r)
    PROVE  RouteInv'
  <1> DEFINE q == request[r]
  <1>1. q \in Request /\ q.msat \in Nat /\ usable \in Nat
    BY DEF RouteInv, TypeOK, Request
  <1>2. CASE PayOverChannel(r)
    <2>1. CASE usable >= q.msat
      <3>1. usable - q.msat \in Nat BY <1>1, <2>1
      <3>2. Payable(r) /\ Paid(r, "received", usable - q.msat)
        BY <1>2, <2>1 DEF PayOverChannel
      <3> QED BY <3>1, <3>2, PaidSound
    <2>2. CASE ~(usable >= q.msat)
      <3>1. usable < q.msat BY <1>1, <2>2
      <3>2. Payable(r) /\ Paid(r, "unroutable", usable)
        BY <1>2, <2>2 DEF PayOverChannel
      <3> QED BY <1>1, <3>1, <3>2, PaidSound
    <2> QED BY <2>1, <2>2
  <1>3. CASE PayJustInTime(r)
    <2>1. PICK c \in Capacities : Paid(r, "received", usable + c)
      BY <1>3 DEF PayJustInTime
    <2>2. Payable(r) BY <1>3 DEF PayJustInTime
    <2>3. usable + c \in Nat BY <1>1, InvoicingAssumption
    <2> QED BY <2>1, <2>2, <2>3, PaidSound
  <1>4. CASE PayJustInTimeRejected(r)
    <2>1. /\ Payable(r) /\ q.route = "jit" /\ usable >= q.msat
          /\ Paid(r, "rejected", usable)
      BY <1>4 DEF PayJustInTimeRejected
    <2>2. q.msat <= usable BY <1>1, <2>1
    <2> QED BY <1>1, <2>1, <2>2, PaidSound
  <1> QED BY <1>2, <1>3, <1>4

LEMMA RouteInvStep == RouteInv /\ [Next]_vars => RouteInv'
  <1> SUFFICES ASSUME RouteInv, [Next]_vars PROVE RouteInv'
    OBVIOUS
  <1>1. CASE UNCHANGED vars
    BY <1>1 DEF vars, RouteInv, TypeOK, Sound, Routed, Limited, Ended, Shaped
  <1>2. ASSUME NEW p \in Prices, NEW f \in Floors \cup {None}, PutProduct(p, f)
        PROVE  RouteInv'
    <2>1. listing' \in Listing BY <1>2, InvoicingAssumption DEF PutProduct, Listing
    <2> QED BY <1>2, <2>1
            DEF PutProduct, RouteInv, TypeOK, Sound, Routed, Limited, Ended, Shaped
  <1>3. ASSUME NEW u \in Capacities, NEW i \in Capacities, ChannelsChange(u, i)
        PROVE  RouteInv'
    <2>1. u \in Nat /\ i \in Nat BY InvoicingAssumption
    <2> QED BY <1>3, <2>1
            DEF ChannelsChange, RouteInv, TypeOK, Sound, Routed, Limited, Ended, Shaped
  <1>4. ASSUME NEW r \in Requests, Done(r) PROVE RouteInv'
    <2>1. Set(r, Free) BY <1>4 DEF Done
    <2> QED BY <2>1, FreeRequest, SetSound
  <1> QED
    BY <1>1, <1>2, <1>3, <1>4, PriceSound, DecideSound, MetadataSound,
       CallbackSound, IssueSound, BootstrapSound, PaymentSound
    DEF Next

LEMMA RouteInvInit == Init => RouteInv
  BY FreeRequest, InvoicingAssumption DEF Init, RouteInv, TypeOK

\* Every state is of its type, and every request is sound.
THEOREM RouteInvariant == Spec => []RouteInv
  BY RouteInvInit, RouteInvStep, PTL DEF Spec

THEOREM TypeCorrect == Spec => []TypeOK
  <1>1. RouteInv => TypeOK BY DEF RouteInv
  <1> QED BY <1>1, RouteInvariant, PTL

\* A payment is rejected only where the channels have grown since the request
\* saw them (gate.rs:253).
THEOREM RejectedOnlyIfGrownHolds == Spec => []RejectedOnlyIfGrown
  <1>1. RouteInv => RejectedOnlyIfGrown
    BY DEF RouteInv, Sound, Routed, Ended, RejectedOnlyIfGrown
  <1> QED BY <1>1, RouteInvariant, PTL

\* A payer sent to the existing channels fails only if they have shrunk.
THEOREM UnroutableOnlyIfShrunkHolds == Spec => []UnroutableOnlyIfShrunk
  <1>1. RouteInv => UnroutableOnlyIfShrunk
    <2> SUFFICES ASSUME RouteInv, NEW r \in Requests,
                        request[r].outcome = "unroutable",
                        request[r].ask # "bootstrap",
                        request[r].route = "plain"
                 PROVE  request[r].paidAt < request[r].seen
      BY DEF UnroutableOnlyIfShrunk
    <2>1. request[r].paidAt < request[r].msat /\ request[r].seen >= request[r].msat
      BY DEF RouteInv, Sound, Routed, Ended
    <2>2. request[r].paidAt \in Nat /\ request[r].seen \in Nat /\ request[r].msat \in Nat
      BY DEF RouteInv, TypeOK, Request
    <2> QED BY <2>1, <2>2
  <1> QED BY <1>1, RouteInvariant, PTL

\* Limits that a wallet keeps to are honoured while the channels stay as they
\* are (lnurl.rs:115).
THEOREM LimitsHonouredHolds == Spec => []LimitsHonoured
  <1>1. RouteInv => LimitsHonoured
    BY DEF RouteInv, Sound, Limited, LimitsHonoured
  <1> QED BY <1>1, RouteInvariant, PTL

\* LNURL-pay opens a channel only for a node that has next to none.
THEOREM ZapsOpenFirstChannelHolds == Spec => []ZapsOpenFirstChannel
  <1>1. RouteInv => ZapsOpenFirstChannel
    BY DEF RouteInv, Sound, Routed, ZapsOpenFirstChannel
  <1> QED BY <1>1, RouteInvariant, PTL

-----------------------------------------------------------------------------
(* What a sale is billed.                                                  *)

\* Of one request.
Billed(q) ==
    q.ask = "sale" =>
      /\ Agreed(q) * 1000 < Wrap => Fair(q)
      /\ q.msat <= Agreed(q) * 1000

FairInv == \A r \in Requests : Billed(request[r])

LEMMA FreeFair == Billed(Free)
  BY DEF Billed, Free

LEMMA SetFair ==
    ASSUME RouteInv, FairInv, NEW r \in Requests, NEW q, Set(r, q), Billed(q)
    PROVE  FairInv'
  <1>1. request' = [request EXCEPT ![r] = q] /\ listing' = listing
    BY DEF Set
  <1>2. \A p \in Requests : request'[p] = IF p = r THEN q ELSE request[p]
    BY <1>1 DEF RouteInv, TypeOK
  <1>3. \A p \in Requests : Billed(request'[p])
    BY <1>2 DEF FairInv
  <1> QED BY <1>3 DEF FairInv, Billed, Fair, Agreed

\* resolve_amount: the price, or what the buyer chose at or above the floor.
LEMMA ResolveAmountFair ==
    ASSUME NEW item \in Listing, NEW s \in Nat \cup {None},
           ResolveAmount(item, s) # None
    PROVE  LET a == ResolveAmount(item, s)
           IN  /\ a \in Nat
               /\ item.floor = None => a = item.price
               /\ item.floor # None => a >= item.floor
               /\ s # None => a = s
               /\ s = None => a = IF item.floor # None /\ item.floor > item.price
                                  THEN item.floor ELSE item.price
  BY InvoicingAssumption DEF ResolveAmount, Listing

LEMMA PriceFair ==
    ASSUME RouteInv, FairInv, NEW r \in Requests,
           NEW s \in Asked \cup {None}, Price(r, s)
    PROVE  FairInv'
  <1> DEFINE amount == ResolveAmount(listing, s)
             q == [Free EXCEPT !.pc = "priced", !.ask = "sale",
                               !.listing = listing, !.sats = s,
                               !.msat = ToMsat(amount)]
  <1>1. listing # None /\ listing \in Listing /\ s \in Nat \cup {None}
    BY InvoicingAssumption DEF Price, RouteInv, TypeOK
  <1>2. CASE amount \in {None, 0}
    <2>1. Set(r, Free) BY <1>2 DEF Price
    <2> QED BY <2>1, FreeFair, SetFair
  <1>3. CASE amount \notin {None, 0}
    <2>1. Set(r, q) BY <1>3 DEF Price
    <2>2. /\ amount \in Nat
          /\ listing.floor = None => amount = listing.price
          /\ listing.floor # None => amount >= listing.floor
          /\ s # None => amount = s
          /\ s = None => amount = IF listing.floor # None /\ listing.floor > listing.price
                                  THEN listing.floor ELSE listing.price
      BY <1>1, <1>3, ResolveAmountFair
    <2>3. q.listing = listing /\ q.sats = s /\ q.msat = ToMsat(amount)
      BY DEF Free
    <2>4. Agreed(q) = amount
      <3> HIDE DEF amount, q
      <3> QED BY <2>2, <2>3 DEF Agreed
    <2>5. q.msat <= amount * 1000
      BY <2>2, <2>3, ToMsatAtMost
    <2>6. ASSUME amount * 1000 < Wrap PROVE Fair(q)
      <3>1. q.msat = amount * 1000
        BY <2>2, <2>3, <2>6, ToMsatExact DEF Fits
      <3> HIDE DEF amount, q
      <3>2. amount > 0 BY <1>3, <2>2
      <3>3. listing.floor # None =>
              listing.floor \in Nat /\ amount * 1000 >= listing.floor * 1000
        BY <1>1, <2>2 DEF Listing
      <3> QED BY <2>2, <2>3, <3>1, <3>2, <3>3 DEF Fair
    <2>7. Billed(q)
      <3> HIDE DEF amount, q
      <3> QED BY <2>4, <2>5, <2>6 DEF Billed
    <2> QED BY <2>1, <2>7, SetFair
  <1> QED BY <1>2, <1>3

\* What a request was billed does not change afterwards.
LEMMA SameBill ==
    ASSUME NEW q \in Request, NEW n, Billed(q), n.ask = q.ask,
           n.msat = q.msat, n.listing = q.listing, n.sats = q.sats
    PROVE  Billed(n)
  BY DEF Billed, Fair, Agreed

LEMMA ContinueFair ==
    ASSUME RouteInv, FairInv, NEW r \in Requests,
           Decide(r) \/ Metadata(r) \/ Issue(r) \/ Done(r)
           \/ (\E m \in Zaps : Callback(r, m)) \/ (\E s \in Asked : Bootstrap(r, s))
    PROVE  FairInv'
  <1> DEFINE q == request[r]
  <1>1. q \in Request /\ Billed(q) /\ Sound(q) BY DEF RouteInv, TypeOK, FairInv
  <1>2. CASE Decide(r)
    <2> DEFINE n == [q EXCEPT !.pc = "decided", !.seen = usable,
                              !.route = Route(Inbound, q.msat)]
    <2>1. Set(r, n) BY <1>2 DEF Decide
    <2>2. n.ask = q.ask /\ n.msat = q.msat /\ n.listing = q.listing /\ n.sats = q.sats
      BY <1>1 DEF Request
    <2>3. Billed(n) BY <1>1, <2>2, SameBill
    <2> QED BY <2>1, <2>3, SetFair
  <1>3. CASE Metadata(r)
    <2> DEFINE n == [Free EXCEPT !.pc = "quoted", !.ask = "zap",
                                 !.noted = usable, !.limit = MaxSendable(Inbound)]
    <2>1. Set(r, n) BY <1>3 DEF Metadata
    <2>2. n.ask = "zap" BY DEF Free
    <2> QED BY <2>1, <2>2, SetFair DEF Billed
  <1>4. CASE Issue(r)
    <2>1. PICK route : Set(r, [q EXCEPT !.pc = "issued", !.route = route])
      BY <1>4 DEF Issue
    <2> DEFINE n == [q EXCEPT !.pc = "issued", !.route = route]
    <2>2. n.ask = q.ask /\ n.msat = q.msat /\ n.listing = q.listing /\ n.sats = q.sats
      BY <1>1 DEF Request
    <2>3. Billed(n) BY <1>1, <2>2, SameBill
    <2> QED BY <2>1, <2>3, SetFair
  <1>5. CASE Done(r)
    <2>1. Set(r, Free) BY <1>5 DEF Done
    <2> QED BY <2>1, FreeFair, SetFair
  <1>6. ASSUME NEW m \in Zaps, Callback(r, m) PROVE FairInv'
    <2> DEFINE n == [Free EXCEPT !.pc = "decided", !.ask = "zap", !.msat = m,
                                 !.seen = usable, !.route = Route(Inbound, m)]
               o == [q EXCEPT !.pc = "refused", !.msat = m, !.seen = usable]
    <2>1. Set(r, n) \/ Set(r, o) BY <1>6 DEF Callback
    <2>2. n.ask = "zap" BY DEF Free
    <2>3. o.ask = "zap"
      BY <1>1, <1>6 DEF Callback, At, Request, Sound, Shaped
    <2> QED BY <2>1, <2>2, <2>3, SetFair DEF Billed
  <1>7. ASSUME NEW s \in Asked, Bootstrap(r, s) PROVE FairInv'
    <2> DEFINE n == [Free EXCEPT !.pc = "issued", !.ask = "bootstrap",
                                 !.sats = s, !.msat = ToMsat(s),
                                 !.seen = usable, !.route = "plain"]
    <2>1. Set(r, n) BY <1>7 DEF Bootstrap
    <2>2. n.ask = "bootstrap" BY DEF Free
    <2> QED BY <2>1, <2>2, SetFair DEF Billed
  <1> QED BY <1>2, <1>3, <1>4, <1>5, <1>6, <1>7

LEMMA PaymentFair ==
    ASSUME RouteInv, FairInv, NEW r \in Requests, NEW outcome, NEW inbound,
           Paid(r, outcome, inbound)
    PROVE  FairInv'
  <1> DEFINE q == request[r]
             n == [q EXCEPT !.outcome = outcome, !.paidAt = usable]
  <1>1. q \in Request /\ Billed(q) BY DEF RouteInv, TypeOK, FairInv
  <1>2. Billed(n)
    <2>1. n.ask = q.ask /\ n.msat = q.msat /\ n.listing = q.listing /\ n.sats = q.sats
      BY <1>1 DEF Request
    <2> QED BY <1>1, <2>1, SameBill
  <1>3. request' = [request EXCEPT ![r] = n] /\ listing' = listing
    BY DEF Paid, RouteInv, TypeOK
  <1>4. \A p \in Requests : Billed(request'[p])
    <2> HIDE DEF n
    <2>1. \A p \in Requests : request'[p] = IF p = r THEN n ELSE request[p]
      BY <1>3 DEF RouteInv, TypeOK
    <2> QED BY <1>2, <2>1 DEF FairInv
  <1> QED BY <1>4 DEF FairInv, Billed, Fair, Agreed

LEMMA FairInvStep ==
    ASSUME RouteInv, FairInv, [Next]_vars PROVE FairInv'
  <1>1. CASE UNCHANGED vars
    BY <1>1 DEF vars, FairInv, Billed, Fair, Agreed
  <1>2. ASSUME NEW p \in Prices, NEW f \in Floors \cup {None}, PutProduct(p, f)
        PROVE  FairInv'
    BY <1>2 DEF PutProduct, FairInv, Billed, Fair, Agreed
  <1>3. ASSUME NEW u \in Capacities, NEW i \in Capacities, ChannelsChange(u, i)
        PROVE  FairInv'
    BY <1>3 DEF ChannelsChange, FairInv, Billed, Fair, Agreed
  <1>4. ASSUME NEW r \in Requests,
               PayOverChannel(r) \/ PayJustInTime(r) \/ PayJustInTimeRejected(r)
        PROVE  FairInv'
    BY <1>4, PaymentFair DEF PayOverChannel, PayJustInTime, PayJustInTimeRejected
  <1> QED BY <1>1, <1>2, <1>3, <1>4, PriceFair, ContinueFair DEF Next

\* Buyers are billed what the listing they were shown asks for (gate.rs:202), for
\* any amounts that they or the artist ask for, except a sale whose own amount
\* exceeds the width; that one is billed less (gate.rs:244).
THEOREM FairUnlessWrappedHolds == Spec => []FairUnlessWrapped
  <1>1. Init => FairInv
    <2>1. Init => \A r \in Requests : request[r] = Free
      BY DEF Init
    <2> QED BY <2>1, FreeFair DEF FairInv
  <1>2. RouteInv /\ FairInv /\ [Next]_vars => FairInv'
    BY FairInvStep
  <1>3. FairInv => FairUnlessWrapped BY DEF FairInv, Billed, FairUnlessWrapped
  <1> QED BY <1>1, <1>2, <1>3, RouteInvariant, PTL DEF Spec
=============================================================================

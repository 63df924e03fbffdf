---------------------------- MODULE Nip98Proofs ----------------------------
(***************************************************************************)
(* Proofs about Nip98, for any keys, calls, clocks and width of a time.    *)
(***************************************************************************)
EXTENDS Nip98, TLAPS

\* The sums of the freshness check wrap around for times close to the largest
\* one, and its verdict is right all the same: no header, whatever time it
\* states, is taken for fresh or for stale by an overflow (nip98.rs:62).
THEOREM FreshIsExact ==
    ASSUME NEW created \in 0 .. Wrap - 1, NEW time \in 0 .. MaxTime
    PROVE  Fresh(created, time) <=>
             (time <= created + Window /\ created <= time + Window)
  <1>1. Wrap \in Nat /\ MaxTime \in Nat /\ Window \in Nat
        /\ MaxTime + 2 * Window < Wrap
    BY Nip98Assumption
  <1>2. Plus(time, Window) = time + Window
    BY <1>1 DEF Plus
  <1>3. CASE created + Window < Wrap
    <2>1. Plus(created, Window) = created + Window BY <1>3 DEF Plus
    <2> QED BY <1>1, <1>2, <2>1 DEF Fresh
  <1>4. CASE ~(created + Window < Wrap)
    <2>1. created > time + Window BY <1>1, <1>4
    <2> QED BY <1>1, <1>2, <2>1 DEF Fresh
  <1> QED BY <1>3, <1>4

-----------------------------------------------------------------------------
(* Served calls were verified at the time they arrived, and what arrives   *)
(* undamaged has been signed.                                              *)

VerifiedAt(h, call, key, time) ==
    /\ h.intact
    /\ h.kind = "HttpAuth"
    /\ h.url = VerifiedUrl(call)
    /\ h.method = call.method
    /\ Fresh(h.created, time)
    /\ call.body # None => h.payload = call.body
    /\ h.signer = key

ServedRight ==
    served # None =>
      LET h == served.header
          c == served.call
      IN  /\ served.done <=> (KeyFor(c) # None /\ VerifiedAt(h, c, KeyFor(c), served.at))
          /\ h.intact => h \in signed
          /\ h.signedAt <= served.at

SignedBefore == \A h \in signed : h.signedAt <= now

\* The tags of a header are those of the call it was signed for.
Stated(h) ==
    /\ h.url[2] = h.call.path /\ h.method = h.call.method
    /\ h.payload = h.call.body

TagsRight ==
    /\ \A h \in signed : Stated(h)
    /\ served # None => Stated(served.header)

Inv == TypeOK /\ ServedRight /\ SignedBefore /\ TagsRight

LEMMA InitInv == Init => Inv
  BY Nip98Assumption DEF Init, Inv, TypeOK, ServedRight, SignedBefore, TagsRight

LEMMA SignInv ==
    ASSUME Inv, NEW key \in Keys, NEW kind \in {"HttpAuth", "Note"},
           NEW call \in Calls, NEW base \in Bases,
           NEW query \in {None, call.query}, NEW created \in 0 .. Wrap - 1,
           Sign(key, kind, call, base, query, created)
    PROVE  Inv'
  <1> DEFINE h == Signed(key, kind, call, base, query, created)
  <1>1. signed' = signed \cup {h} /\ UNCHANGED <<env, proc, now, served>>
    BY DEF Sign
  <1>2. call \in [method : STRING, path : STRING,
                  query : STRING \cup {None}, body : STRING \cup {None}]
        /\ now \in 0 .. MaxTime
    BY Nip98Assumption DEF Inv, TypeOK
  <1>3. h \in Header BY <1>2 DEF Header, Signed
  <1>4. TypeOK' BY <1>1, <1>3 DEF Inv, TypeOK
  <1>5. ServedRight'
    <2> HIDE DEF h
    <2> QED BY <1>1 DEF Inv, ServedRight, KeyFor, AdminEnv, VerifiedAt
  <1>6. SignedBefore'
    <2>1. h.signedAt <= now BY <1>2 DEF Signed
    <2> HIDE DEF h
    <2> QED BY <1>1, <2>1 DEF Inv, SignedBefore
  <1>7. TagsRight'
    <2>1. Stated(h) BY DEF Stated, Signed
    <2> HIDE DEF h
    <2> QED BY <1>1, <2>1 DEF Inv, TagsRight, Stated
  <1> QED BY <1>4, <1>5, <1>6, <1>7 DEF Inv

LEMMA ArriveInv ==
    ASSUME Inv, NEW h \in signed, NEW call \in Calls,
           NEW g \in {h} \cup Damaged(h), Arrive(g, call)
    PROVE  Inv'
  <1> DEFINE key == KeyFor(call)
             done == key # None /\ Verify(g, call, key)
  <1>1. served' = [header |-> g, call |-> call, at |-> now, done |-> done]
        /\ UNCHANGED <<env, proc, now, signed>>
    BY DEF Arrive
  <1>2. h \in Header /\ now \in 0 .. MaxTime BY DEF Inv, TypeOK
  <1>3. g \in Header /\ (g.intact => g \in signed) /\ g.signedAt <= now
    <2>1. h.signedAt <= now BY DEF Inv, SignedBefore
    <2> QED BY <1>2, <2>1 DEF Damaged, Header
  <1>4. served' \in Outcome(BOOLEAN)
    <2> HIDE DEF done
    <2>1. (done <=> TRUE) \/ (done <=> FALSE) OBVIOUS
    <2>2. done \in BOOLEAN BY DEF done
    <2> QED BY <1>1, <1>2, <1>3, <2>2 DEF Outcome
  <1>5. TypeOK' BY <1>1, <1>4 DEF Inv, TypeOK
  <1>6. done <=> (key # None /\ VerifiedAt(g, call, key, now))
    BY DEF Verify, VerifiedAt
  <1>7. /\ served'.header = g /\ served'.call = call /\ served'.at = now
        /\ served'.done = done
    BY <1>1
  <1>8. ServedRight'
    <2> HIDE DEF done
    <2>1. KeyFor(call)' = key BY <1>1 DEF KeyFor, AdminEnv
    <2> QED BY <1>1, <1>3, <1>6, <1>7, <2>1 DEF ServedRight, KeyFor, AdminEnv, VerifiedAt
  <1>9. SignedBefore' BY <1>1 DEF Inv, SignedBefore
  <1>10. TagsRight'
    <2>1. Stated(h) BY DEF Inv, TagsRight
    <2>2. Stated(g) BY <1>2, <2>1 DEF Damaged, Header, Stated
    <2> QED BY <1>1, <1>7, <2>2 DEF Inv, TagsRight, Stated
  <1> QED BY <1>5, <1>8, <1>9, <1>10 DEF Inv

LEMMA NextInv == Inv /\ [Next]_vars => Inv'
  <1> SUFFICES ASSUME Inv, [Next]_vars PROVE Inv'
    OBVIOUS
  <1>0. \A created \in WrongTimes \cup {t \in 0 .. MaxTime + Skew : Near(t, now)} :
          created \in 0 .. Wrap - 1
    BY Nip98Assumption
  <1> USE DEF Inv, TypeOK, ServedRight, SignedBefore, TagsRight, Stated,
             KeyFor, AdminEnv, VerifiedAt, VerifiedUrl
  <1>1. CASE UNCHANGED vars BY <1>1 DEF vars
  <1>2. CASE ReadKeys BY <1>2 DEF ReadKeys
  <1>3. CASE Tick
    <2>1. now' \in 0 .. MaxTime /\ now <= now' BY <1>3, Nip98Assumption DEF Tick
    <2>2. \A h \in signed : h.signedAt \in 0 .. MaxTime BY DEF Header
    <2>3. \A h \in signed : h.signedAt <= now'
      BY <2>1, <2>2
    <2> QED BY <1>3, <2>1, <2>3 DEF Tick
  <1>4. ASSUME NEW key \in Keys, NEW kind \in {"HttpAuth", "Note"},
               NEW call \in Calls, NEW base \in Bases,
               NEW created \in WrongTimes \cup {t \in 0 .. MaxTime + Skew : Near(t, now)},
               NEW query \in {None, call.query},
               Sign(key, kind, call, base, query, created)
        PROVE  Inv'
    <2>1. created \in 0 .. Wrap - 1 BY <1>0
    <2> QED BY <1>4, <2>1, SignInv
  <1>5. ASSUME NEW h \in signed, NEW call \in Calls,
               NEW g \in {h} \cup Damaged(h), Arrive(g, call)
        PROVE  Inv'
    BY <1>5, ArriveInv
  <1> QED BY <1>1, <1>2, <1>3, <1>4, <1>5 DEF Next

THEOREM Invariance == Spec => []Inv
  BY InitInv, NextInv, PTL DEF Spec

\* Every state is of its type.
THEOREM TypeCorrect == Spec => []TypeOK
  <1>1. Inv => TypeOK BY DEF Inv
  <1> QED BY <1>1, Invariance, PTL

\* What the daemon does has been signed for it with the key configured for it;
\* of an upload, all but the terms.
THEOREM DoneWasSignedHolds == Spec => []DoneWasSigned
  <1>1. Inv => DoneWasSigned
    <2> SUFFICES ASSUME Inv, Done PROVE DoneWasSigned
      BY DEF DoneWasSigned
    <2> DEFINE h == served.header
               c == served.call
    <2>1. /\ h \in signed /\ VerifiedAt(h, c, KeyFor(c), served.at) /\ Stated(h)
      BY DEF Inv, ServedRight, VerifiedAt, TagsRight, Done
    <2>2. h.call \in Calls /\ c \in Calls
      BY DEF Inv, TypeOK, Outcome, Header, Done
    <2>3. h.call.path = c.path /\ h.url = <<PublicUrl, h.call.path, None>>
      BY <2>1 DEF VerifiedAt, VerifiedUrl, Stated
    <2>4. c.path \in AdminPaths => h.call.query = c.query
      BY <2>2, <2>3, Nip98Assumption
    <2>5. SignedFor(h.call, c)
      BY <2>1, <2>3, <2>4 DEF VerifiedAt, Stated, SignedFor
    <2> QED BY <2>1, <2>3, <2>5 DEF DoneWasSigned, VerifiedAt
  <1> QED BY <1>1, Invariance, PTL

\* Nothing is done outside of its window, whatever wraps around.
THEOREM DoneInWindowHolds == Spec => []DoneInWindow
  <1>1. Inv => DoneInWindow
    <2> SUFFICES ASSUME Inv, Done
                 PROVE  /\ served.at <= served.header.created + Window
                        /\ served.header.created <= served.at + Window
      BY DEF DoneInWindow
    <2>1. Fresh(served.header.created, served.at)
      BY DEF Inv, ServedRight, VerifiedAt, Done
    <2>2. served.header.created \in 0 .. Wrap - 1 /\ served.at \in 0 .. MaxTime
      BY DEF Inv, TypeOK, Outcome, Header, Done
    <2> QED BY <2>1, <2>2, FreshIsExact
  <1> QED BY <1>1, Invariance, PTL

\* The key that signs music does not authorize what the admin API does.
THEOREM ArtistOnlyUploadsHolds == Artist # Operator => (Spec => []ArtistOnlyUploads)
  <1> SUFFICES ASSUME Artist # Operator PROVE Spec => []ArtistOnlyUploads
    OBVIOUS
  <1>1. Inv => ArtistOnlyUploads
    BY Nip98Assumption
    DEF Inv, ServedRight, VerifiedAt, KeyFor, AdminEnv, ArtistOnlyUploads, Done
  <1> QED BY <1>1, Invariance, PTL

\* A call signed as it should be, which arrives undamaged and in time, is done.
THEOREM PromptIsDoneHolds == Spec => []PromptIsDone
  <1>1. Inv => PromptIsDone
    <2> SUFFICES ASSUME Inv, served # None PROVE PromptIsDone
      BY DEF PromptIsDone
    <2> DEFINE h == served.header
               c == served.call
    <2> SUFFICES ASSUME h.intact, h.kind = "HttpAuth", h.signer = KeyFor(c),
                        h.url = <<PublicUrl, c.path, None>>, h.call = c,
                        Near(h.created, h.signedAt),
                        served.at + Skew <= h.signedAt + Window
                 PROVE  served.done
      BY DEF PromptIsDone
    <2>1. /\ h \in Header /\ c \in Calls /\ served.at \in 0 .. MaxTime
      BY DEF Inv, TypeOK, Outcome
    <2>2. /\ h.created \in 0 .. Wrap - 1 /\ h.signedAt \in 0 .. MaxTime
          /\ h.signer \in Keys
      BY <2>1 DEF Header
    <2>3. KeyFor(c) # None BY <2>2, Nip98Assumption
    <2>4. h.signedAt <= served.at
      BY DEF Inv, ServedRight
    <2>5. Fresh(h.created, served.at)
      <3>1. /\ h.created <= h.signedAt + Skew /\ h.signedAt <= h.created + Skew
        BY DEF Near
      <3>2. served.at <= h.created + Window /\ h.created <= served.at + Window
        <4> HIDE DEF h
        <4> QED BY <2>1, <2>2, <2>4, <3>1, Nip98Assumption
      <3> QED BY <2>1, <2>2, <3>2, FreshIsExact
    <2>6. VerifiedAt(h, c, KeyFor(c), served.at)
      BY <2>5 DEF VerifiedAt, VerifiedUrl, Inv, TagsRight, Stated
    <2> QED BY <2>3, <2>6 DEF Inv, ServedRight
  <1> QED BY <1>1, Invariance, PTL
=============================================================================

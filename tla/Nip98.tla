-------------------------------- MODULE Nip98 --------------------------------
(***************************************************************************)
(* Signed requests: NIP-98 verification (src/src/nip98.rs), the keys main  *)
(* takes from the environment (src/src/main.rs) and the handlers that ask  *)
(* for a signature, put_product (src/src/gate.rs) and those of the admin   *)
(* API (src/src/admin.rs).                                                 *)
(*                                                                         *)
(* A client signs a header for one call by its own clock; the call may     *)
(* arrive late, twice, damaged, or not where it was meant to go.  A tag    *)
(* stands for the first of its name, methods and hashes are compared       *)
(* without case, and the hash of a body is the body.  The terms of an      *)
(* upload, its title, price, floor and format, travel in the query of the  *)
(* URL, which is no part of the URL that is verified.                      *)
(***************************************************************************)
EXTENDS Integers, FiniteSets

CONSTANTS Keys,        \* Nostr public keys
          Artist, Operator, \* whose they are by the documentation
          Calls,       \* what can be asked of the daemon
          AdminPaths,  \* paths of the admin API, the others are products
          Bases, PublicUrl, \* base URLs that clients use; the daemon's own
          Window,      \* AUTH_WINDOW_SECS
          Skew,        \* how far the clock of a client may well be off
          WrongTimes,  \* what a clock that is not set may show
          Wrap,        \* one more than the largest time
          MaxTime, MaxSigned,  \* bounds
          None, Empty  \* variable not set; set to nothing

ASSUME Nip98Assumption ==
    /\ {Artist, Operator} \subseteq Keys
    /\ None \notin Keys /\ Empty \notin Keys
    /\ Window \in Nat /\ Skew \in Nat /\ Skew <= Window
    /\ Wrap \in Nat /\ MaxTime \in Nat /\ MaxTime + 2 * Window < Wrap
    /\ Calls \subseteq [method : STRING, path : STRING,
                       query : STRING \cup {None}, body : STRING \cup {None}]
    /\ \A c \in Calls : c.path \in AdminPaths => c.query = None
    /\ WrongTimes \subseteq 0 .. Wrap - 1

VARIABLES env,     \* ARTIST_PUBKEY and ADMIN_PUBKEY
          proc,    \* "starting", "up", "exited"
          now,     \* the time
          signed,  \* headers that clients have signed
          served   \* the last call that arrived, and what became of it

vars == <<env, proc, now, signed, served>>

\* The tags of an event; and as history, the call it was signed for, when by
\* the daemon's clock, and whether it still is as it was signed.
Header == [signer : Keys, kind : {"HttpAuth", "Note"},
           url : Bases \X STRING \X (STRING \cup {None}),
           method : STRING, payload : STRING \cup {None}, created : 0 .. Wrap - 1,
           call : Calls, signedAt : 0 .. MaxTime, intact : BOOLEAN]

Outcome(done) == [header : Header, call : Calls, at : 0 .. MaxTime, done : done]

TypeOK ==
    /\ env \in [artist : Keys \cup {None, Empty}, admin : Keys \cup {None, Empty}]
    /\ proc \in {"starting", "up", "exited"}
    /\ now \in 0 .. MaxTime
    /\ signed \subseteq Header
    /\ served \in Outcome(BOOLEAN) \cup {None}

Init ==
    /\ env \in [artist : {Artist, None, Empty}, admin : {Operator, None, Empty}]
    /\ proc = "starting"
    /\ now = 0
    /\ signed = {}
    /\ served = None

-----------------------------------------------------------------------------
(* Keys.                                                                   *)

AdminEnv == IF env.admin # None THEN env.admin ELSE env.artist

\* main stops if a variable is set to what is no key.
ReadKeys ==
    /\ proc = "starting"
    /\ proc' = IF Empty \in {env.artist, AdminEnv} THEN "exited" ELSE "up"
    /\ UNCHANGED <<env, now, signed, served>>

\* Mutant of KeyFor: admin calls are checked against the artist's key.
KeyForUploads(call) == env.artist

KeyFor(call) == IF call.path \in AdminPaths THEN AdminEnv ELSE env.artist

-----------------------------------------------------------------------------
(* verify                                                                  *)

\* Unsigned addition of the width of a time, in a release build.
Plus(a, b) == IF a + b < Wrap THEN a + b ELSE a + b - Wrap

\* Mutants of Fresh: no lower end; no upper end; the last second is too late.
FreshForEver(created, time) == ~(created > Plus(time, Window))
FreshAhead(created, time) == ~(Plus(created, Window) < time)
FreshStrictly(created, time) ==
    ~(Plus(created, Window) <= time \/ created > Plus(time, Window))

Fresh(created, time) ==
    ~(Plus(created, Window) < time \/ created > Plus(time, Window))

\* The URL that put_product and authorize put together: no query.
VerifiedUrl(call) == <<PublicUrl, call.path, None>>

\* Mutant of Verify: the body of the call is not looked at.
VerifyNoPayload(h, call, key) ==
    /\ h.intact
    /\ h.kind = "HttpAuth"
    /\ h.url = VerifiedUrl(call)
    /\ h.method = call.method
    /\ Fresh(h.created, now)
    /\ h.signer = key

Verify(h, call, key) ==
    /\ h.intact
    /\ h.kind = "HttpAuth"
    /\ h.url = VerifiedUrl(call)
    /\ h.method = call.method
    /\ Fresh(h.created, now)
    /\ call.body # None => h.payload = call.body
    /\ h.signer = key

-----------------------------------------------------------------------------
(* Clients and the network.                                                *)

Near(t, u) == t <= u + Skew /\ u <= t + Skew

Tick ==
    /\ now < MaxTime
    /\ now' = now + 1
    /\ UNCHANGED <<env, proc, signed, served>>

Signed(key, kind, call, base, query, created) ==
    [signer |-> key, kind |-> kind, url |-> <<base, call.path, query>>,
     method |-> call.method, payload |-> call.body, created |-> created,
     call |-> call, signedAt |-> now, intact |-> TRUE]

\* Mutant of Sign: the time is taken back by a second, to be on the safe side.
SignBehind(key, kind, call, base, query, created) ==
    /\ Cardinality(signed) < MaxSigned
    /\ signed' = signed \cup {Signed(key, kind, call, base, query, created - 1)}
    /\ UNCHANGED <<env, proc, now, served>>

\* nip98_sign and the desktop app, which may state the URL with the query of
\* the call or without.  Keys sign other events as well.
Sign(key, kind, call, base, query, created) ==
    /\ Cardinality(signed) < MaxSigned
    /\ signed' = signed \cup {Signed(key, kind, call, base, query, created)}
    /\ UNCHANGED <<env, proc, now, served>>

Damaged(h) == {[h EXCEPT !.signer = k, !.intact = FALSE] : k \in Keys}

\* authorize, and the same steps in put_product: 503 without a key, 401
\* without a header that verifies; else the handler goes on.
Arrive(h, call) ==
    /\ proc = "up"
    /\ served' = [header |-> h, call |-> call, at |-> now,
                  done |-> KeyFor(call) # None /\ Verify(h, call, KeyFor(call))]
    /\ UNCHANGED <<env, proc, now, signed>>

Next ==
    \/ ReadKeys
    \/ Tick
    \/ \E key \in Keys, kind \in {"HttpAuth", "Note"}, call \in Calls,
          base \in Bases, created \in WrongTimes \cup {t \in 0 .. MaxTime + Skew : Near(t, now)} :
            \E query \in {None, call.query} : Sign(key, kind, call, base, query, created)
    \/ \E h \in signed, call \in Calls :
         \E g \in {h} \cup Damaged(h) : Arrive(g, call)

Spec == Init /\ [][Next]_vars

-----------------------------------------------------------------------------
(* Properties.                                                             *)

Done == served # None /\ served.done

\* Signing call d, one has signed call c, but for the terms of an upload.
SignedFor(d, c) ==
    /\ d.method = c.method /\ d.path = c.path
    /\ c.body # None => d.body = c.body
    /\ c.path \in AdminPaths => d.query = c.query

\* What is done was signed, as an authorization for this daemon, by the holder
\* of the key that was configured for it: an admin call as it is, body and all,
\* and an upload for its path and its artifact.  Nothing signs the terms of an
\* upload, and a header that states them in its URL is refused (gate.rs:95,
\* nip98.rs:51).
DoneWasSigned ==
    Done => LET c == served.call
            IN  \E h \in signed :
                  /\ h.signer = KeyFor(c) /\ h.kind = "HttpAuth"
                  /\ h.url = <<PublicUrl, h.call.path, None>>
                  /\ SignedFor(h.call, c)

\* Nothing is done outside of the window, whatever time a header states, also
\* where the sums of the check exceed their width (nip98.rs:62): a call that is
\* repeated, as of an on-chain payment (admin.rs:207), is not repeated for long.
DoneInWindow ==
    Done => /\ served.at <= served.header.created + Window
            /\ served.header.created <= served.at + Window

\* A call that arrives as it was signed, undamaged and where it was meant to,
\* with the key it takes and in good time, is done; the URL of the header has no
\* query, as the code wants it.
PromptIsDone ==
    LET h == served.header
        c == served.call
    IN  (/\ served # None
         /\ h.intact /\ h.kind = "HttpAuth" /\ h.signer = KeyFor(c)
         /\ h.url = <<PublicUrl, c.path, None>> /\ h.call = c
         /\ Near(h.created, h.signedAt)
         /\ served.at + Skew <= h.signedAt + Window) => served.done

\* "ARTIST_PUBKEY ... authorizes product uploads and nothing else"
\* (docs/onboarding.md:26), once there is an operator key.
ArtistOnlyUploads ==
    (Done /\ env.admin = Operator /\ served.header.signer = Artist)
      => served.call.path \notin AdminPaths
=============================================================================

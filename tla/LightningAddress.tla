--------------------------- MODULE LightningAddress ---------------------------
(***************************************************************************)
(* The artist's Lightning address: what main makes of the environment      *)
(* (Config::from_env and build_node in src/src/main.rs) and the two steps  *)
(* in which a wallet pays the address (src/src/lnurl.rs).  The operator    *)
(* edits the environment and restarts the daemon, also between the steps.  *)
(*                                                                         *)
(* A URL stands for its host, a text for what goes into it.  Amounts are   *)
(* in Invoicing, keys in Nip98.                                            *)
(***************************************************************************)
CONSTANTS Names, Letters,  \* artist names; letters and digits of each, or ""
          Locals, Lower,   \* local parts of addresses; each in lower case
          Hosts, Localhost,
          PublicHost,      \* where the world reaches this daemon
          Explicit,        \* values of LNURL_ADDRESS
          Unset, Empty     \* variable not set; set to nothing

Addresses == [local : Locals, host : Hosts]
Nobody == [local |-> "", host |-> ""]    \* of an empty LNURL_ADDRESS

ASSUME LightningAddressAssumption ==
    /\ Letters \in [Names -> Locals \cup {""}] /\ "artist" \in Locals
    /\ Lower \in [Locals -> Locals] /\ \A l \in Locals : Lower[Lower[l]] = Lower[l]
    /\ {Localhost, PublicHost} \subseteq Hosts /\ Localhost # PublicHost
    /\ Explicit \subseteq Addresses
    /\ "" \notin Locals

VARIABLES proc,    \* "down", "configured", "up", "exited" with an error
          config,  \* what the process has read
          peers,   \* ... for build_node: its chain source and its provider
          wallet   \* one wallet; requests do not share anything

vars == <<proc, config, peers, wallet>>

Environment ==
    [artist_name : Names,
     public_url : {PublicHost, Empty, Unset},
     lnurl_address : Explicit \cup {Empty, Unset},
     ldk_mnemonic : {"words", Empty, Unset},
     bitcoind_rpc_url : {"url", Empty, Unset},
     lsps1_node_uri : {"uri", Empty, Unset}]

Config == [artist_name : Names,
           public_url : Hosts \cup {Empty},
           lnurl_address : Addresses \cup {Nobody}]

Peers == [bitcoind_rpc_url : {"url", Empty, Unset},
          lsps1_node_uri : {"uri", Empty, Unset}]

Metadata == [artist_name : Names, identifier : Addresses \cup {Nobody}]

\* shown and paid are history: the configurations that answered the two steps.
Wallet == [pc : {"idle", "unknown", "shown", "refused", "unreachable", "invoiced"},
           asked : Addresses \cup {Nobody},
           callback : [base : Hosts \cup {Empty}, name : Locals \cup {""}],
           metadata : Metadata \cup {Unset},
           hash : Metadata \cup {Unset},
           shown : Config \cup {Unset},
           paid : Config \cup {Unset}]

NoWallet == [pc |-> "idle", asked |-> Nobody,
             callback |-> [base |-> Empty, name |-> ""],
             metadata |-> Unset, hash |-> Unset, shown |-> Unset, paid |-> Unset]

TypeOK ==
    /\ proc \in {"down", "configured", "up", "exited"}
    /\ config \in Config \cup {Unset} /\ peers \in Peers \cup {Unset}
    /\ wallet \in Wallet

Init ==
    /\ proc = "down" /\ config = Unset /\ peers = Unset /\ wallet = NoWallet

-----------------------------------------------------------------------------
(* The environment.                                                        *)

\* Mutant of Slugify: a name without letters has no local part.
SlugifyPlain(name) == Letters[name]

Slugify(name) == IF Letters[name] = "" THEN "artist" ELSE Letters[name]

HostOf(url) == IF url = Empty THEN Localhost ELSE url

\* Without PUBLIC_URL, localhost.
PublicUrl(env) == IF env.public_url = Unset THEN Localhost ELSE env.public_url

\* Without LNURL_ADDRESS, a slug of the artist's name at the host of the URL.
LnurlAddress(env) ==
    CASE env.lnurl_address = Unset ->
           [local |-> Slugify(env.artist_name), host |-> HostOf(PublicUrl(env))]
      [] env.lnurl_address = Empty -> Nobody
      [] OTHER -> env.lnurl_address

\* The process starts with what the environment file says now.
FromEnv(env) ==
    /\ proc \in {"down", "exited"}
    /\ IF env.ldk_mnemonic = "words"
       THEN /\ proc' = "configured"
            /\ config' = [artist_name |-> env.artist_name,
                          public_url |-> PublicUrl(env),
                          lnurl_address |-> LnurlAddress(env)]
            /\ peers' = [bitcoind_rpc_url |-> env.bitcoind_rpc_url,
                         lsps1_node_uri |-> env.lsps1_node_uri]
       ELSE proc' = "exited" /\ UNCHANGED <<config, peers>>
    /\ UNCHANGED wallet

\* The provider's URI and bitcoind's URL are parsed here, if they are set.
BuildNode ==
    /\ proc = "configured"
    /\ proc' = IF Empty \in {peers.lsps1_node_uri, peers.bitcoind_rpc_url}
               THEN "exited" ELSE "up"
    /\ UNCHANGED <<config, peers, wallet>>

\* The operator stops the daemon, or it crashes.
Ends ==
    /\ proc = "up"
    /\ proc' = "down"
    /\ UNCHANGED <<config, peers, wallet>>

-----------------------------------------------------------------------------
(* The two steps of a wallet.                                              *)

\* Mutant of SameName: letters are compared as they are.
SameNameExactly(a, b) == a = b

\* eq_ignore_ascii_case
SameName(a, b) == a # "" /\ b # "" /\ Lower[a] = Lower[b]

LocalPart(address) == address.local

\* Mutant of MetadataString: the two steps build it differently.
MetadataByStep(c) ==
    [artist_name |-> c.artist_name,
     identifier |-> IF wallet.pc = "idle" THEN Nobody ELSE c.lnurl_address]

MetadataString(c) ==
    [artist_name |-> c.artist_name, identifier |-> c.lnurl_address]

\* Mutant of MetadataResponse: the callback is built from the artist's name.
CallbackBySlug(a, c) ==
    [NoWallet EXCEPT !.pc = "shown", !.asked = a,
                     !.callback = [base |-> c.public_url, name |-> Slugify(c.artist_name)],
                     !.metadata = MetadataString(c), !.shown = c]

MetadataResponse(a, c) ==
    [NoWallet EXCEPT !.pc = "shown", !.asked = a,
                     !.callback = [base |-> c.public_url,
                                   name |-> LocalPart(c.lnurl_address)],
                     !.metadata = MetadataString(c), !.shown = c]

\* Step 1.  A wallet may ask for the name in lower case.
Resolve(a) ==
    /\ wallet.pc = "idle"
    /\ proc = "up" /\ a.host = PublicHost
    /\ \E name \in {a.local, Lower[a.local]} :
         wallet' = IF SameName(name, LocalPart(config.lnurl_address))
                   THEN MetadataResponse(a, config)
                   ELSE [NoWallet EXCEPT !.pc = "unknown", !.asked = a, !.shown = config]
    /\ UNCHANGED <<proc, config, peers>>

\* Step 2, where the callback says.
Pay ==
    /\ wallet.pc = "shown" /\ wallet.callback.base = PublicHost
    /\ proc = "up"
    /\ wallet' =
         IF SameName(wallet.callback.name, LocalPart(config.lnurl_address))
         THEN [wallet EXCEPT !.pc = "invoiced", !.hash = MetadataString(config),
                             !.paid = config]
         ELSE [wallet EXCEPT !.pc = "refused", !.paid = config]
    /\ UNCHANGED <<proc, config, peers>>

Unreachable ==
    /\ wallet.pc = "shown" /\ wallet.callback.base # PublicHost
    /\ wallet' = [wallet EXCEPT !.pc = "unreachable"]
    /\ UNCHANGED <<proc, config, peers>>

\* It has paid, or given up.
WalletDone ==
    /\ wallet.pc # "idle"
    /\ wallet' = NoWallet
    /\ UNCHANGED <<proc, config, peers>>

-----------------------------------------------------------------------------
Next ==
    \/ \E env \in Environment : FromEnv(env)
    \/ BuildNode \/ Ends
    \/ \E a \in Addresses : Resolve(a)
    \/ Pay \/ Unreachable \/ WalletDone

Spec == Init /\ [][Next]_vars

-----------------------------------------------------------------------------
(* Properties.                                                             *)

\* "The invoice must commit to sha256 of the EXACT metadata bytes served in step
\* 1" (lnurl.rs:11): it does, unless the daemon has been restarted with another
\* artist name or address in between.
DescriptionBound ==
    wallet.pc = "invoiced" =>
      \/ wallet.hash = wallet.metadata
      \/ wallet.shown.artist_name # wallet.paid.artist_name
      \/ wallet.shown.lnurl_address # wallet.paid.lnurl_address

\* A wallet that asks for the address this daemon answers for, explicit or made
\* from the artist's name, in its own letters or in lower case, is not told
\* "Unknown user" (lnurl.rs:102), nor is the callback that it was given, as long
\* as the address stays and PUBLIC_URL is where the world reaches the daemon.
AddressWorks ==
    /\ wallet.pc = "unknown" => wallet.asked # wallet.shown.lnurl_address
    /\ wallet.pc = "refused" => wallet.shown.lnurl_address # wallet.paid.lnurl_address
    /\ wallet.pc = "unreachable" => wallet.shown.public_url # PublicHost
=============================================================================

----------------------- MODULE LightningAddressProofs -----------------------
(***************************************************************************)
(* Proofs about LightningAddress, for any names, hosts and addresses, and  *)
(* for any sequence of configurations the daemon is restarted with.        *)
(***************************************************************************)
EXTENDS LightningAddress, TLAPS

\* What a wallet that has taken the first step was told by the daemon then.
Told(w) ==
    /\ w.shown \in Config
    /\ w.metadata = MetadataString(w.shown)
    /\ w.callback.base = w.shown.public_url
    /\ w.callback.name = LocalPart(w.shown.lnurl_address)
    /\ w.callback.name \in Locals

\* What each end of a wallet's attempt says of the configurations it met.
Rightly(w) ==
    /\ w.pc = "unknown" => w.asked # w.shown.lnurl_address
    /\ w.pc = "shown" => Told(w)
    /\ w.pc = "invoiced" => /\ w.metadata = MetadataString(w.shown)
                            /\ w.hash = MetadataString(w.paid)
    /\ w.pc = "refused" => w.shown.lnurl_address # w.paid.lnurl_address
    /\ w.pc = "unreachable" => w.shown.public_url # PublicHost

Inv ==
    /\ TypeOK
    /\ proc \in {"configured", "up"} => config \in Config /\ peers \in Peers
    /\ Rightly(wallet)

\* An address is a name and a host, or it is nobody's.
LEMMA Local ==
    ASSUME NEW a \in Addresses \cup {Nobody}
    PROVE  /\ LocalPart(a) \in Locals \cup {""}
           /\ a \in Addresses => LocalPart(a) = a.local /\ a.local \in Locals
<1>1. CASE a \in Addresses
  BY <1>1 DEF LocalPart, Addresses
<1>2. CASE a \notin Addresses
  <2>1. a = Nobody BY <1>2
  <2> QED BY <1>2, <2>1 DEF LocalPart, Nobody
<1> QED BY <1>1, <1>2

\* Names that differ in case only are the same name.
LEMMA SameItself ==
    ASSUME NEW l \in Locals
    PROVE  /\ l # "" /\ Lower[l] \in Locals
           /\ SameName(l, l) /\ SameName(Lower[l], l)
  BY LightningAddressAssumption DEF SameName

-----------------------------------------------------------------------------
(* The process.                                                            *)

LEMMA FromEnvConfig ==
    ASSUME NEW env \in Environment
    PROVE  [artist_name |-> env.artist_name, public_url |-> PublicUrl(env),
            lnurl_address |-> LnurlAddress(env)] \in Config
  <1>1. env.artist_name \in Names BY DEF Environment
  <1>2. PublicUrl(env) \in Hosts \cup {Empty}
    BY LightningAddressAssumption DEF PublicUrl, Environment
  <1>3. HostOf(PublicUrl(env)) \in Hosts
    BY <1>2, LightningAddressAssumption DEF HostOf
  <1>4. Slugify(env.artist_name) \in Locals
    BY <1>1, LightningAddressAssumption DEF Slugify
  <1>5. LnurlAddress(env) \in Addresses \cup {Nobody}
    <2>1. CASE env.lnurl_address = Unset
      BY <1>3, <1>4, <2>1 DEF LnurlAddress, Addresses
    <2>2. CASE env.lnurl_address # Unset /\ env.lnurl_address = Empty
      BY <2>2 DEF LnurlAddress
    <2>3. CASE env.lnurl_address # Unset /\ env.lnurl_address # Empty
      <3>1. env.lnurl_address \in Explicit BY <2>3 DEF Environment
      <3> QED BY <2>3, <3>1, LightningAddressAssumption DEF LnurlAddress
    <2> QED BY <2>1, <2>2, <2>3
  <1> QED BY <1>1, <1>2, <1>5 DEF Config

LEMMA FromEnvStep ==
    ASSUME Inv, NEW env \in Environment, FromEnv(env) PROVE Inv'
  <1>1. wallet' = wallet BY DEF FromEnv
  <1>2. Rightly(wallet)' BY <1>1 DEF Inv, Rightly, Told, MetadataString, LocalPart
  <1>3. CASE env.ldk_mnemonic = "words"
    <2>1. [bitcoind_rpc_url |-> env.bitcoind_rpc_url,
           lsps1_node_uri |-> env.lsps1_node_uri] \in Peers
      BY DEF Environment, Peers
    <2> QED BY <1>1, <1>2, <1>3, <2>1, FromEnvConfig DEF FromEnv, Inv, TypeOK
  <1>4. CASE env.ldk_mnemonic # "words"
    BY <1>1, <1>2, <1>4 DEF FromEnv, Inv, TypeOK
  <1> QED BY <1>3, <1>4

LEMMA ProcessStep == ASSUME Inv, BuildNode \/ Ends PROVE Inv'
  <1>1. UNCHANGED <<config, peers, wallet>> BY DEF BuildNode, Ends
  <1>2. Rightly(wallet)' BY <1>1 DEF Inv, Rightly, Told, MetadataString, LocalPart
  <1>3. proc' \in {"exited", "up", "down"} /\ (proc' = "up" => proc = "configured")
    BY DEF BuildNode, Ends
  <1> QED BY <1>1, <1>2, <1>3 DEF Inv, TypeOK

-----------------------------------------------------------------------------
(* The wallet.                                                             *)

LEMMA Idle == NoWallet \in Wallet /\ Rightly(NoWallet)
  BY DEF NoWallet, Wallet, Rightly, Nobody

LEMMA Serving ==
    ASSUME NEW c \in Config
    PROVE  /\ MetadataString(c) \in Metadata
           /\ c.public_url \in Hosts \cup {Empty}
           /\ LocalPart(c.lnurl_address) \in Locals \cup {""}
  BY Local DEF Config, MetadataString, Metadata

LEMMA ResolveStep == ASSUME Inv, NEW a \in Addresses, Resolve(a) PROVE Inv'
  <1>1. /\ config \in Config
        /\ UNCHANGED <<proc, config, peers>>
    BY DEF Inv, Resolve
  <1>2. PICK name \in {a.local, Lower[a.local]} :
          wallet' = IF SameName(name, LocalPart(config.lnurl_address))
                    THEN MetadataResponse(a, config)
                    ELSE [NoWallet EXCEPT !.pc = "unknown", !.asked = a, !.shown = config]
    BY DEF Resolve
  <1>3. CASE SameName(name, LocalPart(config.lnurl_address))
    <2>1. wallet' = MetadataResponse(a, config) BY <1>2, <1>3
    <2>2. LocalPart(config.lnurl_address) \in Locals
      BY <1>1, <1>3, Serving DEF SameName
    <2>3. MetadataResponse(a, config) \in Wallet
      BY <1>1, <2>2, Serving DEF MetadataResponse, NoWallet, Wallet
    <2>4. /\ Told(MetadataResponse(a, config))
          /\ MetadataResponse(a, config).pc = "shown"
      BY <1>1, <2>2 DEF Told, MetadataResponse, NoWallet
    <2>5. wallet' \in Wallet /\ Rightly(wallet') BY <2>1, <2>3, <2>4 DEF Rightly
    <2> QED BY <1>1, <2>5 DEF Inv, TypeOK, Rightly, Told, MetadataString, LocalPart
  <1>4. CASE ~SameName(name, LocalPart(config.lnurl_address))
    <2> DEFINE w == [NoWallet EXCEPT !.pc = "unknown", !.asked = a, !.shown = config]
    <2>1. wallet' = w BY <1>2, <1>4
    <2>2. w \in Wallet /\ w.pc = "unknown" /\ w.asked = a /\ w.shown = config
      BY <1>1 DEF NoWallet, Wallet
    <2>3. a # config.lnurl_address
      <3> SUFFICES ASSUME a = config.lnurl_address PROVE FALSE
        OBVIOUS
      <3>1. LocalPart(config.lnurl_address) = a.local /\ a.local \in Locals
        BY Local
      <3> QED BY <1>2, <1>4, <3>1, SameItself
    <2> HIDE DEF w
    <2>4. wallet' \in Wallet /\ Rightly(wallet') BY <2>1, <2>2, <2>3 DEF Rightly
    <2> QED BY <1>1, <2>4 DEF Inv, TypeOK, Rightly, Told, MetadataString, LocalPart
  <1> QED BY <1>3, <1>4

LEMMA PayStep == ASSUME Inv, Pay PROVE Inv'
  <1>1. /\ config \in Config /\ wallet \in Wallet /\ Told(wallet)
        /\ UNCHANGED <<proc, config, peers>>
    BY DEF Inv, TypeOK, Rightly, Pay
  <1>2. CASE SameName(wallet.callback.name, LocalPart(config.lnurl_address))
    <2> DEFINE w == [wallet EXCEPT !.pc = "invoiced", !.hash = MetadataString(config),
                                   !.paid = config]
    <2>1. wallet' = w BY <1>2 DEF Pay
    <2>2. /\ w \in Wallet /\ w.pc = "invoiced" /\ w.hash = MetadataString(config)
          /\ w.paid = config /\ w.metadata = wallet.metadata /\ w.shown = wallet.shown
      BY <1>1, Serving DEF Wallet
    <2> HIDE DEF w
    <2>3. wallet' \in Wallet /\ Rightly(wallet') BY <1>1, <2>1, <2>2 DEF Rightly, Told
    <2> QED BY <1>1, <2>3 DEF Inv, TypeOK, Rightly, Told, MetadataString, LocalPart
  <1>3. CASE ~SameName(wallet.callback.name, LocalPart(config.lnurl_address))
    <2> DEFINE w == [wallet EXCEPT !.pc = "refused", !.paid = config]
    <2>1. wallet' = w BY <1>3 DEF Pay
    <2>2. /\ w \in Wallet /\ w.pc = "refused" /\ w.paid = config
          /\ w.shown = wallet.shown
      BY <1>1 DEF Wallet
    <2>3. wallet.shown.lnurl_address # config.lnurl_address
      BY <1>1, <1>3, SameItself DEF Told
    <2> HIDE DEF w
    <2>4. wallet' \in Wallet /\ Rightly(wallet') BY <2>1, <2>2, <2>3 DEF Rightly
    <2> QED BY <1>1, <2>4 DEF Inv, TypeOK, Rightly, Told, MetadataString, LocalPart
  <1> QED BY <1>2, <1>3

LEMMA UnreachableStep == ASSUME Inv, Unreachable PROVE Inv'
  <1> DEFINE w == [wallet EXCEPT !.pc = "unreachable"]
  <1>1. /\ wallet \in Wallet /\ Told(wallet) /\ wallet.callback.base # PublicHost
        /\ UNCHANGED <<proc, config, peers>> /\ wallet' = w
    BY DEF Inv, TypeOK, Rightly, Unreachable
  <1>2. w \in Wallet /\ w.pc = "unreachable" /\ w.shown = wallet.shown
    BY <1>1 DEF Wallet
  <1> HIDE DEF w
  <1>3. wallet' \in Wallet /\ Rightly(wallet') BY <1>1, <1>2 DEF Rightly, Told
  <1> QED BY <1>1, <1>3 DEF Inv, TypeOK, Rightly, Told, MetadataString, LocalPart

LEMMA WalletDoneStep == ASSUME Inv, WalletDone PROVE Inv'
  <1>1. wallet' \in Wallet /\ Rightly(wallet') BY Idle DEF WalletDone
  <1> QED BY <1>1 DEF WalletDone, Inv, TypeOK, Rightly, Told, MetadataString, LocalPart

-----------------------------------------------------------------------------
(* Theorems.                                                               *)

\* What a wallet holds is what the daemon that answered it was configured with.
THEOREM Invariance == Spec => []Inv
  <1>1. Init => Inv BY Idle DEF Init, Inv, TypeOK
  <1>2. Inv /\ [Next]_vars => Inv'
    <2> SUFFICES ASSUME Inv, [Next]_vars PROVE Inv'
      OBVIOUS
    <2>1. CASE UNCHANGED vars
      BY <2>1 DEF vars, Inv, TypeOK, Rightly, Told, MetadataString, LocalPart
    <2> QED BY <2>1, FromEnvStep, ProcessStep, ResolveStep, PayStep,
               UnreachableStep, WalletDoneStep DEF Next
  <1> QED BY <1>1, <1>2, PTL DEF Spec

\* Every state is of its type.
THEOREM TypeCorrect == Spec => []TypeOK
  <1>1. Inv => TypeOK BY DEF Inv
  <1> QED BY <1>1, Invariance, PTL

\* An invoice commits to the metadata the wallet was shown, unless the artist's
\* name or the address was changed by a restart between the steps (lnurl.rs:11).
THEOREM DescriptionBoundHolds == Spec => []DescriptionBound
  <1>1. Inv => DescriptionBound
    BY DEF Inv, Rightly, MetadataString, DescriptionBound
  <1> QED BY <1>1, Invariance, PTL

\* The daemon's own address resolves, in its letters or in lower case, and its
\* callback leads back to it, whatever the configuration (lnurl.rs:102).
THEOREM AddressWorksHolds == Spec => []AddressWorks
  <1>1. Inv => AddressWorks BY DEF Inv, Rightly, AddressWorks
  <1> QED BY <1>1, Invariance, PTL
=============================================================================

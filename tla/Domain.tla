------------------------------- MODULE Domain -------------------------------
(***************************************************************************)
(* The values the daemon's components share, and what tells them apart.    *)
(***************************************************************************)
CONSTANTS Slugs,      \* product slugs
          Formats,    \* artifact formats, the extension of the file name
          Artifacts,  \* artifact contents
          Hashes,     \* payment hashes
          None,       \* absent
          Other       \* billed by GET /invoice or LNURL-pay, not for a product

\* struct ProductRecord.  size_bytes stands for the artifact that was measured
\* (artifacts differ in length); title and price play no part here.
Product  == [format : Formats, size_bytes : Artifacts]

\* struct PurchaseRecord.  A claim token is created with, and is unique to, one
\* payment hash: the hash stands for it.
Purchase == [slug : Slugs, paid : BOOLEAN]

ASSUME DomainAssumption ==
    /\ None \notin Slugs \cup Formats \cup Artifacts \cup Hashes
    /\ None \notin Product \cup Purchase
    /\ Other \notin Slugs \cup {None}
=============================================================================

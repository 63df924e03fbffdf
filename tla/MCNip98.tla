------------------------------ MODULE MCNip98 ------------------------------
EXTENDS Nip98

\* An upload at two prices, two payments and a question about the balance.
SomeCalls ==
    {[method |-> "PUT", path |-> "/products/a", query |-> q, body |-> "song"] :
       q \in {"price_sats=100", "price_sats=1"}}
    \cup {[method |-> "POST", path |-> "/admin/send-onchain", query |-> None, body |-> b] :
            b \in {"pay", "pay more"}}
    \cup {[method |-> "GET", path |-> "/admin/balance", query |-> None, body |-> None]}
SomeAdminPaths == {"/admin/send-onchain", "/admin/balance"}
=============================================================================

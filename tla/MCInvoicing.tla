----------------------------- MODULE MCInvoicing -----------------------------
EXTENDS Invoicing, TLC

Interchangeable == Permutations(Requests)
=============================================================================

-------------------------- MODULE MCLightningAddress --------------------------
EXTENDS LightningAddress, TLC

\* A name with letters, and one without.
SomeNames == {"The Louds", "!!!"}
TheirLetters == [n \in SomeNames |-> IF n = "The Louds" THEN "thelouds" ELSE ""]

SomeLocals == {"thelouds", "artist", "Fan", "fan"}
InLowerCase == [l \in SomeLocals |-> IF l = "Fan" THEN "fan" ELSE l]

SomeExplicit == {[local |-> "Fan", host |-> PublicHost]}
=============================================================================

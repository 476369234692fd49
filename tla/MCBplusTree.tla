---------------------------- MODULE MCBplusTree -----------------------------
(* Instance of BplusTree for TLC: trees of no, one, two and three levels,   *)
(* filled from the left, from the right and from both ends.  Ten keys from  *)
(* the left fill the last leaf and the root, so the next insertion splits   *)
(* both and adds a root: the limits 7, 8 and 9 leave no page for the first, *)
(* the second and the third of these.  Thirteen keys leave two internal     *)
(* nodes of two and four children, six keys leaves of two and four items.   *)
EXTENDS BplusTree

MCUserKeys == {<<>>, <<1>>, <<2>>, <<3>>, <<2, 1>>, <<3, 0>>, <<3, 1>>}

Nth(i) == Key(1 + ((i - 1) \div 3), 1 + ((i - 1) % 3))
Up(n) == [i \in 1 .. n |-> Nth(i)]
Down(n) == [i \in 1 .. n |-> Nth(n + 2 - i)]
Both(n) == [i \in 1 .. n |-> Nth(IF i % 2 = 0 THEN n + 1 - (i \div 2) ELSE (i + 1) \div 2)]

MCFiles ==
    {[limit |-> 12, keys |-> ks, changes |-> 3] : ks \in {Up(0), Up(2), Both(11)}}
    \cup {[limit |-> 12, keys |-> ks, changes |-> 2] : ks \in {Up(6), Up(13), Down(13)}}
    \cup {[limit |-> n, keys |-> Up(10), changes |-> 2] : n \in {7, 8, 9, 12}}
=============================================================================

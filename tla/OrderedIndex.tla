---------------------------- MODULE OrderedIndex ----------------------------
(***************************************************************************)
(* What an index promises: a set of entries, ordered by attribute and then *)
(* by RID, that can be added to, removed from and read by ranges.  result  *)
(* is the code the last change returned.                                   *)
(***************************************************************************)
EXTENDS Integers, Sequences, FiniteSets

CONSTANTS Keys, AttrOf(_)

VARIABLES entries, result

vars == <<entries, result>>

Init == entries \subseteq Keys /\ result = "SUCCESS"

Add(k) == k \notin entries /\ entries' = entries \cup {k} /\ result' = "SUCCESS"
Duplicate(k) == k \in entries /\ UNCHANGED entries /\ result' = "RECORD_DUPLICATE_KEY"

\* An insertion that fails for want of a page may have stored the entry.
AddFails(k) == /\ k \notin entries /\ entries' \in {entries, entries \cup {k}}
               /\ result' \in {"IOERR_READ", "BUFFERPOOL_NOBUF"}
Erase(k) == k \in entries /\ entries' = entries \ {k} /\ result' = "SUCCESS"
Absent(k) == k \notin entries /\ UNCHANGED entries /\ result' = "RECORD_NOT_EXIST"

Next == \E k \in Keys : Add(k) \/ Duplicate(k) \/ AddFails(k) \/ Erase(k) \/ Absent(k)

Spec == Init /\ [][Next]_vars

-----------------------------------------------------------------------------
(* Ranges.  An attribute is a string of one character; a bound may have a  *)
(* second one, and <<>> is no bound.                                       *)

StringLess(s, u) == s[1] < u[1] \/ (s[1] = u[1] /\ Len(s) < Len(u) /\ u[2] > 0)
Above(k, u, inclusive) ==
    LET s == <<AttrOf(k)>>
    IN u = <<>> \/ StringLess(u, s) \/ (inclusive /\ ~StringLess(s, u))
Below(k, u, inclusive) ==
    LET s == <<AttrOf(k)>>
    IN u = <<>> \/ StringLess(s, u) \/ (inclusive /\ ~StringLess(u, s))
InRange(l, linc, r, rinc) == {k \in entries : Above(k, l, linc) /\ Below(k, r, rinc)}

\* seq is the entries of the range, in order and each once.
IsScanOf(seq, l, linc, r, rinc) ==
    /\ {seq[i] : i \in DOMAIN seq} = InRange(l, linc, r, rinc)
    /\ \A i \in 2 .. Len(seq) : seq[i - 1] < seq[i]

=============================================================================

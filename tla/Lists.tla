-------------------------------- MODULE Lists -------------------------------
(***************************************************************************)
(* The operators on sequences that the modules of Libraries and Deployed   *)
(* use.  These modules are instances there, and each obligation of a proof *)
(* carries a copy of everything an instance extends: hence these few, and  *)
(* not the whole of SequencesExt.                                          *)
(***************************************************************************)
EXTENDS Naturals, Sequences

Last(s) == s[Len(s)]
Front(s) == SubSeq(s, 1, Len(s) - 1)
ToSet(s) == {s[i] : i \in DOMAIN s}

\* slice::contains, slice::starts_with, Vec::remove with places from 1.
Contains(s, x) == \E i \in DOMAIN s : s[i] = x
IsPrefix(s, t) == Len(s) <= Len(t) /\ \A i \in DOMAIN s : s[i] = t[i]
IsStrictPrefix(s, t) == s # t /\ IsPrefix(s, t)
RemoveAt(s, i) == SubSeq(s, 1, i - 1) \o SubSeq(s, i + 1, Len(s))

\* Iterator::zip.
Zip(s, t) == [i \in DOMAIN s \cap DOMAIN t |-> <<s[i], t[i]>>]

\* The sequences of at most n elements of S.
SeqOf(S, n) == UNION {[1 .. m -> S] : m \in 0 .. n}
=============================================================================

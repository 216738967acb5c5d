------------------------- MODULE SliceContributions -------------------------
(***************************************************************************)
(* What the endpoint slice cache promises its callers (spec.md, 4.2 and   *)
(* the properties P1, P2 and P4 of section 8): every (hostname, slice)    *)
(* pair owns one contribution, a list of endpoint records; an update      *)
(* replaces exactly one contribution atomically and leaves every other    *)
(* contribution, of the same hostname or of another, as it was; the       *)
(* merged view of a hostname is the multiset union of its contributions.  *)
(* An absent slice and a slice with an empty list are the same thing at  *)
(* this level: both contribute nothing.                                   *)
(***************************************************************************)
EXTENDS Sequences, Bags, SequencesExt

CONSTANTS Hosts,   \* service hostnames
          Slices,  \* slice names
          Rec      \* endpoint records

VARIABLE contrib   \* contrib[h][s]: the records slice s contributes to h

TypeOK == contrib \in [Hosts -> [Slices -> Seq(Rec)]]

Init == contrib = [h \in Hosts |-> [s \in Slices |-> <<>>]]

\* One update: the contribution of one (h, s) is replaced by some list of
\* records, every other contribution is unchanged.
Replace(h, s) ==
    /\ contrib'[h][s] \in Seq(Rec)
    /\ contrib' = [contrib EXCEPT ![h][s] = contrib'[h][s]]

Next == \E h \in Hosts, s \in Slices : Replace(h, s)

Spec == Init /\ [][Next]_contrib

\* The merged view of h: every record of every slice of h, as a multiset.
View(h) == FoldFunction(LAMBDA x, y : x (+) y, EmptyBag,
                        [s \in Slices |-> ToBag(contrib[h][s])])
=============================================================================

---------------------------- MODULE VersionString ----------------------------
(***************************************************************************)
(* The operator's Version type (operator/pkg/version/version.go): its      *)
(* constructors, String, NewVersionFromString and Version.UnmarshalYAML.  *)
(*                                                                         *)
(* A string is a sequence of tokens: a run of digits is its value (a      *)
(* natural), a run of letters is a word, and "." and "-" are Dot and    *)
(* Dash. The fields of a Version are uint32; TLC's integers are    *)
(* narrower, so the width is the constant Width and a conversion to the  *)
(* field type is % 2^Width.                                               *)
(***************************************************************************)
EXTENDS Naturals, Sequences
LOCAL INSTANCE SequencesExt

CONSTANTS
    Width,     \* bits of a version field (32 in the code)
    Words,     \* letter runs that may appear in a version string
    Dot, Dash, \* the characters "." and "-"
    V,         \* the letter "v" that may start a version
    Release    \* the word "release" of releasePrefix ("release-")

Sep == {Dot, Dash}

\* NewVersion (NewMajorVersion, NewMinorVersion, NewPatchVersion nested):
\* a Version of major, minor, patch and the suffix, itself a string.
NewVersion(ma, mi, pa, su) == [major |-> ma, minor |-> mi, patch |-> pa, suffix |-> su]

-----------------------------------------------------------------------------
(* Strings                                                                *)

\* strings.Split(s, sep): the pieces between the separators.
RECURSIVE Split(_, _)
Split(s, sep) ==
    IF \A k \in DOMAIN s : s[k] # sep THEN <<s>>
    ELSE LET k == SelectInSeq(s, LAMBDA t : t = sep) IN
         <<SubSeq(s, 1, k - 1)>> \o Split(SubSeq(s, k + 1, Len(s)), sep)

\* strings.Join(parts, sep).
RECURSIVE Join(_, _)
Join(parts, sep) ==
    IF parts = <<>> THEN <<>>
    ELSE IF Len(parts) = 1 THEN Head(parts)
    ELSE Head(parts) \o <<sep>> \o Join(Tail(parts), sep)

\* The longest prefix of s of the form num ("." num)*.
RECURSIVE NumPrefix(_)
NumPrefix(s) ==
    IF s = <<>> \/ s[1] \notin Nat THEN <<>>
    ELSE IF Len(s) >= 3 /\ s[2] = Dot /\ s[3] \in Nat
         THEN <<s[1], s[2]>> \o NumPrefix(SubSeq(s, 3, Len(s)))
         ELSE <<s[1]>>

\* A pre-release of go-version: dot-separated parts of digits, letters
\* and "-".
PreBody(b) ==
    /\ b # <<>> /\ b[1] # Dot /\ b[Len(b)] # Dot
    /\ \A k \in 1..(Len(b) - 1) : ~(b[k] = Dot /\ b[k + 1] = Dot)

\* goversion.NewVersion: an optional "v", numeric segments separated by
\* ".", then a pre-release introduced by "-", or directly by a letter.
\* Segments() pads the segments to three.
GoNewVersion(s) ==
    LET t    == IF s # <<>> /\ s[1] = V THEN Tail(s) ELSE s
        nums == NumPrefix(t)
        rest == SubSeq(t, Len(nums) + 1, Len(t))
        segs == SelectSeq(nums, LAMBDA x : x \in Nat)
    IN [ok   |-> /\ nums # <<>>
                 /\ \/ rest = <<>>
                    \/ rest[1] = Dash /\ PreBody(Tail(rest))
                    \/ rest[1] \in Words /\ PreBody(rest),
        segs |-> segs \o [k \in 1..(3 - Len(segs)) |-> 0]]

\* goversion.NewSemver: as NewVersion, but a pre-release must follow "-".
GoNewSemver(s) ==
    LET g == GoNewVersion(s)
        t == IF s # <<>> /\ s[1] = V THEN Tail(s) ELSE s
        rest == SubSeq(t, Len(NumPrefix(t)) + 1, Len(t))
    IN [g EXCEPT !.ok = @ /\ (rest = <<>> \/ rest[1] = Dash)]

-----------------------------------------------------------------------------

\* Fault variant: the suffix is the last "-" piece only.
NewVersionFromStringLastPiece(s) ==
    LET g == GoNewVersion(s)
        sv == Split(s, Dash)
    IN IF ~g.ok THEN [ok |-> FALSE, v |-> NewVersion(0, 0, 0, <<>>)]
       ELSE [ok |-> TRUE,
             v  |-> NewVersion(g.segs[1] % 2^Width, g.segs[2] % 2^Width,
                               g.segs[3] % 2^Width,
                               IF Len(sv) > 1 THEN sv[Len(sv)] ELSE <<>>)]

\* NewVersionFromString: the first three segments of go-version, each
\* converted to uint32, and the suffix: everything after the first "-",
\* the pieces joined again with "-". The error of go-version is returned.
NewVersionFromString(s) ==
    LET g == GoNewVersion(s)
        sv == Split(s, Dash)
    IN IF ~g.ok THEN [ok |-> FALSE, v |-> NewVersion(0, 0, 0, <<>>)]
       ELSE [ok |-> TRUE,
             v  |-> NewVersion(g.segs[1] % 2^Width, g.segs[2] % 2^Width,
                               g.segs[3] % 2^Width, Join(Tail(sv), Dash))]

\* Fault variant: the suffix is appended without its "-".
VersionStringNoDash(v) ==
    <<v.major, Dot, v.minor, Dot, v.patch>> \o v.suffix

\* Version.String: PatchVersion.String (MinorVersion.String,
\* MajorVersion.String nested), then "-" and the suffix when there is one.
VersionString(v) ==
    <<v.major, Dot, v.minor, Dot, v.patch>>
    \o (IF v.suffix = <<>> THEN <<>> ELSE <<Dash>> \o v.suffix)

\* Version.UnmarshalYAML of a YAML string: NewVersionFromString, its error
\* returned as it is.
VersionUnmarshalYAML(s) == NewVersionFromString(s)

\* IsVersionString: NewSemver accepts the string and it unmarshals as a
\* Version (a YAML scalar of tokens is the string itself).
IsVersionString(path) ==
    GoNewSemver(path).ok /\ VersionUnmarshalYAML(path).ok

\* strings.TrimPrefix(path, releasePrefix).
TrimReleasePrefix(path) ==
    IF Len(path) >= 2 /\ path[1] = Release /\ path[2] = Dash
    THEN SubSeq(path, 3, Len(path)) ELSE path

\* Fault variant: the prefix is not trimmed.
TagToVersionStringNoTrim(path) ==
    LET g == GoNewSemver(path) IN
    IF ~g.ok THEN [ok |-> FALSE, s |-> <<>>]
    ELSE [ok |-> TRUE, s |-> Join([k \in DOMAIN g.segs |-> <<g.segs[k]>>], Dot)]

\* TagToVersionString: the release prefix trimmed, NewSemver's error
\* returned, else its segments (padded to three) formatted with Itoa and
\* joined with "."; the pre-release is dropped.
TagToVersionString(path) ==
    LET g == GoNewSemver(TrimReleasePrefix(path)) IN
    IF ~g.ok THEN [ok |-> FALSE, s |-> <<>>]
    ELSE [ok |-> TRUE, s |-> Join([k \in DOMAIN g.segs |-> <<g.segs[k]>>], Dot)]

\* The Versions of the bounded checks: each field 0, 1 or the largest
\* uint32 of the width, and a suffix of up to n tokens that go-version
\* accepts as a pre-release (or none).
EdgeFields == {0, 1, 2^Width - 1}
PreReleases(n) == {<<>>} \cup {su \in BoundedSeq(Words \cup {1} \cup Sep, n) : PreBody(su)}
TestVersions(n) ==
    {NewVersion(ma, mi, pa, su) : ma, mi, pa \in EdgeFields, su \in PreReleases(n)}
=============================================================================

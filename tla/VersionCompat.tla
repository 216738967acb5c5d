---------------------------- MODULE VersionCompat ----------------------------
(***************************************************************************)
(* GetVersionCompatibleMap (operator/pkg/version/version.go): pick, from  *)
(* the compatibility table read from versions.yaml, the entry that holds  *)
(* for the operator binary's version.                                      *)
(*                                                                         *)
(* Versions are naturals in go-version's order. An entry is its           *)
(* operatorVersion and its operatorVersionRange; a range (go-version      *)
(* Constraints) is a set of intervals and Check holds when the version is *)
(* in every one of them. versions.yaml is read from versionsURI, or from *)
(* the embedded file when that fails; its entries are decoded by         *)
(* CompatibilityMapping.UnmarshalYAML, which gives an entry without       *)
(* operatorVersionRange the constraint "= operatorVersion". The module    *)
(* checks the lookup against what the table is for: the entry of the    *)
(* version itself, else an entry whose range holds it, else the closest  *)
(* version below.                                                          *)
(***************************************************************************)
EXTENDS Naturals, Sequences, FiniteSets, VersionString

CONSTANTS
    Versions,     \* operator versions that may appear, as naturals
    MaxEntries,   \* bound on the length of the table
    None,         \* no entry (a nil *CompatibilityMapping)
    Invalid,      \* an entry UnmarshalYAML rejects
    Embedded,     \* the versions.yaml embedded in the binary (vfs)
    SuffixLen     \* bound on the tokens of a Version's suffix

Range == {{}} \cup {{<<lo, hi>>} : lo, hi \in Versions}

Entry == [ver : Versions, range : Range]

\* A versions.yaml entry: its operatorVersion and its operatorVersionRange
\* ({} when absent), or Invalid: a required field (operatorVersion,
\* supportedIstioVersions) is missing or a version or constraint does not
\* parse.
RawEntry == [ver : Versions, range : Range] \cup {Invalid}

\* Files of at most MaxEntries entries.
Tables == UNION {[1..n -> RawEntry] : n \in 0..MaxEntries}

\* The sources loadCompatibleMapFile may be given.
URIs == {"", "http", "file"}

\* The embedded file is read from the binary and always decodes.
ASSUME Embedded \in Tables

\* goversion.Constraints.Check: every constraint holds.
Check(range, bin) == \A c \in range : c[1] <= bin /\ bin <= c[2]

VARIABLES
    uri,          \* versionsURI
    remote,       \* the file at versionsURI
    binVersion,   \* the operator binary's version
    result,       \* what GetVersionCompatibleMap returned
    versions,     \* the table it decoded (ghost)
    version,      \* a Version written as its String
    parsed,       \* what Version.UnmarshalYAML read back
    tag,          \* an image tag given to TagToVersionString
    converted,    \* what TagToVersionString returned
    done

vars == <<uri, remote, binVersion, result, versions, version, parsed, tag, converted, done>>

\* Fault variant: an entry without operatorVersionRange accepts any version.
UnmarshalYAMLAnyVersion(raw) ==
    [ver |-> raw.ver, range |-> raw.range]

\* CompatibilityMapping.UnmarshalYAML of a valid entry: the declared range,
\* else the constraint parsed from operatorVersion itself (= version).
UnmarshalYAML(raw) ==
    [ver |-> raw.ver,
     range |-> IF raw.range = {} THEN {<<raw.ver, raw.ver>>} ELSE raw.range]

\* yaml.Unmarshal of the file into []*CompatibilityMapping: an error when
\* any entry is rejected, else the decoded entries in file order.
Decode(file) ==
    IF \E i \in DOMAIN file : file[i] = Invalid THEN Invalid
    ELSE [i \in DOMAIN file |-> UnmarshalYAML(file[i])]

-----------------------------------------------------------------------------

\* Fault variant: an exact match does not end the loop.
RECURSIVE ScanNoBreak(_, _, _, _)
ScanNoBreak(vs, bin, my, closest) ==
    IF vs = <<>> THEN [my |-> my, closest |-> closest]
    ELSE LET v == Head(vs) IN
         ScanNoBreak(Tail(vs), bin,
                     IF v.ver = bin \/ Check(v.range, bin) THEN v ELSE my,
                     IF (closest = None \/ v.ver > closest.ver) /\ v.ver <= bin
                     THEN v ELSE closest)

\* The for loop of GetVersionCompatibleMap: an entry of the version itself
\* is taken and ends the loop; an entry whose range holds the version is
\* taken (a later one replaces it); the greatest version not above the
\* binary's is remembered (the first of equal ones).
RECURSIVE Scan(_, _, _, _)
Scan(vs, bin, my, closest) ==
    IF vs = <<>> THEN [my |-> my, closest |-> closest]
    ELSE LET v == Head(vs) IN
         IF v.ver = bin THEN [my |-> v, closest |-> closest]
         ELSE Scan(Tail(vs), bin,
                   IF Check(v.range, bin) THEN v ELSE my,
                   IF (closest = None \/ v.ver > closest.ver) /\ v.ver <= bin
                   THEN v ELSE closest)

\* The selection after the table is decoded: the loop's match, else the
\* closest entry, else None (the "was not found in the version map" error).
SelectCompatible(vs, bin) ==
    LET r == Scan(vs, bin, None, None) IN
    IF r.my # None THEN r.my ELSE r.closest

\* loadCompatibleMapFile: the embedded file for an empty URI; else the file
\* at the URI when it can be read (ok), else the embedded file.
LoadCompatibleMapFile(u, file, ok) == IF u # "" /\ ok THEN file ELSE Embedded

-----------------------------------------------------------------------------
(* The reference: the entries an operator of version bin may be given.   *)

Entries(vs) == {vs[i] : i \in DOMAIN vs}

Acceptable(vs, bin) ==
    LET exact   == {i \in DOMAIN vs : vs[i].ver = bin}
        ranged  == {e \in Entries(vs) : e.range # {} /\ Check(e.range, bin)}
        below   == {i \in DOMAIN vs : vs[i].ver <= bin}
        closest == {i \in below : \A j \in below : vs[j].ver < vs[i].ver
                                                   \/ (vs[j].ver = vs[i].ver /\ i <= j)}
    IN IF exact # {} THEN {vs[CHOOSE i \in exact : \A j \in exact : i <= j]}
       ELSE IF ranged # {} THEN ranged
       ELSE IF closest # {} THEN {vs[i] : i \in closest}
       ELSE {None}

-----------------------------------------------------------------------------

\* No call made yet.
Init ==
    /\ uri = "" /\ remote = <<>> /\ binVersion = None
    /\ result = None
    /\ versions = <<>>
    /\ version = None /\ parsed = None
    /\ tag = None /\ converted = None
    /\ done = FALSE

\* One call of GetVersionCompatibleMap(versionsURI, binVersion), the file
\* at the URI what it may be: load the file (the read of the URI
\* succeeds or not), decode it, select the entry; a decode error is
\* returned as it is.
GetVersionCompatibleMap ==
    /\ ~done
    /\ \E u \in URIs, file \in Tables, bin \in Versions, ok \in BOOLEAN :
         LET vs == Decode(LoadCompatibleMapFile(u, file, ok)) IN
         /\ uri' = u /\ remote' = file /\ binVersion' = bin
         /\ versions' = vs
         /\ result' = IF vs = Invalid THEN Invalid ELSE SelectCompatible(vs, bin)
    /\ done' = TRUE
    /\ UNCHANGED <<version, parsed, tag, converted>>

\* A Version written to YAML as its String and read back by
\* Version.UnmarshalYAML.
ReadBackVersion ==
    /\ ~done
    /\ \E v \in TestVersions(SuffixLen) :
         /\ version' = v
         /\ parsed' = VersionUnmarshalYAML(VersionString(v))
    /\ done' = TRUE
    /\ UNCHANGED <<uri, remote, binVersion, result, versions, tag, converted>>

\* The image tag of a release, "release-" and the Version's String, or
\* the String alone, converted by TagToVersionString.
ConvertTag ==
    /\ ~done
    /\ \E v \in TestVersions(SuffixLen), prefixed \in BOOLEAN :
         LET t == IF prefixed THEN <<Release, Dash>> \o VersionString(v)
                  ELSE VersionString(v)
         IN /\ version' = v /\ tag' = t
            /\ converted' = TagToVersionString(t)
    /\ done' = TRUE
    /\ UNCHANGED <<uri, remote, binVersion, result, versions, parsed>>

Next == GetVersionCompatibleMap \/ ReadBackVersion \/ ConvertTag

Spec == Init /\ [][Next]_vars

-----------------------------------------------------------------------------
(* Properties                                                            *)

\* The lookup returns the entry of the binary's own version when the
\* decoded table has one (wherever it sits), else an entry whose range
\* holds the version, else the closest version below it: the break, the
\* overriding range match, the closest-version fallback of the loop and
\* the default range UnmarshalYAML gives an entry agree with that order.
\* A file with a rejected entry makes the call fail.
LookupMatchesReference ==
    done => IF versions = Invalid THEN result = Invalid
            ELSE result \in Acceptable(versions, binVersion)

\* A Version written as its String reads back as the same Version: the
\* "-" before the suffix, the split on "-" and the re-join of the pieces,
\* the padding of the segments and the uint32 conversion agree.
VersionReadsBack ==
    parsed # None =>
      /\ parsed = [ok |-> TRUE, v |-> version]
      /\ IsVersionString(VersionString(version))

\* The image tag of a release converts to a version string that
\* NewVersionFromString reads as the release's major, minor and patch:
\* the prefix is trimmed, NewSemver accepts the "-" pre-release, and the
\* segments are written back in order, without the pre-release.
TagConvertsToVersion ==
    converted # None =>
      /\ converted.ok
      /\ NewVersionFromString(converted.s) = [ok |-> TRUE, v |-> [version EXCEPT !.suffix = <<>>]]
=============================================================================

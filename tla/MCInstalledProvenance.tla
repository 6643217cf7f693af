------------------------ MODULE MCInstalledProvenance ------------------------
(* Instances of InstalledProvenance for TLC. *)
EXTENDS InstalledProvenance

CONSTANTS d1, d2, init, stray, cached, direct, installer, a, b, v1, v2, c1, c2, h1, h2

MCPackage == {init, stray, cached}
MCMetadata == {direct, installer}

GitSource == [kind |-> "git", mixed |-> FALSE, site |-> "expected", commit |-> c1,
              requested |-> c1, hash |-> None]
ArchiveSource == [GitSource EXCEPT !.kind = "archive", !.hash = h1]
FileSource == [GitSource EXCEPT !.kind = "file", !.commit = c2]

\* A sound installation with each kind of source; the stray file is absent.
Base(s) ==
  [packaging |-> TRUE, found |-> {d1}, regular |-> {d1}, named |-> {d1}, record |-> "good",
   rows |-> [f \in File |-> IF f = stray THEN NoRow ELSE IF f = cached THEN NoDigest ELSE a],
   content |-> [f \in File |-> IF f = stray THEN Missing ELSE a],
   metadata |-> "ours", version |-> v1, literal |-> v1, installer |-> TRUE,
   url |-> s, artifact |-> h1]

DeviateSource(s) ==
  {[s EXCEPT !.kind = x] : x \in {"git", "vcs", "archive", "file", "other"}} \cup
  {[s EXCEPT !.mixed = x] : x \in BOOLEAN} \cup
  {[s EXCEPT !.site = x] : x \in Site} \cup
  {[s EXCEPT !.commit = x] : x \in Commit} \cup
  {[s EXCEPT !.requested = x] : x \in Commit} \cup
  {[s EXCEPT !.hash = x] : x \in Digest \cup {None, Unsafe}}

\* Installations that differ from another in one respect.
Deviate(i) ==
  {[i EXCEPT !.packaging = x] : x \in BOOLEAN} \cup
  {[i EXCEPT !.found = x] : x \in SUBSET Dir} \cup
  {[i EXCEPT !.regular = x] : x \in SUBSET Dir} \cup
  {[i EXCEPT !.named = x] : x \in SUBSET Dir} \cup
  {[i EXCEPT !.record = x] : x \in {"good", "malformed", "unopenable", "unforeseen"}} \cup
  {[i EXCEPT !.rows = [@ EXCEPT ![f] = x]] :
     f \in File, x \in Bytes \cup {NoRow, NoDigest, WrongSize}} \cup
  {[i EXCEPT !.content = [@ EXCEPT ![f] = x]] :
     f \in File, x \in Bytes \cup {Missing, Link, Unreadable}} \cup
  {[i EXCEPT !.metadata = x] : x \in {"ours", "foreign", "unforeseen"}} \cup
  {[i EXCEPT !.version = x] : x \in Version \cup {Malformed, Unforeseen}} \cup
  {[i EXCEPT !.literal = x] : x \in Version \cup {Malformed, Unforeseen}} \cup
  {[i EXCEPT !.installer = x] : x \in BOOLEAN} \cup
  {[i EXCEPT !.url = x] : x \in {Invalid, Unforeseen} \cup
                             (IF i.url \in {Invalid, Unforeseen} THEN {} ELSE DeviateSource(i.url))} \cup
  {[i EXCEPT !.artifact = x] : x \in Digest \cup {Missing, Unreadable}}

\* Up to two deviations from a sound installation.
MCInstallations ==
  UNION {Deviate(i) : i \in UNION {Deviate(Base(s)) : s \in {GitSource, ArchiveSource, FileSource}}}

AnyRequest == [wellFormed |-> TRUE, version |-> v1, repository |-> "https", commit |-> c1,
               hash |-> None, allowLocal |-> FALSE]
FullRequest == [AnyRequest EXCEPT !.hash = h1, !.allowLocal = TRUE]
MCRequests ==
  {[AnyRequest EXCEPT !.hash = h, !.allowLocal = l] : h \in {None, h1}, l \in BOOLEAN} \cup
  {[AnyRequest EXCEPT !.wellFormed = FALSE]} \cup
  {[AnyRequest EXCEPT !.version = v] : v \in {Malformed, Unforeseen}} \cup
  {[FullRequest EXCEPT !.repository = u] : u \in {"insecure", "broken"}}
=============================================================================

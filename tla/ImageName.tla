------------------------------ MODULE ImageName ------------------------------
(***************************************************************************)
(* How process turns a desired image string into the name it compares with *)
(* the running containers.                                                 *)
(*                                                                         *)
(*   src/pkg/container/image.go                 ParseImageName             *)
(*   src/pkg/container/docker_container_manager.go  ParseFQIN              *)
(*   src/cmd/carisma-orchestrator/app/orchestrator.go:73-86  the loop in   *)
(*                                               process that applies them *)
(*                                                                         *)
(* A string is a sequence of one-character strings over a small alphabet:  *)
(* two lower-case letters, ".", "/" and ":".  The literals of the code and *)
(* of the reference library (the Docker Hub domain "docker.io", the prefix *)
(* "library/", "localhost", the tag "latest") are constants, given short   *)
(* values of the same shape by the MC module, so that every length         *)
(* relation the code depends on occurs among short strings.                *)
(*                                                                         *)
(* reference.ParseNormalizedNamed is a library function; it is modelled    *)
(* from its documented grammar restricted to the alphabet: a name is path  *)
(* components of letters joined by single "." or "/", optionally followed  *)
(* by ":" and a tag (ports, digests and upper case cannot be written).     *)
(***************************************************************************)
EXTENDS Integers, Sequences, SequencesExt

CONSTANTS
  Letters,        \* lower-case alphanumerics of the alphabet
  HubDomain,      \* reference's defaultDomain, "docker.io"
  OfficialPrefix, \* reference's officialRepoPrefix, "library/"
  Localhost,      \* reference's "localhost"
  LatestTag,      \* "latest", the version of an untagged image
  DefaultDomain,  \* cfg.DefaultContainerRegistryDomain
  MaxLen          \* longest desired image string enumerated

Chars == Letters \cup {".", "/", ":"}

Slash == <<"/">>
Colon == <<":">>

\* strings.IndexRune / strings.LastIndex as 1-based positions, 0 if absent.
FirstIndex(s, c) ==
  IF Contains(s, c) THEN Min({i \in 1 .. Len(s) : s[i] = c}) ELSE 0
LastIndex(s, c) ==
  IF Contains(s, c) THEN Max({i \in 1 .. Len(s) : s[i] = c}) ELSE 0

\* Go's s[:i] and s[i:] with 0-based i, on a 1-based sequence.
Upto(s, i) == SubSeq(s, 1, i)
From(s, i) == SubSeq(s, i + 1, Len(s))

-----------------------------------------------------------------------------
(* The reference library.                                                  *)

\* splitDockerDomain: the first segment (before the "/" at i) is a domain
\* only if it contains "." or ":" or is localhost; Docker Hub names
\* without a namespace get the official prefix.
DockerDomainAt(name, i, seg) ==
  LET implicit == i = 0 \/ (~Contains(seg, ".") /\ ~Contains(seg, ":")
                            /\ seg # Localhost)
  IN [implicit |-> implicit,
      domain |-> IF implicit THEN HubDomain ELSE seg,
      rest |-> IF implicit THEN name ELSE From(name, i)]

WithOfficialPrefix(sp) ==
  [sp EXCEPT !.rest = IF sp.domain = HubDomain /\ ~Contains(sp.rest, "/")
                      THEN OfficialPrefix \o sp.rest ELSE sp.rest]

SplitDockerDomain(name) ==
  LET i == FirstIndex(name, "/")
  IN WithOfficialPrefix(DockerDomainAt(name, i, Upto(name, i - 1)))

\* A name of path components (and a domain, which over this alphabet has
\* the same form): letters, each "." or "/" between two letters.
WellFormedName(n) ==
  /\ n # <<>>
  /\ n[1] \in Letters /\ n[Len(n)] \in Letters
  /\ \A i \in 1 .. Len(n) - 1 : n[i] \in {".", "/"} => n[i + 1] \in Letters
  /\ \A i \in 1 .. Len(n) : n[i] \in Letters \cup {".", "/"}

WellFormedTag(t) ==
  /\ t # <<>> /\ t[1] \in Letters
  /\ \A i \in 1 .. Len(t) : t[i] \in Letters \cup {"."}

\* Parse of "domain/remainder": the first ":" (at t) starts the tag, and
\* Name() is the part before it.
ParsedAt(full, t) ==
  LET nm == IF t = 0 THEN full ELSE Upto(full, t - 1)
      tag == IF t = 0 THEN <<>> ELSE From(full, t)
  IN [ok |-> WellFormedName(nm) /\ (t = 0 \/ WellFormedTag(tag)),
      name |-> nm, tagged |-> t # 0, tag |-> tag]

ParseFull(full) == ParsedAt(full, FirstIndex(full, ":"))

\* ParseNormalizedNamed: Parse(domain + "/" + remainder).
ParseNormalizedNamed(s) ==
  LET sp == SplitDockerDomain(s) IN ParseFull(sp.domain \o Slash \o sp.rest)

-----------------------------------------------------------------------------
(* The code.                                                               *)

\* ParseImageName: split at the last ":"; no ":" means "latest".
ParseImageName(str) ==
  LET idx == LastIndex(str, ":")
  IN IF idx # 0 THEN [Name |-> Upto(str, idx - 1), Version |-> From(str, idx)]
                ELSE [Name |-> str, Version |-> LatestTag]

\* The tag of ref, if any, appended to n.
WithTag(n, ref) == IF ref.tagged THEN n \o Colon \o ref.tag ELSE n

\* ParseFQIN from line 130 on, given ref = ParseNormalizedNamed(name) and
\* i the position of the first "/" of its Name().  The outcome is "ok"
\* with a value, "err" (a returned error) or "panic": name[:idx+1] slices
\* past the end of a name shorter than the normalised name's first segment.
FQINOf(name, defaultDomain, ref, i) ==
  LET changed == Len(ref.name) # Len(name)
  IN CASE ~ref.ok \/ i = 0          -> [res |-> "err", val |-> <<>>]
       [] changed /\ i > Len(name)   -> [res |-> "panic", val |-> <<>>]
       [] changed /\ Upto(ref.name, i) # Upto(name, i)
            -> [res |-> "ok", val |-> WithTag(defaultDomain \o From(ref.name, i - 1), ref)]
       [] OTHER                      -> [res |-> "ok", val |-> WithTag(ref.name, ref)]

ParseFQINWith(name, defaultDomain, ref) ==
  FQINOf(name, defaultDomain, ref, FirstIndex(ref.name, "/"))

ParseFQIN(name, defaultDomain) ==
  ParseFQINWith(name, defaultDomain, ParseNormalizedNamed(name))

\* process, lines 73-86: ParseImageName, then ParseFQIN of the name; an
\* error ends process with that error.
NormaliseImage(img) ==
  LET fq == ParseFQIN(img.Name, DefaultDomain)
  IN [res |-> fq.res, img |-> [Name |-> fq.val, Version |-> img.Version]]

NormaliseDesired(str) == NormaliseImage(ParseImageName(str))

-----------------------------------------------------------------------------
(* process receives one desired image string; the checks are over every  *)
(* string up to MaxLen.                                                    *)

VARIABLE desired   \* the image string received, NoString before it

NoString == <<"none">>   \* not a string over Chars

Init == desired = NoString

\* A DESIRED message for this host names the image string str.
Receive(str) ==
  /\ desired = NoString
  /\ desired' = str

Next == \E str \in UNION {[1 .. n -> Chars] : n \in 0 .. MaxLen} : Receive(str)

Spec == Init /\ [][Next]_desired

TypeOK == desired = NoString \/ (desired \in Seq(Chars) /\ Len(desired) <= MaxLen)

\* What spec.md section 4.4 (step 2) prescribes for a desired image: split
\* on the last ":" (default "latest"), then prepend the default registry
\* domain when the name has no explicit domain, keeping an explicit one.
SpecNormalisedImage(img, ref, implicit) ==
  LET name == IF implicit THEN DefaultDomain \o From(ref.name, Len(HubDomain))
              ELSE ref.name
  IN IF ref.ok
     THEN [res |-> "ok", img |-> [Name |-> WithTag(name, ref), Version |-> img.Version]]
     ELSE [res |-> "err", img |-> [Name |-> <<>>, Version |-> img.Version]]

SpecNormalised(str) ==
  LET img == ParseImageName(str)
  IN SpecNormalisedImage(img, ParseNormalizedNamed(img.Name),
                         SplitDockerDomain(img.Name).implicit)

\* process normalises every desired image string as spec.md section 4.4
\* says: a well-formed reference gets the default domain or keeps its own,
\* a malformed one makes process return an error; ParseFQIN never panics.
DesiredNormalised ==
  desired # NoString => NormaliseDesired(desired) = SpecNormalised(desired)

=============================================================================

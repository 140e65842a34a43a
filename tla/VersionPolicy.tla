---------------------------- MODULE VersionPolicy ----------------------------
(***************************************************************************)
(* How the client compares versions: semantic versions against the policy  *)
(* the relay sends with hello_ok, for the client itself and for the plugin *)
(* it talks to, and the lenient comparison behind the warning about old    *)
(* plugins.                                                                *)
(*                                                                         *)
(* A version string is its numbers, the numbers of its pre-release tag and *)
(* whether a "v" comes first.  Missing stands for None.                    *)
(***************************************************************************)
EXTENDS Integers, SequencesExt

Version == [v : BOOLEAN, numbers : Seq(Nat), pre : Seq(Nat)]

Missing == [v |-> FALSE, numbers |-> <<>>, pre |-> <<>>]

\* semver::Version::parse (external): three numbers, no "v".
Parses(version) == Len(version.numbers) = 3 /\ ~version.v

\* trim_start_matches('v')
Trimmed(version) == [version EXCEPT !.v = FALSE]

\* Seq's own order, for numbers: at the first difference, or by length.
Before(s, t) ==
  \/ IsStrictPrefix(s, t)
  \/ \E i \in DOMAIN s \cap DOMAIN t :
       s[i] < t[i] /\ \A j \in 1 .. i - 1 : s[j] = t[j]

\* Ord of semver::Version (external)
Older(a, b) ==
  \/ Before(a.numbers, b.numbers)
  \/ a.numbers = b.numbers /\ a.pre # <<>> /\ (b.pre = <<>> \/ Before(a.pre, b.pre))

\* Mutant of IsBelow: the two sides of the comparison are swapped.
IsAbove(version, bound) == Parses(Trimmed(bound)) /\ Older(Trimmed(bound), version)

\* A bound that cannot be parsed is none.
IsBelow(version, bound) == Parses(Trimmed(bound)) /\ Older(version, Trimmed(bound))

EvaluateVersionPolicy(app_version, policy) ==
  LET parsed == Parses(Trimmed(app_version)) IN
  IF parsed /\ IsBelow(app_version, policy.min) THEN "HardBlock"
  ELSE IF ~parsed \/ IsBelow(app_version, policy.recommended) THEN "SoftNag"
  ELSE "None"

\* The plugin's version and bounds are parsed with their "v".
EvaluatePluginVersionPolicy(plugin_version, policy) ==
  LET below(bound) == Parses(bound) /\ Older(plugin_version, bound) IN
  IF ~Parses(plugin_version)
    THEN IF policy.recommended # Missing THEN "SoftNag" ELSE "Ok"
  ELSE IF below(policy.min) THEN "HardBlock"
  ELSE IF below(policy.recommended) THEN "SoftNag"
  ELSE "Ok"

\* version_parts: the first three numbers wherever they are, zeros for the rest.
VersionParts(version) == SubSeq(version.numbers \o version.pre \o <<0, 0, 0>>, 1, 3)

IsVersionLessThan(current, minimum) == Before(VersionParts(current), VersionParts(minimum))

\* How much an EvaluateVersionPolicy or EvaluatePluginVersionPolicy asks for.
Severity(verdict) ==
  CASE verdict \in {"None", "Ok"} -> 0 [] verdict = "SoftNag" -> 1 [] verdict = "HardBlock" -> 2

=============================================================================

---------------------------- MODULE FetchRelease ----------------------------
(***************************************************************************)
(* fetchRelease() and splitRelease() of                                    *)
(* overlay/remote-ssh/src/fetchRelease.ts: which release of the server is  *)
(* downloaded for the setting remote.SSH.serverVersion.                    *)
(*                                                                         *)
(* The digits of a title are kept, because the two schemes of a title are  *)
(* told apart by them; the major version is one and the same.              *)
(***************************************************************************)
EXTENDS Integers, Sequences, SequencesExt

Digits == Seq(0..9)

\* A title: <major>.<minor>.<third> or <major>.<minor>.<third>.<fourth>.
Title == [minor : Nat, third : Digits \ {<<>>}, fourth : Digits]

\* With a fourth number it is the build; otherwise the build is what follows the
\* first digit of the third number, and nothing if that is one digit.
SplitRelease(t) ==
    IF t.fourth # <<>>
    THEN [version |-> <<t.minor, t.third>>, build |-> t.fourth]
    ELSE [version |-> <<t.minor, <<Head(t.third)>>>>, build |-> Tail(t.third)]

\* A part of a semantic version: digits without a leading zero.
Numeric(d) == d # <<>> /\ (Len(d) = 1 \/ Head(d) # 0)

\* semver.valid("<version>-<build>")
ValidRelease(r) == Numeric(r.version[2]) /\ Numeric(r.build)

NumberOf(d) == FoldLeft(LAMBDA n, digit : 10 * n + digit, 0, d)

\* Variant: builds are compared as text.
RankAsText(r) ==
    <<r.version[1], NumberOf(r.version[2]), NumberOf(SubSeq(r.build \o <<0, 0, 0, 0>>, 1, 4))>>

\* semver.compare: minor, patch, then the build as a number.
Rank(r) == <<r.version[1], NumberOf(r.version[2]), NumberOf(r.build)>>

AtLeast(a, b) ==
    LET x == Rank(a)
        y == Rank(b)
    IN  \/ x[1] > y[1]
        \/ x[1] = y[1] /\ x[2] > y[2]
        \/ x[1] = y[1] /\ x[2] = y[2] /\ x[3] >= y[3]

\* "latest", "closest", or one version, with its build or without: its minor
\* number and the digits that follow.
Wanted(objective, local, r) ==
    CASE objective = "latest"  -> TRUE
      [] objective = "closest" -> r.version = local.version
      [] OTHER -> \/ <<r.version[1], r.version[2] \o r.build>> = objective
                  \/ r.version = objective

\* Titles of GitHub's list, which may not be had: then it is empty.
BestRelease(objective, local, titles) ==
    LET valid == {r \in {SplitRelease(titles[i]) : i \in DOMAIN titles} : ValidRelease(r)}
        found == {r \in valid : Wanted(objective, local, r)}
    IN  IF objective = "match" \/ found = {} THEN local
        ELSE CHOOSE r \in found : \A other \in found : AtLeast(r, other)
=============================================================================

------------------------------- MODULE Semver -------------------------------
(***************************************************************************)
(* CheckVersion of internal/client, and the comparison of versions below   *)
(* it.  A version is the sequence of what the dots of its text separate,   *)
(* a leading "v" removed.  Each piece is a number or a word, followed by   *)
(* "-" and a suffix or not.                                                *)
(***************************************************************************)
EXTENDS Integers, Sequences

Word == -1      \* strconv.Atoi refuses it: "", "x", "1a", a number too large
Piece == [number : Nat \cup {Word}, suffix : BOOLEAN]
Version == Seq(Piece)

Unset == <<>>                                       \* ""
Dev   == <<[number |-> Word, suffix |-> FALSE]>>    \* "dev"

Invalid == <<>>

\* The number of the i-th part.  SplitN leaves everything from the third piece on
\* in the third part, so a fourth piece spoils it, unless a suffix comes first.
Part(v, i) ==
    CASE i > Len(v) -> 0
      [] i = 3 /\ Len(v) > 3 /\ ~v[3].suffix -> Word
      [] OTHER -> v[i].number

\* One to three numbers; what is missing is 0, what follows a "-" is dropped.
ParseSemver(v) ==
    IF v = Unset \/ \E i \in 1..3 : Part(v, i) = Word THEN Invalid
    ELSE [i \in 1..3 |-> Part(v, i)]

\* A plausible bug in the loop: a part that is greater does not end it.
SmallerAnyPart(p, q) == \E i \in 1..3 : p[i] < q[i]

\* The first part that differs decides.
Smaller(p, q) ==
    \E i \in 1..3 : p[i] < q[i] /\ \A j \in 1..(i - 1) : p[j] = q[j]

CompareSemver(a, b) ==
    LET p == ParseSemver(a)
        q == ParseSemver(b)
    IN  IF p = Invalid \/ q = Invalid THEN "error"
        ELSE IF Smaller(p, q) THEN "less"
        ELSE IF Smaller(q, p) THEN "greater"
        ELSE "equal"

\* What CheckVersion finds for the versions the server requires.
CheckVersion(version, required) ==
    LET minimum == CompareSemver(version, required.minimum)
        latest  == CompareSemver(version, required.latest)
    IN  IF version = Dev \/ required.minimum = Unset THEN "fine"
        ELSE IF minimum = "error" THEN "unparsable"
        ELSE IF minimum = "less" THEN "update required"
        ELSE IF required.latest # Unset /\ latest = "less" THEN "update available"
        ELSE "fine"

=============================================================================

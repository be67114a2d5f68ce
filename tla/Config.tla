------------------------------- MODULE Config -------------------------------
(***************************************************************************)
(* config.Load: the walk of expandEnvVars over the parsed configuration,   *)
(* and the replacement of ${VAR} in the strings it gets to.                *)
(*                                                                         *)
(* Whether a string is replaced is decided by the kinds of the values on   *)
(* the way from the Config to it.  Such a way is a sequence of kinds; the  *)
(* walk is followed along it.                                              *)
(***************************************************************************)
LOCAL INSTANCE Naturals
LOCAL INSTANCE Sequences

CONSTANT Environ    \* the environment: the values of the references it defines

\* Texts that are a reference to a variable.  An environment defines some, and what
\* it gives for one may read as a reference again.
References == {"${SET}", "${UNSET}", "${NESTED}"}

\* os.Getenv for the name in a match: an unknown variable is the empty string.
Getenv(ref) == IF ref \in DOMAIN Environ THEN Environ[ref] ELSE ""

\* A plausible bug: replacing goes on in what the environment gave.
ExpandAgain(text) ==
    IF text \notin References THEN text
    ELSE IF Getenv(text) \in References THEN Getenv(Getenv(text)) ELSE Getenv(text)

\* expandString: one pass over the text, which does not come to what it put there.
Expand(text) == IF text \in References THEN Getenv(text) ELSE text

\* How the walk comes to a value: to one it can set, to one it cannot, to a
\* value of a map, which it copies, or not at all.
Places == {"settable", "fixed", "map value", "missed"}

\* Where a value of the given kind takes the walk in expandEnvVars.
ExpandEnvVars(place, kind) ==
    CASE kind = "struct" -> place
      [] kind \in {"slice", "ptr"} -> "settable"
      [] kind = "interface" -> "fixed"
      [] kind = "map" -> "map value"

\* In expandMapValue: a struct is copied and the copy walked; slices, maps and
\* pointers are handed back as they are.
ExpandMapValue(kind) ==
    CASE kind = "struct" -> "settable"
      [] kind = "interface" -> "map value"
      [] OTHER -> "missed"

Below(place, kind) ==
    CASE place = "missed" -> "missed"
      [] place = "map value" -> ExpandMapValue(kind)
      [] OTHER -> ExpandEnvVars(place, kind)

\* The string at the end of the way is replaced.  Load starts with the Config
\* behind a pointer, which it can set.
Reached(way) ==
    \E place \in [0..Len(way) -> Places] :
        /\ place[0] = "settable"
        /\ \A i \in 1..Len(way) : place[i] = Below(place[i - 1], way[i])
        /\ place[Len(way)] \in {"settable", "map value"}

\* The ways to the strings of a Config that the startup looks at: a setting of
\* auth.okta, wireguard or metering, one of a resource, a group of a rule.
SettingWay == <<"struct", "struct", "struct">>
ResourceWay == <<"struct", "map", "struct">>
RuleWay == <<"struct", "struct", "slice", "struct">>

\* What Load makes of a string.
Load(way, text) == IF Reached(way) THEN Expand(text) ELSE text

=============================================================================

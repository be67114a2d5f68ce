----------------------------- MODULE MCConnect -----------------------------
(***************************************************************************)
(* TLC's values: versions of one to four pieces that differ in each part,  *)
(* with suffixes, two that do not parse, and one local request.            *)
(***************************************************************************)
EXTENDS Connect

LOCAL N(n) == [number |-> n, suffix |-> FALSE]
LOCAL S(n) == [number |-> n, suffix |-> TRUE]

MCVersions ==
    { Dev,                              \* dev
      <<N(1)>>,                         \* 1
      <<N(1), N(2), S(0)>>,             \* 1.2.0-rc
      <<N(1), N(2), N(3)>>,             \* 1.2.3
      <<N(1), N(3)>>,                   \* 1.3
      <<N(0), N(4), S(2), N(5)>>,       \* 0.4.2-rc.5
      <<N(1), N(2), N(3), N(4)>> }      \* 1.2.3.4
=============================================================================

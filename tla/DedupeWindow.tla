----------------------------- MODULE DedupeWindow -----------------------------
(***************************************************************************)
(* What the deduper promises its caller, without any cache: a hash is let  *)
(* through exactly when it was never seen, or its last sighting is more    *)
(* than TtlMs old, or at least Slots other hashes were seen since. The     *)
(* window is sliding (every sighting opens it again) and the bound on      *)
(* memory shows only as the third clause.                                  *)
(***************************************************************************)
EXTENDS Naturals, FiniteSets

CONSTANTS Keys, Slots, TtlMs, MaxMs

VARIABLES
  lastSeen,   \* key -> clock value read at its last sighting; seen keys only
  since,      \* key -> the other keys seen since that sighting
  verdict     \* the answer of the last call: [key, fresh]

windowVars == <<lastSeen, since, verdict>>

Seen == DOMAIN lastSeen

Lapsed(k, now) == now > lastSeen[k] + TtlMs

MustPass(k, now) ==
  \/ k \notin Seen
  \/ Lapsed(k, now)
  \/ Cardinality(since[k]) >= Slots

\* k becomes the latest sighting.
Sighted(k, now) ==
  /\ lastSeen' = [j \in Seen \cup {k} |-> IF j = k THEN now ELSE lastSeen[j]]
  /\ since' = [j \in Seen \cup {k} |->
                 IF j = k THEN {} ELSE since[j] \cup {k}]

\* No call has been answered yet: the answer has no key.
NoVerdict == [fresh |-> FALSE]

WindowInit ==
  /\ lastSeen = [k \in {} |-> 0]
  /\ since = [k \in {} |-> {}]
  /\ verdict = NoVerdict

WindowCall(k, now) ==
  /\ Sighted(k, now)
  /\ verdict' = [key |-> k, fresh |-> MustPass(k, now)]

WindowNext == \E k \in Keys, now \in 0 .. MaxMs : WindowCall(k, now)

WindowSpec == WindowInit /\ [][WindowNext]_windowVars
=============================================================================

------------------------------- MODULE Resolver -------------------------------
(***************************************************************************)
(* What PairMetadataCache::resolve promises its caller: no cache, one step *)
(* from call to reply. A pair that exists may be missed for a while after  *)
(* it was made, or after a query for it failed; but for that, the reply is *)
(* the pair of the first factory that has one. The while is told by the    *)
(* caller's clock, which may be set back: it is over when a call is made   *)
(* NegativeTtl later than the latest time any call before it was made at.  *)
(***************************************************************************)
EXTENDS Integers, Sequences

CONSTANTS Factories, Requests, FactoryLists, NegativeTtl, MaxNow, None

VARIABLES
  call,          \* the arguments of the call under way and when it began
  reply,         \* the last reply
  latest,        \* the latest time a call was made at so far
  visibleSince   \* pair that exists -> `latest` when it was made, or last
                 \* asked for in vain

Pair(f, r) == [factory |-> f, tokens |-> {r.a, r.b}, curve |-> r.curve]

NoCall == [req |-> None, list |-> <<>>, start |-> 0]
NoReply == [kind |-> "none yet", pair |-> None]

Init ==
  /\ call = NoCall /\ reply = NoReply
  /\ latest = 0 /\ visibleSince = [p \in {} |-> 0]

Call(r, list, time) ==
  /\ call.req = None
  /\ call' = [req |-> r, list |-> list, start |-> time]
  /\ latest' = IF time > latest THEN time ELSE latest
  /\ reply' = NoReply
  /\ UNCHANGED visibleSince

\* The pair the call asks of the i-th factory of its list.
Asked(i) == Pair(call.list[i], call.req)

\* The call may not know of it: there is none, or not for long.
Excused(i) ==
  Asked(i) \in DOMAIN visibleSince =>
    call.start <= visibleSince[Asked(i)] + NegativeTtl

Reply(kind, pair) ==
  /\ call' = NoCall
  /\ reply' = [kind |-> kind, pair |-> pair]
  /\ UNCHANGED latest

Found(i) ==
  /\ Asked(i) \in DOMAIN visibleSince
  /\ \A j \in 1 .. i - 1 : Excused(j)
  /\ Reply("pair", Asked(i))
  /\ UNCHANGED visibleSince

NotFound ==
  /\ \A i \in DOMAIN call.list : Excused(i)
  /\ Reply("none", None)
  /\ UNCHANGED visibleSince

InVain(i) ==
  visibleSince' = [p \in DOMAIN visibleSince |->
                     IF p = Asked(i) THEN latest ELSE visibleSince[p]]

\* A query about a pair fails; some failures end the call.
QueryFails(i) == InVain(i) /\ UNCHANGED <<call, reply, latest>>
CallFails(i) == InVain(i) /\ Reply("error", None)

Make(p) ==
  /\ p \notin DOMAIN visibleSince
  /\ visibleSince' = [q \in DOMAIN visibleSince \cup {p} |->
                        IF q = p THEN latest ELSE visibleSince[q]]
  /\ UNCHANGED <<call, reply, latest>>

Next ==
  \/ \E r \in Requests, list \in FactoryLists, time \in 0 .. MaxNow : Call(r, list, time)
  \/ /\ call.req # None
     /\ \/ NotFound
        \/ \E i \in DOMAIN call.list : Found(i) \/ QueryFails(i) \/ CallFails(i)
  \/ \E f \in Factories, r \in Requests : Make(Pair(f, r))

Spec == Init /\ [][Next]_<<call, reply, latest, visibleSince>>
=============================================================================

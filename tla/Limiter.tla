------------------------------ MODULE Limiter ------------------------------
(***************************************************************************)
(* The rate limiter of the API (apps/api/src/lib/rate-limit.ts): a fixed   *)
(* window per client address, kept in the process, whose expired buckets   *)
(* go once there are many.  An address is taken on the word of the proxy   *)
(* the deployment trusts, and requests without one share a bucket.         *)
(***************************************************************************)
EXTENDS Naturals, FiniteSets, Sequences, SequencesExt

CONSTANTS Client, None,
          LIMIT, WINDOW,    \* RATE_LIMIT_PER_MINUTE and a minute
          SECOND,           \* of time's units
          MANY,             \* 10,000 buckets
          MaxTime           \* bound

LimiterAssumption ==
  /\ {LIMIT, MANY, MaxTime} \subseteq Nat /\ {WINDOW, SECOND} \subseteq Nat \ {0}
  /\ None \notin [count : Nat, resetAt : Nat] \cup [until : Nat, of : Nat]

VARIABLES
  now,
  trustedProxy,
  buckets,     \* an address's [count, resetAt]; None without
  admitted,    \* history: when an address's requests were let through
  told         \* until when an address was told to wait, and of which window

vars == <<now, trustedProxy, buckets, admitted, told>>

Address == Client \cup {"unknown"}

\* A request of a client: the hops it wrote itself and the one the proxy appended, the
\* viewer's address when CloudFront is there to add it, and the socket's.
RequestsOf(c) ==
  [hops : {Append(own, c) : own \in {<<>>} \cup {<<d>> : d \in Client}} \cup {<<>>},
   viewer : {c, None}, socket : {c, None}]

clientAddress(r) ==
  LET address == CASE trustedProxy = "cloudfront" -> r.viewer
                   [] trustedProxy = "traefik" -> IF r.hops = <<>> THEN None ELSE Last(r.hops)
                   [] trustedProxy = "none" -> r.socket
  IN IF address = None THEN "unknown" ELSE address

Init ==
  /\ now = 0 /\ trustedProxy \in {"none", "traefik", "cloudfront"}
  /\ buckets = [a \in Address |-> None]
  /\ admitted = [a \in Address |-> <<>>] /\ told = [a \in Address |-> None]

Tick == now < MaxTime /\ now' = now + 1 /\ UNCHANGED <<trustedProxy, buckets, admitted, told>>

Expired(b) == b # None /\ b.resetAt <= now

\* The buckets a request finds: the expired ones are gone when there are many.
Sweep ==
  LET size == Cardinality({a \in Address : buckets[a] # None}) IN
  IF size > MANY THEN [a \in Address |-> IF Expired(buckets[a]) THEN None ELSE buckets[a]] ELSE buckets

retryAfter(b) ==
  LET seconds == (b.resetAt - now + SECOND - 1) \div SECOND
  IN SECOND * (IF seconds < 1 THEN 1 ELSE seconds)

rateLimit(c) ==
  \E key \in {clientAddress(r) : r \in RequestsOf(c)} :
    LET found == Sweep[key]
        fresh == found = None \/ Expired(found)
        bucket == [count |-> (IF fresh THEN 0 ELSE found.count) + 1,
                   resetAt |-> IF fresh THEN now + WINDOW ELSE found.resetAt]
    IN /\ bucket.count <= LIMIT + 1      \* a refused count more is a refused count
       /\ buckets' = [Sweep EXCEPT ![key] = bucket]
       /\ IF bucket.count > LIMIT
          THEN /\ told' = [told EXCEPT ![key] =
                              [until |-> now + retryAfter(bucket), of |-> bucket.resetAt]]
               /\ UNCHANGED admitted
          ELSE /\ admitted' = [admitted EXCEPT ![key] = Append(@, now)]
               /\ told' = [told EXCEPT ![key] = None]
       /\ UNCHANGED <<now, trustedProxy>>

Next == Tick \/ \E c \in Client : rateLimit(c)

Spec == Init /\ [][Next]_vars

-----------------------------------------------------------------------------
TypeOK ==
  /\ now \in 0 .. MaxTime
  /\ \A a \in Address : buckets[a] # None =>
       buckets[a].count \in 1 .. LIMIT + 1 /\ buckets[a].resetAt \in WINDOW .. MaxTime + WINDOW

LastMinute(a) == {i \in DOMAIN admitted[a] : admitted[a][i] + WINDOW > now}

\* No minute, wherever it begins, lets more than two windows' requests of an address
\* through, whatever was swept.
AdmitsTheLimit == \A a \in Address : Cardinality(LastMinute(a)) <= 2 * LIMIT

\* Whoever waits as long as they were told is let through, but for the bucket others
\* share; and nobody's requests are counted for another client.
WaitIsEnough ==
  \A a \in Address : told[a] # None /\ now >= told[a].until /\ buckets[a] # None =>
    Expired(buckets[a]) \/ buckets[a].resetAt # told[a].of

CountedAsThemselves ==
  \A c \in Client : \A r \in RequestsOf(c) : clientAddress(r) \in {c, "unknown"}
=============================================================================

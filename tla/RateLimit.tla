------------------------------ MODULE RateLimit ------------------------------
(***************************************************************************)
(* The fixed window that limits the logins of an address: RateLimitService *)
(* (apps/api/src/common/rate-limit.ts) as AuthService.login uses it        *)
(* (apps/api/src/auth/auth.service.ts).                                    *)
(***************************************************************************)
EXTENDS Integers, FiniteSets

CONSTANTS
    Addresses, Attempts,
    Limit, Window,      \* LOGIN_RATE_LIMIT attempts in LOGIN_RATE_WINDOW
    GcSize,             \* 1000 buckets
    MaxTime             \* bound on the clock

ASSUME RateAssumption == {Limit, Window, GcSize, MaxTime} \subseteq Nat \ {0}

VARIABLES
    clock,
    bucket,     \* address -> count and windowStart, or NoBucket
    attempt,    \* attempt -> the address it comes from, NoAddress when idle
    promised    \* for the properties: address -> the time its first refused user was
                \* told to wait until, and when the bucket was last emptied since

rateVars == <<clock, bucket, attempt, promised>>

NoBucket  == [count |-> 0, start |-> 0]
NoPromise == [until |-> 0, emptied |-> 0]
NoAddress == "none"

IsOver(b) == b = NoBucket \/ clock - b.start >= Window

-------------------------------------------------------------------------------
Tick ==
    /\ clock < MaxTime /\ clock' = clock + 1
    /\ UNCHANGED <<bucket, attempt, promised>>

\* With many buckets those whose window is over are dropped.
Gc(buckets) ==
    IF Cardinality({a \in Addresses : buckets[a] # NoBucket}) < GcSize THEN buckets
    ELSE [a \in Addresses |-> IF IsOver(buckets[a]) THEN NoBucket ELSE buckets[a]]

\* A mistake the runs must catch: the window slides with every attempt.
CountAndSlide(b) == [count |-> IF b.count > Limit THEN b.count ELSE b.count + 1,
                     start |-> clock]

\* Above the limit the count makes no difference any more.
CountOne(b) == [b EXCEPT !.count = IF @ > Limit THEN @ ELSE @ + 1]

\* A promise is kept track of until an attempt opens a window after its time.
Settled(p) == IF clock >= p.until THEN NoPromise ELSE p
Told(p, b) == IF p = NoPromise THEN [until |-> b.start + Window, emptied |-> 0] ELSE p
Emptied(p) == IF p = NoPromise THEN p ELSE [p EXCEPT !.emptied = clock]

\* Count an attempt: it passes, or its user is told when the window is over.
Check(r) ==
    /\ attempt[r] = NoAddress
    /\ \E a \in Addresses :
          LET counted == CountOne(bucket[a])
          IN  \/ /\ IsOver(bucket[a])
                 /\ bucket' = Gc([bucket EXCEPT ![a] = [count |-> 1, start |-> clock]])
                 /\ attempt' = [attempt EXCEPT ![r] = a]
                 /\ promised' = [promised EXCEPT ![a] = Settled(@)]
              \/ /\ ~IsOver(bucket[a])
                 /\ bucket' = [bucket EXCEPT ![a] = counted]
                 /\ IF counted.count <= Limit
                    THEN attempt' = [attempt EXCEPT ![r] = a] /\ UNCHANGED promised
                    ELSE /\ promised' = [promised EXCEPT ![a] = Told(@, counted)]
                         /\ UNCHANGED attempt
    /\ UNCHANGED clock

\* The password was right: the bucket of the address is emptied, whatever the
\* attempts of others have made of it meanwhile.
Succeed(r) ==
    /\ attempt[r] # NoAddress
    /\ bucket' = [bucket EXCEPT ![attempt[r]] = NoBucket]
    /\ promised' = [promised EXCEPT ![attempt[r]] = Emptied(@)]
    /\ attempt' = [attempt EXCEPT ![r] = NoAddress]
    /\ UNCHANGED clock

Fail(r) ==
    /\ attempt[r] # NoAddress
    /\ attempt' = [attempt EXCEPT ![r] = NoAddress]
    /\ UNCHANGED <<clock, bucket, promised>>

\* The server starts again: the buckets were in its memory.
RestartLimit ==
    /\ bucket' = [a \in Addresses |-> NoBucket]
    /\ attempt' = [r \in Attempts |-> NoAddress]
    /\ promised' = [a \in Addresses |-> Emptied(promised[a])]
    /\ UNCHANGED clock

RateInit ==
    /\ clock = 1
    /\ bucket = [a \in Addresses |-> NoBucket]
    /\ attempt = [r \in Attempts |-> NoAddress]
    /\ promised = [a \in Addresses |-> NoPromise]

RateNext == Tick \/ RestartLimit \/ \E r \in Attempts : Check(r) \/ Succeed(r) \/ Fail(r)

RateSpec == RateInit /\ [][RateNext]_rateVars

-------------------------------------------------------------------------------
(* Properties                                                              *)

\* When the time comes that the first refused user of an address was told, its
\* window is over, however often anybody has tried again since (rate-limit.ts,
\* 36-41).  A login from the address that succeeds meanwhile, or a new start of
\* the server, empties the bucket, and who tries then opens a window of which
\* nothing was said: only a window opened since may be in the way.  The comment
\* of the code makes no such exception.
WaitIsKept ==
    \A a \in Addresses :
       promised[a] # NoPromise /\ clock >= promised[a].until =>
          \/ IsOver(bucket[a])
          \/ promised[a].emptied # 0 /\ bucket[a].start >= promised[a].emptied
==============================================================================
